-------------------------- MODULE SchedCtrlProofs --------------------------
(***************************************************************************)
(* Proofs about the time control client of module SchedCtrl, for every     *)
(* length of a tick, every width of the sequence numbers and every bound:  *)
(* with clients that are participants, and no job before the connection is *)
(* started, every message is acknowledged and no assertion fails.          *)
(***************************************************************************)
EXTENDS SchedCtrl, TLAPS, SequenceTheorems

Op == {"START", "REQUEST", "WAIT", "UPDATE", "GET"}
Msg == [op : Op \cup {"ACK", "RUN", "FREE_UNTIL"}, seq : 0..(SeqMod - 1), time : Nat]
Sending == [op : Op, seq : 1..(SeqMod - 1)]

MessageTypes ==
    /\ stack \in Seq(Sending) /\ to_cal \in Seq(Msg) /\ to_host \in Seq(Msg)

(***************************************************************************)
(* The three stages of the send in progress: its message is the last on    *)
(* its way to the calendar, the answer is on its way back, the answer was  *)
(* read.                                                                   *)
(***************************************************************************)
Sent ==
    /\ ~acked /\ to_host = <<>> /\ to_cal # <<>>
    /\ \A k \in 1..(Len(to_cal) - 1) : to_cal[k].op = "ACK"
    /\ LET m == to_cal[Len(to_cal)]
       IN /\ m.op = stack[1].op /\ m.seq = stack[1].seq
          /\ m.op = "UPDATE" => m.time = current_time * NsPerTick
          /\ m.op = "REQUEST" => m.time = prev_external_sync * NsPerTick

Answered ==
    /\ ~acked /\ to_cal = <<>> /\ Len(to_host) = 1
    /\ to_host[1].op = "ACK" /\ to_host[1].seq = stack[1].seq
    /\ stack[1].op = "GET" => to_host[1].time = cal_time

AnswerRead ==
    /\ acked /\ to_cal = <<>> /\ to_host = <<>>
    /\ stack[1].op = "GET" => ack_time = cal_time

(***************************************************************************)
(* At most one send is in progress, and without one only acknowledgements  *)
(* are on their way to the calendar.                                       *)
(***************************************************************************)
Conversation ==
    /\ Len(stack) <= 1
    /\ stack = <<>> => ~acked /\ \A k \in 1..Len(to_cal) : to_cal[k].op = "ACK"
    /\ stack # <<>> => /\ expected_ack_seq = stack[1].seq
                       /\ Sent \/ Answered \/ AnswerRead

(***************************************************************************)
(* Where the daemon is, what it sends there and who has the token.         *)
(***************************************************************************)
Places ==
    /\ pc \in {"start", "callback", "loop"} => stack = <<>>
    /\ pc = "wait" => stack # <<>> /\ stack[1].op = "WAIT"
    /\ stack # <<>> => /\ stack[1].op = "WAIT" => pc = "wait"
                       /\ stack[1].op = "GET" => pc = "handler"
                       /\ stack[1].op = "UPDATE" => pc = "run"
    /\ pc \in {"start", "run", "callback", "ask"} => ~host_waits
    /\ pc = "wait" => waiting /\ ~prev_external_sync_set /\ (host_waits <=> ~Sent)
    /\ pc = "handler" => waiting /\ host_waits
    /\ pc = "loop" => (host_waits <=> waiting /\ to_host = <<>>)
    /\ pc = "start" => jobs = {}

(***************************************************************************)
(* The turn of the daemon is on its way: it gets what it asked for last.   *)
(***************************************************************************)
TurnComing ==
    (stack = <<>> /\ to_host # <<>>) =>
        /\ pc = "loop" /\ waiting /\ cal_request = None
        /\ cal_time = prev_external_sync * NsPerTick
        /\ prev_external_sync >= current_time
        /\ LET n == Len(to_host)
           IN /\ n \in {1, 2}
              /\ to_host[n].op = "RUN" /\ to_host[n].time = cal_time
              /\ n = 2 => /\ to_host[1].op = "FREE_UNTIL"
                          /\ to_host[1].time = cal_free /\ cal_free >= cal_time

Requesting == stack # <<>> /\ stack[1].op = "REQUEST" /\ Sent
Requested == Requesting \/ cal_request # None

Getting == stack # <<>> /\ stack[1].op = "GET"

(***************************************************************************)
(* What the calendar knows is what the daemon asked for last, which        *)
(* neither of their clocks has passed.                                     *)
(***************************************************************************)
RequestInv ==
    /\ (cal_request # None /\ ~Requesting) =>
          cal_request = prev_external_sync * NsPerTick
    /\ Requested =>
          /\ prev_external_sync >= current_time
          /\ cal_time <= prev_external_sync * NsPerTick
          /\ next_external_sync = None \/ prev_external_sync >= next_external_sync

\* the daemon has the token
Running ==
    pc \in {"start", "run", "callback", "ask"} \/ (pc = "loop" /\ ~waiting)

(***************************************************************************)
(* A daemon that waits with a job has asked, and a request is suppressed   *)
(* only if it stands.                                                      *)
(***************************************************************************)
AskedInv ==
    /\ (jobs # {} /\ pc \in {"ask", "wait", "handler"}) => Requested
    /\ (jobs # {} /\ pc = "loop" /\ host_waits) => Requested
    /\ (prev_external_sync_set /\ host_waits) => Requested
    /\ (prev_external_sync_set /\ prev_external_sync > current_time /\ Running) =>
          Requested

(***************************************************************************)
(* While the daemon runs the calendar's clock is not ahead of the daemon's *)
(* and is behind it only in the time that the daemon has for itself.       *)
(***************************************************************************)
ClocksInv ==
    /\ (Running \/ pc = "wait" \/ (pc = "handler" /\ ~Getting)) =>
          cal_time <= current_time * NsPerTick
    /\ \/ current_time <= DivRoundUp(cal_time, NsPerTick)
       \/ next_external_sync # None /\ current_time <= next_external_sync
    /\ next_external_sync # None => next_external_sync * NsPerTick <= cal_free
    /\ pc = "handler" => cal_time >= cal_free
    /\ (pc = "handler" /\ ~Getting /\ next_external_sync # None) =>
          current_time >= next_external_sync

IInv ==
    /\ TypeOK
    /\ MessageTypes
    /\ Conversation
    /\ Places
    /\ TurnComing
    /\ RequestInv
    /\ AskedInv
    /\ ClocksInv
    /\ NoAbort
-----------------------------------------------------------------------------
(* Ticks and nanoseconds.                                                  *)

LEMMA TickScale ==
    ASSUME NEW k \in Nat, NEW l \in Nat, NEW n \in Nat \ {0}
    PROVE  /\ k * n \in Nat
           /\ k <= l => k * n <= l * n
           /\ k < l => (k + 1) * n <= l * n
           /\ (k + 1) * n = k * n + n
<1>1. k * n \in Nat /\ (k + 1) * n = k * n + n
  OBVIOUS
<1>2. ASSUME NEW i \in Nat, NEW j \in Nat, i <= j
      PROVE  i * n <= j * n
  <2>1. (j - i) \in Nat /\ n \in Nat
    BY <1>2
  <2>2. (j - i) * n >= 0
    BY <2>1
  <2>3. (j - i) * n = j * n - i * n
    OBVIOUS
  <2>4. i * n \in Int /\ j * n \in Int
    OBVIOUS
  <2> QED
    BY <2>2, <2>3, <2>4
<1>3. k < l => k + 1 <= l /\ k + 1 \in Nat
  OBVIOUS
<1> QED
  BY <1>1, <1>2, <1>3

(***************************************************************************)
(* Division, as what it is between.                                        *)
(***************************************************************************)
LEMMA DivIs ==
    ASSUME NEW a \in Nat, NEW n \in Nat \ {0}
    PROVE  /\ a \div n \in Nat
           /\ (a \div n) * n <= a
           /\ a < (a \div n) * n + n
<1>1. a \div n \in Nat /\ a = n * (a \div n) + (a % n) /\ a % n \in 0..(n - 1)
  OBVIOUS
<1>2. n * (a \div n) = (a \div n) * n
  BY <1>1
<1> QED
  BY <1>1, <1>2

LEMMA DivBounds ==
    ASSUME NEW a \in Nat, NEW n \in Nat \ {0}, NEW k \in Nat
    PROVE  /\ k * n <= a => k <= a \div n
           /\ a < k * n => a \div n < k
<1>1. /\ a \div n \in Nat
      /\ (a \div n) * n <= a
      /\ a < (a \div n) * n + n
  BY DivIs
<1> DEFINE d == a \div n
<1> HIDE DEF d
<1>2. d \in Nat /\ d * n <= a /\ a < d * n + n
  BY <1>1 DEF d
<1>3. ASSUME d < k PROVE d * n + n <= k * n
  BY <1>2, <1>3, TickScale
<1>4. ASSUME k <= d PROVE k * n <= d * n
  BY <1>2, <1>4, TickScale
<1>5. d * n \in Nat /\ k * n \in Nat
  BY <1>2, TickScale
<1>6. (k * n <= a => k <= d) /\ (a < k * n => d < k)
  BY <1>2, <1>3, <1>4, <1>5
<1> QED
  BY <1>6 DEF d

(***************************************************************************)
(* What the conversions between the calendar's nanoseconds and the         *)
(* scheduler's ticks keep: a time is rounded up, the end of the free       *)
(* period down.                                                            *)
(***************************************************************************)
LEMMA RoundUp ==
    ASSUME NEW a \in Nat, NEW n \in Nat \ {0}, NEW k \in Nat
    PROVE  /\ DivRoundUp(a, n) \in Nat
           /\ a <= DivRoundUp(a, n) * n
           /\ a <= k * n => DivRoundUp(a, n) <= k
           /\ k * n <= a => k <= DivRoundUp(a, n)
           /\ a = k * n => DivRoundUp(a, n) = k
<1> DEFINE b == (a + n) - 1
           d == b \div n
<1>1. b \in Nat /\ DivRoundUp(a, n) = d
  BY DEF DivRoundUp
<1>2. k * n \in Nat /\ k + 1 \in Nat /\ (k + 1) * n = k * n + n
  BY TickScale
<1> HIDE DEF b
<1>3. d \in Nat /\ d * n <= b /\ b < d * n + n
  BY <1>1, DivIs
<1>4. d * n \in Nat
  BY <1>3, TickScale
<1>5. (k * n <= b => k <= d) /\ (b < (k + 1) * n => d < k + 1)
  BY <1>1, <1>2, DivBounds
<1> HIDE DEF d
<1>6. a <= d * n
  BY <1>3, <1>4 DEF b
<1>7. a <= k * n => d <= k
  BY <1>2, <1>3, <1>5 DEF b
<1>8. k * n <= a => k <= d
  BY <1>2, <1>3, <1>5 DEF b
<1> QED
  BY <1>1, <1>2, <1>3, <1>6, <1>7, <1>8

LEMMA RoundUpMonotone ==
    ASSUME NEW a \in Nat, NEW b \in Nat, NEW n \in Nat \ {0}, a <= b
    PROVE  DivRoundUp(a, n) <= DivRoundUp(b, n)
<1> DEFINE d == DivRoundUp(b, n)
<1>1. d \in Nat /\ b <= d * n
  BY RoundUp
<1>2. d * n \in Nat
  BY <1>1, TickScale
<1> HIDE DEF d
<1>3. a <= d * n
  BY <1>1, <1>2
<1>4. DivRoundUp(a, n) <= d
  BY <1>1, <1>3, RoundUp
<1> QED
  BY <1>4 DEF d
-----------------------------------------------------------------------------
(* Sends.                                                                  *)

SchedTypes ==
    /\ jobs \subseteq Time /\ current_time \in Nat
    /\ prev_external_sync \in Time /\ prev_external_sync_set \in BOOLEAN
    /\ next_external_sync \in Nat \cup {None}
    /\ waiting \in BOOLEAN
    /\ pc \in {"start", "run", "callback", "ask", "wait", "loop", "handler"}
    /\ aborted \in BOOLEAN /\ host_waits \in BOOLEAN
    /\ cal_time \in Nat /\ cal_free \in Nat /\ cal_request \in Nat \cup {None}

SeqTypes ==
    /\ acked \in BOOLEAN /\ ack_time \in Nat
    /\ seq \in 0..(SeqMod - 1) /\ expected_ack_seq \in 0..(SeqMod - 1)
    /\ old_expected \in 0..(SeqMod - 1)

LEMMA TypeParts ==
    MessageTypes => (TypeOK <=> SchedTypes /\ SeqTypes)
<1> SUFFICES ASSUME MessageTypes
             PROVE  TypeOK <=> SchedTypes /\ SeqTypes
  OBVIOUS
<1>1. \A i \in 1..Len(stack) : stack[i].seq \in 1..(SeqMod - 1)
  <2>1. \A i \in 1..Len(stack) : stack[i] \in Sending
    BY DEF MessageTypes
  <2> QED
    BY <2>1 DEF Sending
<1> QED
  BY <1>1 DEF TypeOK, SchedTypes, SeqTypes

LEMMA Constants ==
    /\ NsPerTick \in Nat \ {0} /\ SeqMod \in Nat /\ SeqMod > 1
    /\ Time \subseteq Nat /\ None \notin Nat
BY WidthAssumption, BoundAssumption DEF Time, None

LEMMA SeqNotZero ==
    ASSUME NEW n \in 0..(SeqMod - 1)
    PROVE  NextSeq(n) \in 1..(SeqMod - 1)
<1>1. (n + 1) % SeqMod \in 0..(SeqMod - 1)
  BY Constants
<1> QED
  BY <1>1, Constants DEF NextSeq

(***************************************************************************)
(* A send begins: its message is on its way.                               *)
(***************************************************************************)
LEMMA SendBegins ==
    ASSUME MessageTypes, SeqTypes, Conversation, stack = <<>>, to_host = <<>>,
           to_host' = to_host, NEW op \in Op, NEW time \in Nat, Send(op, time),
           op = "UPDATE" => time = current_time' * NsPerTick,
           op = "REQUEST" => time = prev_external_sync' * NsPerTick
    PROVE  /\ MessageTypes' /\ SeqTypes' /\ Conversation' /\ Sent'
           /\ stack' # <<>> /\ stack'[1].op = op
<1> DEFINE m == [op |-> op, seq |-> seq', time |-> time]
           f == [op |-> op, seq |-> seq']
<1>1. seq' \in 1..(SeqMod - 1)
  BY SeqNotZero DEF Send, SeqTypes
<1>2. /\ to_cal' = Append(to_cal, m) /\ stack' = Append(<<>>, f)
      /\ expected_ack_seq' = seq' /\ old_expected' = expected_ack_seq
      /\ acked' = acked /\ ack_time' = ack_time
  BY DEF Send
<1>3. m \in Msg /\ f \in Sending
  BY <1>1, Constants DEF Msg, Sending
<1>4. m.op = op /\ m.seq = seq' /\ m.time = time /\ f.op = op /\ f.seq = seq'
  OBVIOUS
<1> HIDE DEF m, f
<1>5. /\ stack' \in Seq(Sending) /\ Len(stack') = 1 /\ stack' # <<>>
      /\ stack'[1] = f
  BY <1>2, <1>3
<1>6. /\ to_cal' \in Seq(Msg) /\ Len(to_cal') = Len(to_cal) + 1
      /\ to_cal' # <<>> /\ to_cal'[Len(to_cal')] = m
      /\ \A k \in 1..Len(to_cal) : to_cal'[k] = to_cal[k]
  BY <1>2, <1>3 DEF MessageTypes
<1>7. /\ ~acked /\ Len(to_cal) \in Nat
      /\ \A k \in 1..Len(to_cal) : to_cal[k].op = "ACK"
  BY DEF Conversation, MessageTypes
<1>8. Sent'
  <2>1. \A k \in 1..(Len(to_cal') - 1) : to_cal'[k].op = "ACK"
    BY <1>6, <1>7
  <2> QED
    BY <1>2, <1>4, <1>5, <1>6, <1>7, <2>1 DEF Sent
<1>9. MessageTypes' /\ SeqTypes'
  BY <1>1, <1>2, <1>5, <1>6, Constants DEF MessageTypes, SeqTypes
<1>10. Conversation'
  <2> HIDE DEF Sent
  <2> QED
    BY <1>2, <1>4, <1>5, <1>8 DEF Conversation
<1> QED
  BY <1>4, <1>5, <1>8, <1>9, <1>10

(***************************************************************************)
(* No message is read or written and no send begins or ends.               *)
(***************************************************************************)
LEMMA NoMessage ==
    ASSUME MessageTypes, SeqTypes, Conversation, stack = <<>>,
           UNCHANGED <<stack, to_cal, to_host, acks, seq>>
    PROVE  /\ MessageTypes' /\ SeqTypes' /\ Conversation'
           /\ stack' = <<>> /\ ~Requesting' /\ ~Getting'
           /\ ~Requesting /\ ~Getting
BY DEF MessageTypes, SeqTypes, Conversation, acks, Requesting, Getting

Parts ==
    /\ MessageTypes /\ SchedTypes /\ SeqTypes /\ Conversation /\ Places
    /\ TurnComing /\ RequestInv /\ AskedInv /\ ClocksInv /\ ~aborted

LEMMA InvParts == IInv <=> Parts
BY TypeParts DEF IInv, Parts, NoAbort

LEMMA StackLen ==
    ASSUME MessageTypes, Conversation
    PROVE  Len(stack) = 1 \/ stack = <<>>
<1>1. stack \in Seq(Sending) /\ Len(stack) <= 1
  BY DEF Conversation, MessageTypes
<1>2. Len(stack) \in Nat /\ (Len(stack) = 0 => stack = <<>>)
  BY <1>1, EmptySeq
<1> QED
  BY <1>1, <1>2

(***************************************************************************)
(* Where no turn is coming nothing is on its way to the daemon.            *)
(***************************************************************************)
LEMMA NothingComing ==
    ASSUME TurnComing, stack = <<>>, pc # "loop" \/ ~waiting \/ host_waits, Places
    PROVE  to_host = <<>>
BY DEF TurnComing, Places
-----------------------------------------------------------------------------
(* Steps of the daemon that send nothing.                                  *)

LEMMA RunJobStep ==
    ASSUME Parts, NEW t \in Time, RunJob(t)
    PROVE  Parts'
<1> USE DEF Parts
<1>1. /\ pc = "run" /\ pc' = "callback" /\ stack = <<>> /\ jobs' \subseteq jobs
      /\ UNCHANGED <<prev_external_sync, prev_external_sync_set,
                     next_external_sync, waiting, acks, seq, stack, aborted,
                     to_cal, to_host, cal_time, cal_request, cal_free, host_waits>>
  BY DEF RunJob, calendar
<1>2. /\ current_time \in Nat /\ current_time' \in Nat
      /\ current_time <= current_time'
      /\ current_time' # current_time =>
            next_external_sync # None /\ current_time' < next_external_sync
  BY <1>1, Constants DEF RunJob, NeedsGrant, SchedWaiting, SchedTypes
<1>3. /\ MessageTypes' /\ SeqTypes' /\ Conversation'
      /\ stack' = <<>> /\ ~Requesting' /\ ~Getting' /\ ~Requesting /\ ~Getting
  BY <1>1, NoMessage
<1>4. SchedTypes'
  BY <1>1, <1>2 DEF SchedTypes
<1>5. Requested' <=> Requested
  BY <1>1, <1>3 DEF Requested
<1>6. to_host = <<>>
  BY <1>1, NothingComing
<1>7. Places' /\ TurnComing'
  BY <1>1, <1>3, <1>6 DEF Places, TurnComing
<1>8. RequestInv'
  BY <1>1, <1>2, <1>3, <1>5, Constants DEF RequestInv, SchedTypes
<1>9. AskedInv'
  BY <1>1, <1>2, <1>3, <1>5, Constants DEF AskedInv, SchedTypes, Running
<1>10. ClocksInv'
  <2>1. current_time * NsPerTick <= current_time' * NsPerTick
    BY <1>2, Constants, TickScale
  <2>2. cal_time <= current_time' * NsPerTick
    <3>1. current_time * NsPerTick \in Nat /\ current_time' * NsPerTick \in Nat
      BY <1>2, Constants, TickScale
    <3> QED
      BY <1>1, <2>1, <3>1 DEF ClocksInv, Running, SchedTypes
  <2>3. \/ current_time' <= DivRoundUp(cal_time, NsPerTick)
        \/ next_external_sync # None /\ current_time' <= next_external_sync
    BY <1>2, Constants DEF ClocksInv, SchedTypes
  <2> QED
    BY <1>1, <2>2, <2>3 DEF ClocksInv
<1> QED
  BY <1>1, <1>3, <1>4, <1>7, <1>8, <1>9, <1>10

LEMMA ReturnStep ==
    ASSUME Parts, CallbackReturns \/ HandlerReturns \/ WaitEnds
    PROVE  Parts'
<1> USE DEF Parts
<1>1. /\ UNCHANGED <<jobs, current_time, prev_external_sync,
                     prev_external_sync_set, next_external_sync, waiting, acks,
                     seq, stack, aborted, to_cal, to_host, cal_time,
                     cal_request, cal_free, host_waits>>
      /\ stack = <<>>
      /\ \/ pc = "callback" /\ pc' = "run"
         \/ pc = "handler" /\ pc' = "loop"
         \/ pc = "loop" /\ ~waiting /\ pc' = "run"
  BY DEF CallbackReturns, HandlerReturns, WaitEnds, calendar, sched, Places
<1>2. /\ MessageTypes' /\ SeqTypes' /\ Conversation'
      /\ stack' = <<>> /\ ~Requesting' /\ ~Getting' /\ ~Requesting /\ ~Getting
  BY <1>1, NoMessage
<1>3. SchedTypes'
  BY <1>1 DEF SchedTypes
<1>4. Requested' <=> Requested
  BY <1>1, <1>2 DEF Requested
<1>5. to_host = <<>>
  BY <1>1, NothingComing
<1>6. Places' /\ TurnComing'
  BY <1>1, <1>2, <1>5 DEF Places, TurnComing
<1>7. RequestInv'
  BY <1>1, <1>2, <1>4 DEF RequestInv
<1>8. AskedInv'
  BY <1>1, <1>4, <1>6 DEF AskedInv, Running, Places
<1>9. ClocksInv'
  BY <1>1, <1>2, <1>6 DEF ClocksInv, Running, Places
<1> QED
  BY <1>1, <1>2, <1>3, <1>6, <1>7, <1>8, <1>9
-----------------------------------------------------------------------------
(* Steps of the daemon that send.                                          *)

(***************************************************************************)
(* A request that is not sent stands already, or is not needed.            *)
(***************************************************************************)
LEMMA RequestEffect ==
    ASSUME Parts, stack = <<>>, to_host = <<>>, to_host' = to_host,
           NEW t \in Time, Request(t), pc \in {"run", "handler"},
           t >= current_time,
           UNCHANGED <<current_time, next_external_sync, waiting, cal_time,
                       cal_request, cal_free, host_waits>>
    PROVE  /\ MessageTypes' /\ SeqTypes' /\ Conversation' /\ RequestInv'
           /\ prev_external_sync' \in Time /\ prev_external_sync_set' \in BOOLEAN
           /\ ~Getting'
           /\ stack' # <<>> => stack'[1].op = "REQUEST"
           /\ Requested => Requested'
           /\ \/ /\ Requested' /\ prev_external_sync' = t
              \/ /\ UNCHANGED <<prev_external_sync, prev_external_sync_set>>
                 /\ ~NeedsGrant(t) \/ (prev_external_sync_set /\ prev_external_sync = t)
<1> USE DEF Parts
<1>0. ~Requesting /\ ~Getting
  BY DEF Requesting, Getting
<1>1. CASE NeedsGrant(t) /\ ~(prev_external_sync_set /\ prev_external_sync = t)
  <2>1. /\ prev_external_sync' = t /\ prev_external_sync_set' = TRUE
        /\ Send("REQUEST", t * NsPerTick)
    BY <1>1 DEF Request
  <2>2. t * NsPerTick \in Nat /\ t \in Nat
    BY TickScale, Constants
  <2>3. /\ MessageTypes' /\ SeqTypes' /\ Conversation' /\ Sent'
        /\ stack' # <<>> /\ stack'[1].op = "REQUEST"
    BY <2>1, <2>2, SendBegins DEF Op
  <2>4. Requesting' /\ Requested' /\ ~Getting'
    BY <2>3 DEF Requesting, Requested, Getting
  <2>5. cal_time <= t * NsPerTick
    <3>1. cal_time <= current_time * NsPerTick
      BY <1>0 DEF ClocksInv, Running
    <3>2. /\ current_time * NsPerTick <= t * NsPerTick
          /\ current_time * NsPerTick \in Nat
      BY <2>2, TickScale, Constants DEF SchedTypes
    <3> QED
      BY <2>2, <3>1, <3>2 DEF SchedTypes
  <2>6. next_external_sync = None \/ t >= next_external_sync
    <3>1. CASE pc = "run"
      BY <1>1, <3>1 DEF NeedsGrant, SchedWaiting
    <3>2. CASE pc = "handler"
      BY <1>0, <2>2, <3>2, Constants DEF ClocksInv, SchedTypes
    <3> QED
      BY <3>1, <3>2
  <2>7. RequestInv'
    BY <2>1, <2>4, <2>5, <2>6 DEF RequestInv
  <2> QED
    BY <2>1, <2>3, <2>4, <2>7
<1>2. CASE ~(NeedsGrant(t) /\ ~(prev_external_sync_set /\ prev_external_sync = t))
  <2>1. UNCHANGED <<prev_external_sync, prev_external_sync_set, seq, to_cal,
                    acks, stack>>
    BY <1>2 DEF Request
  <2>2. /\ MessageTypes' /\ SeqTypes' /\ Conversation'
        /\ stack' = <<>> /\ ~Requesting' /\ ~Getting'
    BY <2>1, NoMessage
  <2>3. Requested' <=> Requested
    BY <1>0, <2>2 DEF Requested
  <2>4. RequestInv'
    BY <1>0, <2>1, <2>2, <2>3 DEF RequestInv
  <2> QED
    BY <1>2, <2>1, <2>2, <2>3, <2>4 DEF SchedTypes
<1> QED
  BY <1>1, <1>2

LEMMA AddJobStep ==
    ASSUME Parts, NEW t \in Time, AddJob(t)
    PROVE  Parts'
<1> USE DEF Parts
<1>1. /\ pc \in {"run", "handler"} /\ stack = <<>> /\ t >= current_time
      /\ jobs' = jobs \cup {t} /\ Request(t)
      /\ UNCHANGED <<current_time, next_external_sync, waiting, pc, aborted,
                     to_host, cal_time, cal_request, cal_free, host_waits>>
  BY DEF AddJob, calendar
<1>2. to_host = <<>>
  BY <1>1, NothingComing DEF Places
<1>3. /\ MessageTypes' /\ SeqTypes' /\ Conversation' /\ RequestInv'
      /\ prev_external_sync' \in Time /\ prev_external_sync_set' \in BOOLEAN
      /\ ~Getting'
      /\ stack' # <<>> => stack'[1].op = "REQUEST"
      /\ Requested => Requested'
      /\ \/ /\ Requested' /\ prev_external_sync' = t
         \/ /\ UNCHANGED <<prev_external_sync, prev_external_sync_set>>
            /\ ~NeedsGrant(t) \/ (prev_external_sync_set /\ prev_external_sync = t)
  BY <1>1, <1>2, RequestEffect
<1>4. SchedTypes'
  BY <1>1, <1>3 DEF SchedTypes
<1>5. Places' /\ TurnComing'
  BY <1>1, <1>2, <1>3 DEF Places, TurnComing
<1>6. pc = "handler" => Requested'
  <2>1. pc = "handler" => NeedsGrant(t) /\ host_waits
    BY DEF NeedsGrant, SchedWaiting, Places
  <2> QED
    BY <1>3, <2>1 DEF AskedInv
<1>7. AskedInv'
  BY <1>1, <1>3, <1>5, <1>6 DEF AskedInv, Places, Running
<1>8. ~Getting
  BY <1>1 DEF Getting
<1>9. ClocksInv'
  BY <1>1, <1>3, <1>8 DEF ClocksInv, Running
<1> QED
  BY <1>1, <1>3, <1>4, <1>5, <1>7, <1>9

LEMMA AskForwardStep ==
    ASSUME Parts, NEW t \in Time, AskForward(t)
    PROVE  Parts'
<1> USE DEF Parts
<1>1. /\ pc = "run" /\ pc' = "ask" /\ stack = <<>> /\ t > current_time
      /\ Request(t) /\ NeedsGrant(t)
      /\ UNCHANGED <<jobs, current_time, next_external_sync, waiting, aborted,
                     to_host, cal_time, cal_request, cal_free, host_waits>>
  BY DEF AskForward, calendar
<1>2. to_host = <<>> /\ t >= current_time /\ current_time \in Nat
  BY <1>1, NothingComing, Constants DEF Places, SchedTypes
<1>3. /\ MessageTypes' /\ SeqTypes' /\ Conversation' /\ RequestInv'
      /\ prev_external_sync' \in Time /\ prev_external_sync_set' \in BOOLEAN
      /\ ~Getting'
      /\ stack' # <<>> => stack'[1].op = "REQUEST"
      /\ Requested => Requested'
      /\ \/ /\ Requested' /\ prev_external_sync' = t
         \/ /\ UNCHANGED <<prev_external_sync, prev_external_sync_set>>
            /\ ~NeedsGrant(t) \/ (prev_external_sync_set /\ prev_external_sync = t)
  BY <1>1, <1>2, RequestEffect
<1>4. SchedTypes'
  BY <1>1, <1>3 DEF SchedTypes
<1>5. Places' /\ TurnComing'
  BY <1>1, <1>2, <1>3 DEF Places, TurnComing
<1>6. Requested'
  BY <1>1, <1>3 DEF AskedInv, Running
<1>7. AskedInv'
  BY <1>6 DEF AskedInv
<1>8. ClocksInv'
  BY <1>1, <1>3 DEF ClocksInv, Running
<1> QED
  BY <1>1, <1>3, <1>4, <1>5, <1>7, <1>8

LEMMA StartStep ==
    ASSUME Parts, Start
    PROVE  Parts'
<1> USE DEF Parts
<1>1. /\ pc = "start" /\ pc' = "run" /\ stack = <<>> /\ Send("START", 0)
      /\ aborted' = (jobs # {})
      /\ UNCHANGED <<jobs, current_time, prev_external_sync,
                     prev_external_sync_set, next_external_sync, waiting,
                     to_host, cal_time, cal_request, cal_free, host_waits>>
  BY DEF Start, sched, calendar, Places
<1>2. to_host = <<>> /\ ~aborted'
  BY <1>1, NothingComing DEF Places
<1>3. /\ MessageTypes' /\ SeqTypes' /\ Conversation' /\ Sent'
      /\ stack' # <<>> /\ stack'[1].op = "START"
  BY <1>1, <1>2, SendBegins DEF Op
<1>4. ~Getting' /\ ~Requesting' /\ ~Requesting
  BY <1>1, <1>3 DEF Getting, Requesting
<1>5. Requested' <=> Requested
  BY <1>1, <1>4 DEF Requested
<1>6. SchedTypes'
  BY <1>1, <1>2 DEF SchedTypes
<1>7. Places' /\ TurnComing'
  BY <1>1, <1>2, <1>3 DEF Places, TurnComing
<1>8. RequestInv' /\ AskedInv'
  BY <1>1, <1>4, <1>5, <1>7 DEF RequestInv, AskedInv, Running, Places
<1>9. ClocksInv'
  BY <1>1 DEF ClocksInv, Running
<1> QED
  BY <1>2, <1>3, <1>6, <1>7, <1>8, <1>9

LEMMA WaitStep ==
    ASSUME Parts, Wait
    PROVE  Parts'
<1> USE DEF Parts
<1>1. /\ stack = <<>>
      /\ pc = "ask" \/ (pc = "run" /\ jobs = {})
      /\ prev_external_sync_set' = FALSE /\ waiting' = TRUE /\ pc' = "wait"
      /\ Send("WAIT", 0)
      /\ UNCHANGED <<jobs, current_time, prev_external_sync,
                     next_external_sync, aborted, to_host, cal_time,
                     cal_request, cal_free, host_waits>>
  BY DEF Wait, calendar
<1>2. to_host = <<>>
  BY <1>1, NothingComing DEF Places
<1>3. /\ MessageTypes' /\ SeqTypes' /\ Conversation' /\ Sent'
      /\ stack' # <<>> /\ stack'[1].op = "WAIT"
  BY <1>1, <1>2, SendBegins DEF Op
<1>4. ~Getting' /\ ~Requesting' /\ ~Requesting
  BY <1>1, <1>3 DEF Getting, Requesting
<1>5. Requested' <=> Requested
  BY <1>1, <1>4 DEF Requested
<1>6. SchedTypes'
  BY <1>1 DEF SchedTypes
<1>7. Places' /\ TurnComing'
  BY <1>1, <1>2, <1>3 DEF Places, TurnComing
<1>8. RequestInv' /\ AskedInv'
  BY <1>1, <1>4, <1>5, <1>7 DEF RequestInv, AskedInv, Running, Places
<1>9. ClocksInv'
  BY <1>1 DEF ClocksInv, Running
<1> QED
  BY <1>1, <1>3, <1>6, <1>7, <1>8, <1>9

LEMMA SyncToStep ==
    ASSUME Parts, SyncTo
    PROVE  Parts'
<1> USE DEF Parts
<1>1. /\ stack = <<>> /\ pc = "callback" /\ pc' = "run"
      /\ Send("UPDATE", current_time * NsPerTick)
      /\ UNCHANGED <<jobs, current_time, prev_external_sync,
                     prev_external_sync_set, next_external_sync, waiting,
                     aborted, to_host, cal_time, cal_request, cal_free, host_waits>>
  BY DEF SyncTo, sched, calendar
<1>2. to_host = <<>>
  BY <1>1, NothingComing DEF Places
<1>3. /\ MessageTypes' /\ SeqTypes' /\ Conversation' /\ Sent'
      /\ stack' # <<>> /\ stack'[1].op = "UPDATE"
  <2>1. current_time * NsPerTick \in Nat
    BY TickScale, Constants DEF SchedTypes
  <2> QED
    BY <1>1, <1>2, <2>1, SendBegins DEF Op
<1>4. ~Getting' /\ ~Requesting' /\ ~Requesting
  BY <1>1, <1>3 DEF Getting, Requesting
<1>5. Requested' <=> Requested
  BY <1>1, <1>4 DEF Requested
<1>6. SchedTypes'
  BY <1>1 DEF SchedTypes
<1>7. Places' /\ TurnComing'
  BY <1>1, <1>2, <1>3 DEF Places, TurnComing
<1>8. RequestInv' /\ AskedInv'
  BY <1>1, <1>4, <1>5, <1>7 DEF RequestInv, AskedInv, Running, Places
<1>9. ClocksInv'
  BY <1>1 DEF ClocksInv, Running
<1> QED
  BY <1>1, <1>3, <1>6, <1>7, <1>8, <1>9

(***************************************************************************)
(* Participants speak only in the loop of the wait: nothing is nested.     *)
(***************************************************************************)
LEMMA ClientMessageStep ==
    ASSUME ~Outsiders, Parts, ClientMessage
    PROVE  Parts'
<1> USE DEF Parts
<1>1. /\ InLoop /\ OthersTurn /\ pc \in {"wait", "loop"} /\ Send("GET", 0)
      /\ pc' = IF pc = "loop" /\ stack = <<>> THEN "handler" ELSE pc
      /\ UNCHANGED <<jobs, current_time, prev_external_sync,
                     prev_external_sync_set, next_external_sync, waiting,
                     aborted, to_host, cal_time, cal_request, cal_free, host_waits>>
  BY DEF ClientMessage, sched, calendar
<1>2. pc = "loop" /\ stack = <<>> /\ pc' = "handler" /\ waiting
  <2>1. pc # "wait"
    <3>1. Len(stack) = 1 \/ stack = <<>>
      BY StackLen
    <3> QED
      BY <1>1, <3>1 DEF InLoop, Places, Top
  <2> QED
    BY <1>1, <2>1 DEF Places, InLoop
<1>3. host_waits /\ cal_time >= cal_free
  BY <1>1 DEF OthersTurn
<1>4. to_host = <<>>
  BY <1>2, <1>3 DEF Places
<1>5. /\ MessageTypes' /\ SeqTypes' /\ Conversation' /\ Sent'
      /\ stack' # <<>> /\ stack'[1].op = "GET"
  BY <1>1, <1>2, <1>4, SendBegins DEF Op
<1>6. Getting' /\ ~Requesting' /\ ~Requesting
  BY <1>2, <1>5 DEF Getting, Requesting
<1>7. Requested' <=> Requested
  BY <1>1, <1>6 DEF Requested
<1>8. SchedTypes'
  BY <1>1, <1>2 DEF SchedTypes
<1>9. Places' /\ TurnComing'
  BY <1>1, <1>2, <1>3, <1>5 DEF Places, TurnComing
<1>10. RequestInv' /\ AskedInv'
  BY <1>1, <1>2, <1>3, <1>6, <1>7 DEF RequestInv, AskedInv, Running
<1>11. ClocksInv'
  BY <1>1, <1>2, <1>3, <1>6 DEF ClocksInv, Running
<1> QED
  BY <1>1, <1>5, <1>8, <1>9, <1>10, <1>11
-----------------------------------------------------------------------------
(* Steps that read.                                                        *)

LEMMA OneIsSome ==
    ASSUME NEW s, Len(s) = 1
    PROVE  s # <<>>
<1>1. Len(<<>>) = 0
  OBVIOUS
<1> SUFFICES ASSUME s = <<>>
             PROVE  FALSE
  OBVIOUS
<1>2. Len(<<>>) = 1
  OBVIOUS
<1> QED
  BY <1>1, <1>2

LEMMA TailIs ==
    ASSUME NEW S, NEW s \in Seq(S), s # <<>>
    PROVE  /\ Len(s) \in Nat /\ Len(s) >= 1 /\ s[1] \in S /\ Head(s) = s[1]
           /\ Tail(s) \in Seq(S) /\ Len(Tail(s)) = Len(s) - 1
           /\ \A k \in 1..(Len(s) - 1) : Tail(s)[k] = s[k + 1]
           /\ Len(s) = 1 => Tail(s) = <<>>
           /\ Len(s) = 2 => Tail(s) # <<>> /\ Tail(s)[1] = s[2]
<1>1. /\ Len(s) \in Nat /\ Len(s) >= 1 /\ s[1] \in S /\ Head(s) = s[1]
      /\ Tail(s) \in Seq(S) /\ Len(Tail(s)) = Len(s) - 1
  <2>1. Len(s) \in Nat /\ Len(s) # 0
    BY EmptySeq
  <2> QED
    BY <2>1, HeadTailProperties
<1>2. \A k \in 1..(Len(s) - 1) : Tail(s)[k] = s[k + 1]
  BY <1>1, HeadTailProperties
<1>3. Len(s) = 1 => Tail(s) = <<>>
  <2>1. Len(Tail(s)) = 0 => Tail(s) = <<>>
    BY <1>1, EmptySeq
  <2> QED
    BY <1>1, <2>1
<1>4. Len(s) = 2 => Tail(s) # <<>> /\ Tail(s)[1] = s[2]
  <2>1. Tail(s) = <<>> => Len(Tail(s)) = 0
    BY EmptySeq
  <2> SUFFICES ASSUME Len(s) = 2
               PROVE  Tail(s) # <<>> /\ Tail(s)[1] = s[2]
    OBVIOUS
  <2>2. 1 \in 1..(Len(s) - 1) /\ 1 + 1 = 2
    OBVIOUS
  <2>3. Tail(s)[1] = s[1 + 1]
    BY <1>2, <2>2
  <2> QED
    BY <1>1, <2>1, <2>2, <2>3
<1> QED
  BY <1>1, <1>2, <1>3, <1>4

(***************************************************************************)
(* The answer to the send in progress is read, by the event loop or        *)
(* directly after WAIT.                                                    *)
(***************************************************************************)
LEMMA AnswerStep ==
    ASSUME Parts, stack # <<>>, Answered, to_host' = Tail(to_host),
           acked' = TRUE, ack_time' = to_host[1].time, aborted' = FALSE,
           UNCHANGED <<sched, waiting, expected_ack_seq, old_expected, seq, pc,
                       stack, to_cal, calendar>>
    PROVE  Parts'
<1> USE DEF Parts
<1>1. /\ UNCHANGED <<jobs, current_time, prev_external_sync,
                     prev_external_sync_set, next_external_sync, waiting, pc,
                     stack, to_cal, expected_ack_seq, old_expected, seq,
                     cal_time, cal_request, cal_free, host_waits>>
  BY DEF sched, calendar
<1>2. /\ to_host \in Seq(Msg) /\ Len(to_host) = 1 /\ to_host[1] \in Msg
      /\ to_host # <<>>
  <2>1. to_host \in Seq(Msg) /\ Len(to_host) = 1
    BY DEF MessageTypes, Answered
  <2>2. to_host # <<>>
    BY <2>1, OneIsSome
  <2> QED
    BY <2>1, <2>2, TailIs
<1>3. to_host' = <<>> /\ to_host' \in Seq(Msg) /\ ack_time' \in Nat
  <2>1. Tail(to_host) \in Seq(Msg) /\ Tail(to_host) = <<>>
    BY <1>2, TailIs
  <2> QED
    BY <1>2, <2>1 DEF Msg
<1>4. AnswerRead' /\ ~Sent' /\ ~Sent
  BY <1>1, <1>2, <1>3 DEF Answered, AnswerRead, Sent
<1>5. MessageTypes' /\ SeqTypes' /\ SchedTypes'
  BY <1>1, <1>3 DEF MessageTypes, SeqTypes, SchedTypes
<1>6. Conversation'
  BY <1>1, <1>4 DEF Conversation
<1>7. /\ ~Requesting /\ ~Requesting' /\ (Requested' <=> Requested)
      /\ (Getting' <=> Getting)
  BY <1>1, <1>4 DEF Requesting, Requested, Getting
<1>8. Places' /\ TurnComing'
  <2>1. pc # "loop"
    BY DEF Places
  <2> QED
    BY <1>1, <1>4, <2>1 DEF Places, TurnComing
<1>9. RequestInv' /\ AskedInv' /\ ClocksInv'
  BY <1>1, <1>7 DEF RequestInv, AskedInv, ClocksInv, Running
<1> QED
  BY <1>5, <1>6, <1>8, <1>9

LEMMA ReadWaitAckStep ==
    ASSUME Parts, ReadWaitAck
    PROVE  Parts'
<1>1. MessageTypes /\ Conversation
  BY DEF Parts
<1>2. stack # <<>> /\ ~acked /\ to_host # <<>>
  BY DEF ReadWaitAck
<1>3. Answered /\ expected_ack_seq = stack[1].seq
  BY <1>1, <1>2 DEF Conversation, Sent, AnswerRead
<1>4. Head(to_host) = to_host[1] /\ to_host[1].op = "ACK"
      /\ to_host[1].seq = stack[1].seq
  BY <1>3 DEF Answered
<1>5. /\ to_host' = Tail(to_host) /\ acked' = TRUE /\ ack_time' = to_host[1].time
      /\ aborted' = FALSE
      /\ UNCHANGED <<sched, waiting, expected_ack_seq, old_expected, seq, pc,
                     stack, to_cal, calendar>>
  BY <1>3, <1>4 DEF ReadWaitAck
<1> QED
  BY <1>2, <1>3, <1>5, AnswerStep

(***************************************************************************)
(* The turn comes: the time is the one that was asked for.                 *)
(***************************************************************************)
LEMMA ReadRunStep ==
    ASSUME Parts, SockRead, stack = <<>>, Head(to_host).op = "RUN"
    PROVE  Parts'
<1> USE DEF Parts
<1> DEFINE msg == Head(to_host)
<1>1. /\ to_host # <<>> /\ msg = to_host[1] /\ to_host' = Tail(to_host)
      /\ ReadRun(msg)
      /\ UNCHANGED <<expected_ack_seq, old_expected, seq, pc, stack, cal_time,
                     cal_request, cal_free, host_waits>>
  BY DEF SockRead, ReadAck, ReadFreeUntil, calendar
<1>2. /\ current_time' = DivRoundUp(msg.time, NsPerTick)
      /\ aborted' = ~TimeAllowed(current_time') /\ waiting' = FALSE
      /\ to_cal' = Acknowledge(msg)
      /\ UNCHANGED <<jobs, prev_external_sync, prev_external_sync_set,
                     next_external_sync, acked, ack_time>>
  BY <1>1 DEF ReadRun
<1>3. /\ pc = "loop" /\ waiting /\ cal_request = None
      /\ cal_time = prev_external_sync * NsPerTick
      /\ prev_external_sync >= current_time
      /\ Len(to_host) = 1 /\ msg.time = cal_time
  <2>1. to_host[1].op # "FREE_UNTIL"
    BY <1>1
  <2> QED
    BY <1>1, <2>1 DEF TurnComing
<1>4. /\ to_host \in Seq(Msg) /\ to_cal \in Seq(Msg) /\ msg \in Msg
  BY <1>1 DEF MessageTypes
<1>5. to_host' = <<>> /\ to_host' \in Seq(Msg)
  BY <1>1, <1>3, <1>4, TailIs
<1>6. prev_external_sync \in Nat /\ NsPerTick \in Nat \ {0} /\ cal_time \in Nat
      /\ current_time \in Nat
  BY Constants DEF SchedTypes
<1>7. current_time' = prev_external_sync
  BY <1>2, <1>3, <1>6, RoundUp
<1>8. ~aborted'
  <2>1. TimeAllowed(current_time')
    BY <1>3, <1>6, <1>7 DEF TimeAllowed
  <2> QED
    BY <1>2, <2>1
<1> DEFINE a == [op |-> "ACK", seq |-> msg.seq, time |-> 0]
<1>9. a \in Msg /\ a.op = "ACK" /\ to_cal' = Append(to_cal, a)
  BY <1>2, <1>4 DEF Msg, Acknowledge
<1> HIDE DEF a, msg
<1>10. /\ to_cal' \in Seq(Msg)
       /\ \A k \in 1..Len(to_cal') : to_cal'[k].op = "ACK"
  <2>1. \A k \in 1..Len(to_cal) : to_cal[k].op = "ACK"
    BY DEF Conversation
  <2>2. /\ to_cal' \in Seq(Msg) /\ Len(to_cal') = Len(to_cal) + 1
        /\ Len(to_cal) \in Nat
        /\ \A k \in 1..Len(to_cal) : to_cal'[k] = to_cal[k]
        /\ to_cal'[Len(to_cal) + 1] = a
    BY <1>4, <1>9
  <2> QED
    BY <1>9, <2>1, <2>2
<1>11. MessageTypes' /\ SeqTypes' /\ SchedTypes'
  BY <1>1, <1>2, <1>5, <1>6, <1>7, <1>8, <1>10
     DEF MessageTypes, SeqTypes, SchedTypes
<1>12. Conversation' /\ stack' = <<>>
  BY <1>1, <1>2, <1>10 DEF Conversation
<1>13. ~host_waits /\ ~Requesting' /\ ~Getting' /\ ~Requested'
  BY <1>1, <1>3, <1>12 DEF Places, Requesting, Getting, Requested
<1>14. Places' /\ TurnComing'
  BY <1>1, <1>2, <1>3, <1>5, <1>12, <1>13 DEF Places, TurnComing
<1>15. RequestInv' /\ AskedInv'
  BY <1>1, <1>2, <1>3, <1>6, <1>7, <1>13 DEF RequestInv, AskedInv, Running
<1>16. ClocksInv'
  <2>1. cal_time <= current_time' * NsPerTick
    BY <1>3, <1>6, <1>7
  <2>2. current_time' <= DivRoundUp(cal_time, NsPerTick)
    BY <1>3, <1>6, <1>7, RoundUp
  <2> QED
    BY <1>1, <1>2, <1>3, <2>1, <2>2 DEF ClocksInv
<1> QED
  BY <1>8, <1>11, <1>12, <1>14, <1>15, <1>16

(***************************************************************************)
(* With the time until which the daemon is alone before it.                *)
(***************************************************************************)
LEMMA ReadFreeUntilStep ==
    ASSUME Parts, SockRead, stack = <<>>, Head(to_host).op = "FREE_UNTIL"
    PROVE  Parts'
<1> USE DEF Parts
<1> DEFINE msg == Head(to_host)
<1>1. /\ to_host # <<>> /\ msg = to_host[1] /\ to_host' = Tail(to_host)
      /\ ReadFreeUntil(msg)
      /\ UNCHANGED <<expected_ack_seq, old_expected, seq, pc, stack, cal_time,
                     cal_request, cal_free, host_waits>>
  BY DEF SockRead, ReadAck, ReadRun, calendar
<1>2. /\ next_external_sync' = msg.time \div NsPerTick
      /\ aborted' = (next_external_sync' < current_time)
      /\ to_cal' = Acknowledge(msg)
      /\ UNCHANGED <<jobs, current_time, prev_external_sync,
                     prev_external_sync_set, waiting, acked, ack_time>>
  BY <1>1 DEF ReadFreeUntil
<1>3. /\ pc = "loop" /\ waiting /\ cal_request = None
      /\ cal_time = prev_external_sync * NsPerTick
      /\ prev_external_sync >= current_time
      /\ Len(to_host) = 2 /\ msg.time = cal_free /\ cal_free >= cal_time
      /\ to_host[2].op = "RUN" /\ to_host[2].time = cal_time
  <2>1. to_host[1].op # "RUN"
    BY <1>1
  <2> QED
    BY <1>1, <2>1 DEF TurnComing
<1>4. /\ to_host \in Seq(Msg) /\ to_cal \in Seq(Msg) /\ msg \in Msg
  BY <1>1 DEF MessageTypes
<1>5. /\ to_host' \in Seq(Msg) /\ Len(to_host') = 1 /\ to_host' # <<>>
      /\ to_host'[1] = to_host[2]
  BY <1>1, <1>3, <1>4, TailIs
<1>6. prev_external_sync \in Nat /\ NsPerTick \in Nat \ {0} /\ cal_time \in Nat
      /\ current_time \in Nat /\ cal_free \in Nat
  BY Constants DEF SchedTypes
<1>7. /\ next_external_sync' \in Nat /\ next_external_sync' >= prev_external_sync
      /\ next_external_sync' * NsPerTick <= cal_free
  BY <1>2, <1>3, <1>6, DivIs, DivBounds
<1>8. ~aborted'
  <2>1. ~(next_external_sync' < current_time)
    BY <1>3, <1>6, <1>7
  <2> QED
    BY <1>2, <2>1
<1> DEFINE a == [op |-> "ACK", seq |-> msg.seq, time |-> 0]
<1>9. a \in Msg /\ a.op = "ACK" /\ to_cal' = Append(to_cal, a)
  BY <1>2, <1>4 DEF Msg, Acknowledge
<1> HIDE DEF a, msg
<1>10. /\ to_cal' \in Seq(Msg)
       /\ \A k \in 1..Len(to_cal') : to_cal'[k].op = "ACK"
  <2>1. \A k \in 1..Len(to_cal) : to_cal[k].op = "ACK"
    BY DEF Conversation
  <2>2. /\ to_cal' \in Seq(Msg) /\ Len(to_cal') = Len(to_cal) + 1
        /\ Len(to_cal) \in Nat
        /\ \A k \in 1..Len(to_cal) : to_cal'[k] = to_cal[k]
        /\ to_cal'[Len(to_cal) + 1] = a
    BY <1>4, <1>9
  <2> QED
    BY <1>9, <2>1, <2>2
<1>11. MessageTypes' /\ SeqTypes' /\ SchedTypes'
  BY <1>1, <1>2, <1>5, <1>6, <1>7, <1>8, <1>10
     DEF MessageTypes, SeqTypes, SchedTypes
<1>12. Conversation' /\ stack' = <<>>
  BY <1>1, <1>2, <1>10 DEF Conversation
<1>13. ~host_waits /\ ~Requesting' /\ ~Getting' /\ ~Requested'
  BY <1>1, <1>3, <1>12 DEF Places, Requesting, Getting, Requested
<1>14. Places' /\ TurnComing'
  BY <1>1, <1>2, <1>3, <1>5, <1>12, <1>13 DEF Places, TurnComing
<1>15. RequestInv' /\ AskedInv'
  BY <1>1, <1>2, <1>3, <1>13 DEF RequestInv, AskedInv, Running
<1>16. ClocksInv'
  <2>1. current_time <= DivRoundUp(cal_time, NsPerTick)
    <3>1. prev_external_sync = DivRoundUp(cal_time, NsPerTick)
      BY <1>3, <1>6, RoundUp
    <3> QED
      BY <1>3, <3>1
  <2> QED
    BY <1>1, <1>2, <1>3, <1>7, <2>1 DEF ClocksInv, Running
<1> QED
  BY <1>8, <1>11, <1>12, <1>14, <1>15, <1>16

LEMMA SockReadStep ==
    ASSUME Parts, SockRead
    PROVE  Parts'
<1>1. MessageTypes /\ Conversation /\ TurnComing
  BY DEF Parts
<1>2. to_host # <<>> /\ Head(to_host) = to_host[1]
  BY DEF SockRead
<1>3. CASE stack # <<>>
  <2>1. ~acked
    BY <1>3 DEF SockRead, InLoop
  <2>2. Answered /\ expected_ack_seq = stack[1].seq
    BY <1>1, <1>2, <1>3, <2>1 DEF Conversation, Sent, AnswerRead
  <2>3. to_host[1].op = "ACK" /\ to_host[1].seq = stack[1].seq
    BY <2>2 DEF Answered
  <2>4. ReadAck(to_host[1])
    BY <1>2, <2>3 DEF SockRead, ReadRun, ReadFreeUntil
  <2>5. /\ to_host' = Tail(to_host) /\ acked' = TRUE
        /\ ack_time' = to_host[1].time /\ aborted' = FALSE
        /\ UNCHANGED <<sched, waiting, expected_ack_seq, old_expected, seq, pc,
                       stack, to_cal, calendar>>
    <3>1. ~aborted /\ aborted \in BOOLEAN
      BY DEF Parts, SchedTypes
    <3> QED
      BY <2>2, <2>3, <2>4, <3>1 DEF SockRead, ReadAck
  <2> QED
    BY <1>3, <2>2, <2>5, AnswerStep
<1>4. CASE stack = <<>>
  <2>1. Head(to_host).op \in {"RUN", "FREE_UNTIL"}
    BY <1>1, <1>2, <1>4 DEF TurnComing
  <2> QED
    BY <1>4, <2>1, ReadRunStep, ReadFreeUntilStep
<1> QED
  BY <1>3, <1>4

(***************************************************************************)
(* A send ends; the answer to GET is not before the daemon's time and not  *)
(* after what it asked for.                                                *)
(***************************************************************************)
LEMMA SendEndsStep ==
    ASSUME Parts, SendEnds
    PROVE  Parts'
<1> USE DEF Parts
<1>1. /\ stack # <<>> /\ acked /\ acked' = FALSE /\ expected_ack_seq' = old_expected
      /\ stack' = Pop /\ pc' = IF Top.op = "WAIT" THEN "loop" ELSE pc
      /\ UNCHANGED <<jobs, prev_external_sync, prev_external_sync_set,
                     next_external_sync, ack_time, waiting, old_expected, seq,
                     to_cal, to_host, cal_time, cal_request, cal_free, host_waits>>
  BY DEF SendEnds, calendar
<1>2. Len(stack) = 1 /\ Top = stack[1] /\ stack' = <<>>
  <2>1. Len(stack) = 1
    BY <1>1, StackLen
  <2>2. stack' = SubSeq(stack, 1, 0)
    BY <1>1, <2>1 DEF Pop
  <2>3. SubSeq(stack, 1, 0) = <<>>
    BY DEF MessageTypes
  <2> QED
    BY <2>1, <2>2, <2>3 DEF Top
<1>3. AnswerRead /\ ~Sent
  BY <1>1 DEF Conversation, Sent, Answered, AnswerRead
<1>4. to_cal = <<>> /\ to_host = <<>> /\ (stack[1].op = "GET" => ack_time = cal_time)
  BY <1>3 DEF AnswerRead
<1>5. MessageTypes' /\ SeqTypes'
  <2>1. stack' \in Seq(Sending)
    BY <1>2, EmptySeq
  <2>2. MessageTypes'
    BY <1>1, <2>1 DEF MessageTypes
  <2> QED
    BY <1>1, <2>2 DEF SeqTypes
<1>6. Conversation'
  <2>1. Len(to_cal') = 0 /\ Len(stack') = 0
    BY <1>1, <1>2, <1>4
  <2>2. ~acked'
    BY <1>1
  <2> QED
    BY <1>2, <2>1, <2>2 DEF Conversation
<1>7. /\ ~Requesting /\ ~Requesting' /\ ~Getting' /\ (Requested' <=> Requested)
  BY <1>1, <1>2, <1>3 DEF Requesting, Requested, Getting
<1>8. /\ pc # "loop" /\ pc # "callback" /\ pc # "start"
      /\ pc = "wait" <=> stack[1].op = "WAIT"
      /\ stack[1].op = "GET" => pc = "handler"
  BY <1>1 DEF Places
<1>9. pc' = IF pc = "wait" THEN "loop" ELSE pc
  BY <1>1, <1>2, <1>8
<1>10. Places' /\ TurnComing'
  BY <1>1, <1>2, <1>3, <1>4, <1>8, <1>9 DEF Places, TurnComing
<1>11. CASE stack[1].op # "GET"
  <2>1. current_time' = current_time /\ aborted' = aborted /\ ~Getting
    BY <1>2, <1>11 DEF SendEnds, Getting
  <2>2. SchedTypes'
    BY <1>1, <1>9, <2>1 DEF SchedTypes
  <2>3. waiting \/ pc # "wait"
    BY DEF Places
  <2>4. RequestInv' /\ AskedInv'
    BY <1>1, <1>7, <1>9, <2>1, <2>3 DEF RequestInv, AskedInv, Running
  <2>5. ClocksInv'
    BY <1>1, <1>7, <1>8, <1>9, <2>1, <2>3 DEF ClocksInv, Running
  <2> QED
    BY <1>5, <1>6, <1>10, <2>1, <2>2, <2>4, <2>5
<1>12. CASE stack[1].op = "GET"
  <2> DEFINE tick == DivRoundUp(cal_time, NsPerTick)
  <2>1. /\ pc = "handler" /\ pc' = "handler" /\ ack_time = cal_time
        /\ waiting /\ host_waits /\ cal_time >= cal_free
    BY <1>4, <1>8, <1>9, <1>12 DEF Places, ClocksInv
  <2>2. current_time' = tick /\ aborted' = ~TimeAllowed(tick)
    BY <1>2, <1>12, <2>1 DEF SendEnds
  <2>3. /\ NsPerTick \in Nat \ {0} /\ cal_time \in Nat /\ current_time \in Nat
        /\ cal_free \in Nat /\ prev_external_sync \in Nat
        /\ next_external_sync \in Nat \cup {None} /\ None \notin Nat
    BY Constants DEF SchedTypes
  <2>4. tick \in Nat /\ cal_time <= tick * NsPerTick
    BY <2>3, RoundUp
  <2>5. next_external_sync # None => next_external_sync <= tick
    <3> SUFFICES ASSUME next_external_sync # None
                 PROVE  next_external_sync <= tick
      OBVIOUS
    <3>1. next_external_sync \in Nat /\ next_external_sync * NsPerTick <= cal_free
      BY <2>3 DEF ClocksInv
    <3>2. next_external_sync * NsPerTick \in Nat
      BY <2>3, <3>1, TickScale
    <3>3. next_external_sync * NsPerTick <= cal_time
      BY <2>1, <2>3, <3>1, <3>2
    <3> QED
      BY <2>3, <3>1, <3>3, RoundUp
  <2>6. Requested => tick <= prev_external_sync
    BY <2>3, RoundUp DEF RequestInv
  <2> HIDE DEF tick
  <2>7. current_time <= tick
    <3>1. \/ current_time <= tick
          \/ next_external_sync # None /\ current_time <= next_external_sync
      BY DEF ClocksInv, tick
    <3> QED
      BY <2>3, <2>4, <2>5, <3>1
  <2>8. jobs # {} => Requested
    BY <2>1 DEF AskedInv
  <2>9. TimeAllowed(tick)
    BY <2>3, <2>4, <2>6, <2>7, <2>8 DEF TimeAllowed
  <2>10. ~aborted'
    BY <2>2, <2>9
  <2>11. SchedTypes'
    BY <1>1, <2>1, <2>2, <2>4, <2>10 DEF SchedTypes
  <2>12. RequestInv'
    BY <1>1, <1>7, <2>2, <2>3, <2>4, <2>6 DEF RequestInv
  <2>13. AskedInv'
    BY <1>1, <1>7, <2>1, <2>8 DEF AskedInv, Running
  <2>14. ClocksInv'
    <3>1. DivRoundUp(cal_time', NsPerTick) = tick
      BY <1>1 DEF tick
    <3> QED
      BY <1>1, <2>1, <2>2, <2>3, <2>4, <2>5, <3>1 DEF ClocksInv
  <2> QED
    BY <1>5, <1>6, <1>10, <2>10, <2>11, <2>12, <2>13, <2>14
<1> QED
  BY <1>11, <1>12
-----------------------------------------------------------------------------
(* Steps of the calendar.                                                  *)

LEMMA AdvancesStep ==
    ASSUME Parts, CalendarAdvances
    PROVE  Parts'
<1> USE DEF Parts
<1>1. /\ host_waits /\ pc = "loop" /\ stack = <<>> /\ to_host = <<>>
      /\ UNCHANGED <<jobs, current_time, prev_external_sync,
                     prev_external_sync_set, next_external_sync, waiting, acks,
                     seq, pc, stack, aborted, to_cal, to_host, cal_request,
                     cal_free, host_waits>>
  BY DEF CalendarAdvances, Quiet, sched
<1>2. /\ NsPerTick \in Nat \ {0} /\ MaxTime \in Nat /\ cal_time \in Nat
      /\ MaxTime * NsPerTick \in Nat
  BY Constants, BoundAssumption, TickScale DEF SchedTypes
<1>3. /\ cal_time' \in Nat /\ cal_time <= cal_time'
      /\ cal_request # None => cal_time' <= cal_request
  BY <1>2 DEF CalendarAdvances
<1>4. /\ MessageTypes' /\ SeqTypes' /\ Conversation'
      /\ stack' = <<>> /\ ~Requesting' /\ ~Getting' /\ ~Requesting /\ ~Getting
  BY <1>1, NoMessage
<1>5. SchedTypes' /\ (Requested' <=> Requested) /\ (Requested => cal_request # None)
  BY <1>1, <1>3, <1>4 DEF SchedTypes, Requested
<1>6. waiting
  BY <1>1 DEF Places
<1>7. Places' /\ TurnComing'
  BY <1>1, <1>4 DEF Places, TurnComing
<1>8. RequestInv' /\ AskedInv'
  BY <1>1, <1>3, <1>4, <1>5 DEF RequestInv, AskedInv, Running
<1>9. ClocksInv'
  <2>1. DivRoundUp(cal_time, NsPerTick) <= DivRoundUp(cal_time', NsPerTick)
    BY <1>2, <1>3, RoundUpMonotone
  <2>2. /\ DivRoundUp(cal_time, NsPerTick) \in Nat
        /\ DivRoundUp(cal_time', NsPerTick) \in Nat /\ current_time \in Nat
    BY <1>2, <1>3, RoundUp DEF SchedTypes
  <2>3. \/ current_time <= DivRoundUp(cal_time', NsPerTick)
        \/ next_external_sync # None /\ current_time <= next_external_sync
    BY <2>1, <2>2 DEF ClocksInv
  <2> QED
    BY <1>1, <1>6, <2>3 DEF ClocksInv, Running
<1> QED
  BY <1>1, <1>4, <1>5, <1>7, <1>8, <1>9

LEMMA RunsStep ==
    ASSUME Parts, CalendarRuns
    PROVE  Parts'
<1> USE DEF Parts
<1>1. /\ host_waits /\ pc = "loop" /\ stack = <<>> /\ to_host = <<>>
      /\ cal_request # None /\ cal_request' = None /\ host_waits' = FALSE
      /\ UNCHANGED <<jobs, current_time, prev_external_sync,
                     prev_external_sync_set, next_external_sync, waiting, acks,
                     seq, pc, stack, aborted, to_cal>>
  BY DEF CalendarRuns, Quiet, sched
<1>2. ~Requesting /\ Requested /\ waiting
  BY <1>1 DEF Requesting, Requested, Places
<1>3. /\ cal_request = prev_external_sync * NsPerTick /\ cal_time <= cal_request
      /\ prev_external_sync >= current_time
      /\ next_external_sync = None \/ prev_external_sync >= next_external_sync
  BY <1>1, <1>2 DEF RequestInv
<1>4. /\ NsPerTick \in Nat \ {0} /\ MaxTime * NsPerTick \in Nat
      /\ cal_time \in Nat /\ cal_request \in Nat /\ prev_external_sync \in Nat
      /\ current_time \in Nat /\ next_external_sync \in Nat \cup {None}
      /\ cal_free \in Nat /\ None \notin Nat
  BY <1>1, Constants, BoundAssumption, TickScale DEF SchedTypes
<1> DEFINE run == [op |-> "RUN", seq |-> 0, time |-> cal_request]
<1>5. (IF cal_time > cal_request THEN cal_time ELSE cal_request) = cal_request
  BY <1>3, <1>4
<1>6. /\ cal_time' = cal_request
      /\ \/ to_host' = <<run>> /\ cal_free' = cal_free
         \/ \E u \in cal_request..(MaxTime * NsPerTick) :
               /\ to_host' = <<[op |-> "FREE_UNTIL", seq |-> 0, time |-> u], run>>
               /\ cal_free' = u
  BY <1>5 DEF CalendarRuns
<1>7. run \in Msg /\ run.op = "RUN" /\ run.time = cal_request
  BY <1>4, Constants DEF Msg
<1>8. /\ to_host' \in Seq(Msg) /\ to_host' # <<>> /\ Len(to_host') \in {1, 2}
      /\ to_host'[Len(to_host')].op = "RUN"
      /\ to_host'[Len(to_host')].time = cal_time'
      /\ Len(to_host') = 2 => /\ to_host'[1].op = "FREE_UNTIL"
                              /\ to_host'[1].time = cal_free'
                              /\ cal_free' >= cal_time'
      /\ cal_free' \in Nat
      /\ cal_free' = cal_free \/ cal_free' >= cal_request
  <2>1. CASE to_host' = <<run>> /\ cal_free' = cal_free
    <3> HIDE DEF run
    <3>1. /\ to_host' \in Seq(Msg) /\ Len(to_host') = 1 /\ to_host'[1] = run
          /\ to_host' # <<>>
      BY <1>7, <2>1
    <3> QED
      BY <1>4, <1>6, <1>7, <2>1, <3>1
  <2>2. CASE \E u \in cal_request..(MaxTime * NsPerTick) :
               /\ to_host' = <<[op |-> "FREE_UNTIL", seq |-> 0, time |-> u], run>>
               /\ cal_free' = u
    <3>1. PICK u \in cal_request..(MaxTime * NsPerTick) :
            /\ to_host' = <<[op |-> "FREE_UNTIL", seq |-> 0, time |-> u], run>>
            /\ cal_free' = u
      BY <2>2
    <3> DEFINE free == [op |-> "FREE_UNTIL", seq |-> 0, time |-> u]
    <3>2. /\ free \in Msg /\ free.op = "FREE_UNTIL" /\ free.time = u
          /\ u \in Nat /\ u >= cal_request
      BY <1>4, Constants DEF Msg
    <3>3. to_host' = <<free, run>>
      BY <3>1
    <3> HIDE DEF free, run
    <3>4. /\ to_host' \in Seq(Msg) /\ Len(to_host') = 2 /\ to_host'[2] = run
          /\ to_host'[1] = free /\ to_host' # <<>>
      BY <1>7, <3>2, <3>3
    <3> QED
      BY <1>6, <1>7, <3>1, <3>2, <3>4
  <2> QED
    BY <1>6, <2>1, <2>2
<1>9. MessageTypes' /\ SeqTypes' /\ SchedTypes'
  BY <1>1, <1>4, <1>6, <1>8 DEF MessageTypes, SeqTypes, SchedTypes, acks
<1>10. Conversation' /\ ~Requesting' /\ ~Getting' /\ ~Requested'
  BY <1>1 DEF Conversation, Requesting, Getting, Requested, acks
<1> HIDE DEF run
<1>11. Places' /\ TurnComing'
  BY <1>1, <1>2, <1>3, <1>4, <1>6, <1>8 DEF Places, TurnComing
<1>12. RequestInv' /\ AskedInv'
  BY <1>1, <1>2, <1>10 DEF RequestInv, AskedInv, Running
<1>13. ClocksInv'
  <2>1. current_time <= DivRoundUp(cal_time', NsPerTick)
    <3>1. prev_external_sync = DivRoundUp(cal_request, NsPerTick)
      BY <1>3, <1>4, RoundUp
    <3> QED
      BY <1>3, <1>6, <3>1
  <2>2. next_external_sync # None => next_external_sync * NsPerTick <= cal_free'
    <3> SUFFICES ASSUME next_external_sync # None
                 PROVE  next_external_sync * NsPerTick <= cal_free'
      OBVIOUS
    <3>1. /\ next_external_sync \in Nat /\ prev_external_sync >= next_external_sync
          /\ next_external_sync * NsPerTick <= cal_free
      BY <1>3, <1>4 DEF ClocksInv
    <3>2. /\ next_external_sync * NsPerTick <= prev_external_sync * NsPerTick
          /\ next_external_sync * NsPerTick \in Nat
      BY <1>4, <3>1, TickScale
    <3> QED
      BY <1>3, <1>4, <1>8, <3>1, <3>2
  <2> QED
    BY <1>1, <1>2, <2>1, <2>2 DEF ClocksInv, Running
<1> QED
  BY <1>1, <1>9, <1>10, <1>11, <1>12, <1>13

(***************************************************************************)
(* The calendar reads an acknowledgement: the message behind it is still   *)
(* the last.                                                               *)
(***************************************************************************)
LEMMA ReceivesAck ==
    ASSUME Parts, CalendarReceives, Head(to_cal).op = "ACK"
    PROVE  Parts'
<1> USE DEF Parts
<1>1. /\ to_cal # <<>> /\ to_cal' = Tail(to_cal)
      /\ UNCHANGED <<jobs, current_time, prev_external_sync,
                     prev_external_sync_set, next_external_sync, waiting, acks,
                     seq, pc, stack, aborted, to_host, cal_time, cal_request,
                     cal_free>>
      /\ host_waits' = host_waits
  BY DEF CalendarReceives, sched, SchedTypes
<1>2. /\ Len(to_cal) \in Nat /\ Len(to_cal) >= 1 /\ Head(to_cal) = to_cal[1]
      /\ to_cal' \in Seq(Msg) /\ Len(to_cal') = Len(to_cal) - 1
      /\ \A k \in 1..(Len(to_cal) - 1) : to_cal'[k] = to_cal[k + 1]
  BY <1>1, TailIs DEF MessageTypes
<1>3. MessageTypes' /\ SeqTypes' /\ SchedTypes'
  BY <1>1, <1>2 DEF MessageTypes, SeqTypes, SchedTypes, acks
<1>4. stack # <<>> => (Sent /\ Sent' /\ ~AnswerRead /\ ~Answered)
  <2> SUFFICES ASSUME stack # <<>>
               PROVE  Sent /\ Sent' /\ ~AnswerRead /\ ~Answered
    OBVIOUS
  <2>1. Sent /\ ~AnswerRead /\ ~Answered
    BY <1>1 DEF Conversation, Answered, AnswerRead
  <2>2. stack[1] \in Sending
    BY TailIs DEF MessageTypes
  <2>3. Len(to_cal) # 1
    BY <1>2, <2>1, <2>2 DEF Sent, Sending, Op
  <2>4. /\ Len(to_cal) - 1 \in 1..(Len(to_cal) - 1)
        /\ (Len(to_cal) - 1) + 1 = Len(to_cal)
    BY <1>2, <2>3
  <2>5. to_cal'[Len(to_cal')] = to_cal[Len(to_cal)]
    BY <1>2, <2>4
  <2>6. to_cal' # <<>>
    BY <1>2, <2>3
  <2>7. \A k \in 1..(Len(to_cal') - 1) : to_cal'[k].op = "ACK"
    <3> SUFFICES ASSUME NEW k \in 1..(Len(to_cal') - 1)
                 PROVE  to_cal'[k].op = "ACK"
      OBVIOUS
    <3>1. k \in 1..(Len(to_cal) - 1) /\ k + 1 \in 1..(Len(to_cal) - 1)
      BY <1>2
    <3> QED
      BY <1>2, <2>1, <3>1 DEF Sent
  <2>8. Sent'
    BY <1>1, <2>1, <2>5, <2>6, <2>7 DEF Sent, acks
  <2> QED
    BY <2>1, <2>8
<1>5. stack = <<>> => \A k \in 1..Len(to_cal') : to_cal'[k].op = "ACK"
  <2> SUFFICES ASSUME stack = <<>>, NEW k \in 1..Len(to_cal')
               PROVE  to_cal'[k].op = "ACK"
    OBVIOUS
  <2>1. k \in 1..(Len(to_cal) - 1) /\ k + 1 \in 1..Len(to_cal)
    BY <1>2
  <2> QED
    BY <1>2, <2>1 DEF Conversation
<1>6. Conversation'
  <2> HIDE DEF Sent
  <2> QED
    BY <1>1, <1>4, <1>5 DEF Conversation, acks
<1>7. /\ (Requesting' <=> Requesting) /\ (Requested' <=> Requested)
      /\ (Getting' <=> Getting)
  BY <1>1, <1>4 DEF Requesting, Requested, Getting
<1>8. Places' /\ TurnComing'
  BY <1>1, <1>4 DEF Places, TurnComing
<1>9. RequestInv' /\ AskedInv' /\ ClocksInv'
  BY <1>1, <1>7 DEF RequestInv, AskedInv, ClocksInv, Running
<1> QED
  BY <1>1, <1>3, <1>6, <1>8, <1>9

(***************************************************************************)
(* It reads the message of the send in progress and answers.               *)
(***************************************************************************)
LEMMA ReceivesMessage ==
    ASSUME Parts, CalendarReceives, Head(to_cal).op # "ACK"
    PROVE  Parts'
<1> USE DEF Parts
<1> DEFINE m == to_cal[1]
           t == IF m.op = "GET" THEN cal_time ELSE 0
           a == [op |-> "ACK", seq |-> m.seq, time |-> t]
<1>1. /\ to_cal # <<>> /\ to_cal' = Tail(to_cal) /\ Head(to_cal) = m
      /\ UNCHANGED <<jobs, current_time, prev_external_sync,
                     prev_external_sync_set, next_external_sync, waiting, acks,
                     seq, pc, stack, aborted, cal_free>>
  BY TailIs DEF CalendarReceives, sched, MessageTypes
<1>2. /\ to_host' = Append(to_host, a)
      /\ cal_request' = IF m.op = "REQUEST" THEN m.time ELSE cal_request
      /\ host_waits' = (host_waits \/ m.op = "WAIT")
      /\ cal_time' = IF m.op = "UPDATE" THEN m.time ELSE cal_time
  BY <1>1 DEF CalendarReceives, Reply
<1>3. /\ Len(to_cal) \in Nat /\ Len(to_cal) >= 1 /\ m \in Msg
      /\ Len(to_cal) = 1 => to_cal' = <<>>
  BY <1>1, TailIs DEF MessageTypes
<1>4. stack # <<>> /\ Sent
  <2>1. 1 \in 1..Len(to_cal)
    BY <1>3
  <2>2. stack # <<>>
    BY <1>1, <2>1 DEF Conversation
  <2> QED
    BY <1>1, <2>2 DEF Conversation, Answered, AnswerRead
<1>5. Len(to_cal) = 1 /\ to_cal' = <<>>
  <2>1. ~(1 \in 1..(Len(to_cal) - 1))
    BY <1>1, <1>4 DEF Sent
  <2> DEFINE n == Len(to_cal)
  <2>2. n \in Nat /\ n >= 1 /\ ~(1 \in 1..(n - 1))
    BY <1>3, <2>1
  <2> HIDE DEF n
  <2>3. n = 1
    BY <2>2
  <2> QED
    BY <1>3, <2>3 DEF n
<1>6. /\ ~acked /\ to_host = <<>> /\ m.op = stack[1].op /\ m.seq = stack[1].seq
      /\ m.op = "UPDATE" => m.time = current_time * NsPerTick
      /\ m.op = "REQUEST" => m.time = prev_external_sync * NsPerTick
  BY <1>4, <1>5 DEF Sent
<1>7. /\ m.time \in Nat /\ m.seq \in 0..(SeqMod - 1) /\ cal_time \in Nat
      /\ t \in Nat
  BY <1>3 DEF Msg, SchedTypes
<1>8. /\ a \in Msg /\ a.op = "ACK" /\ a.seq = m.seq /\ a.time = t
  BY <1>7 DEF Msg
<1>9. m.op = "GET" => cal_time' = cal_time /\ t = cal_time'
  BY <1>2
<1> HIDE DEF a, t, m
<1>10. /\ to_host' \in Seq(Msg) /\ Len(to_host') = 1 /\ to_host'[1] = a
       /\ to_host' # <<>>
  BY <1>2, <1>6, <1>8
<1>11. Answered'
  BY <1>1, <1>5, <1>6, <1>8, <1>9, <1>10 DEF Answered, acks
<1>12. ~Sent'
  BY <1>10 DEF Sent
<1>13. MessageTypes' /\ SeqTypes'
  <2>1. to_cal' \in Seq(Msg)
    BY <1>5, EmptySeq
  <2> QED
    BY <1>1, <1>10, <2>1 DEF MessageTypes, SeqTypes, acks
<1>14. Conversation'
  <2>1. stack' # <<>> /\ Len(stack') <= 1 /\ expected_ack_seq' = stack'[1].seq
    BY <1>1, <1>4 DEF Conversation, acks
  <2> QED
    BY <1>11, <2>1 DEF Conversation
<1>15. SchedTypes'
  BY <1>1, <1>2, <1>7 DEF SchedTypes
<1>16. ~Requesting' /\ (Getting' <=> Getting) /\ stack' # <<>>
  BY <1>1, <1>4, <1>12 DEF Requesting, Getting
<1>17. Requesting <=> m.op = "REQUEST"
  BY <1>4, <1>6 DEF Requesting
<1>18. Requested' <=> Requested
  BY <1>2, <1>7, <1>16, <1>17, Constants DEF Requested
<1>19. Places' /\ TurnComing'
  <2>1. pc # "loop" /\ pc # "start" /\ pc # "callback"
    BY <1>4 DEF Places
  <2>2. m.op = "WAIT" <=> pc = "wait"
    BY <1>4, <1>6 DEF Places
  <2> QED
    BY <1>1, <1>2, <1>4, <1>12, <1>16, <2>1, <2>2 DEF Places, TurnComing
<1>20. /\ current_time \in Nat /\ prev_external_sync \in Nat
       /\ NsPerTick \in Nat \ {0}
       /\ current_time * NsPerTick \in Nat
  BY Constants, TickScale DEF SchedTypes
<1>21. RequestInv'
  <2>1. m.op = "UPDATE" /\ Requested =>
          current_time * NsPerTick <= prev_external_sync * NsPerTick
    BY <1>20, TickScale DEF RequestInv
  <2>2. Requested => cal_time' <= prev_external_sync * NsPerTick
    BY <1>2, <1>6, <2>1 DEF RequestInv
  <2>3. cal_request' # None => cal_request' = prev_external_sync * NsPerTick
    BY <1>2, <1>6, <1>17 DEF RequestInv
  <2> QED
    BY <1>1, <1>16, <1>18, <2>2, <2>3 DEF RequestInv
<1>22. m.op = "WAIT" => pc = "wait" /\ ~prev_external_sync_set
  BY <1>4, <1>6 DEF Places
<1>23. AskedInv'
  <2>1. pc # "loop"
    BY <1>4 DEF Places
  <2> QED
    BY <1>1, <1>2, <1>18, <1>22, <2>1 DEF AskedInv, Running
<1>24. ClocksInv'
  <2>1. CASE m.op = "UPDATE"
    <3>1. pc = "run" /\ cal_time' = current_time * NsPerTick
      BY <1>2, <1>4, <1>6, <2>1 DEF Places
    <3>2. current_time = DivRoundUp(cal_time', NsPerTick)
      BY <1>20, <3>1, RoundUp
    <3>3. cal_time' <= current_time' * NsPerTick
      BY <1>1, <1>20, <3>1
    <3>4. current_time' <= DivRoundUp(cal_time', NsPerTick)
      BY <1>1, <1>20, <3>2
    <3> QED
      BY <1>1, <3>1, <3>3, <3>4 DEF ClocksInv
  <2>2. CASE m.op # "UPDATE"
    BY <1>1, <1>2, <1>16, <2>2 DEF ClocksInv, Running
  <2> QED
    BY <2>1, <2>2
<1> QED
  BY <1>1, <1>13, <1>14, <1>15, <1>19, <1>21, <1>23, <1>24
-----------------------------------------------------------------------------
(* The invariant.                                                          *)

LEMMA InitParts == EarlyJobs = {} /\ Init => Parts
<1> SUFFICES ASSUME EarlyJobs = {}, Init
             PROVE  Parts
  OBVIOUS
<1>1. /\ MessageTypes /\ stack = <<>> /\ Len(stack) = 0 /\ Len(to_cal) = 0
      /\ to_host = <<>>
  BY EmptySeq DEF Init, MessageTypes
<1>2. SchedTypes /\ SeqTypes
  <2>1. 0 \in Time /\ 0 \in 0..(SeqMod - 1)
    BY Constants, BoundAssumption DEF Time
  <2>2. SchedTypes
    BY <2>1 DEF Init, SchedTypes
  <2> QED
    BY <2>1, <2>2 DEF Init, SeqTypes
<1>3. Conversation /\ ~Requesting /\ ~Getting /\ ~Requested
  BY <1>1 DEF Init, Conversation, Requesting, Getting, Requested
<1>4. Places /\ TurnComing
  BY <1>1 DEF Init, Places, TurnComing
<1>5. RequestInv /\ AskedInv
  BY <1>3 DEF Init, RequestInv, AskedInv
<1>6. ClocksInv
  <2>1. 0 <= 0 * NsPerTick /\ DivRoundUp(0, NsPerTick) \in Nat
    BY Constants, RoundUp
  <2> QED
    BY <2>1 DEF Init, ClocksInv
<1> QED
  BY <1>1, <1>2, <1>3, <1>4, <1>5, <1>6 DEF Parts, Init

LEMMA StutterParts == Parts /\ UNCHANGED vars => Parts'
BY DEF vars, sched, acks, calendar, Parts, MessageTypes, SchedTypes, SeqTypes,
       Conversation, Sent, Answered, AnswerRead, Places, TurnComing, RequestInv,
       Requested, Requesting, Getting, AskedInv, ClocksInv, Running

LEMMA NextParts == ~Outsiders /\ Parts /\ [Next]_vars => Parts'
<1> SUFFICES ASSUME ~Outsiders, Parts, [Next]_vars
             PROVE  Parts'
  OBVIOUS
<1>1. CASE Socket
  BY <1>1, SockReadStep, ReadWaitAckStep, SendEndsStep DEF Socket
<1>2. CASE Daemon
  BY <1>2, RunJobStep, AskForwardStep, StartStep, ReturnStep, WaitStep DEF Daemon
<1>3. CASE CalendarReceives
  BY <1>3, ReceivesAck, ReceivesMessage
<1>4. CASE UNCHANGED vars
  BY <1>4, StutterParts
<1> QED
  BY <1>1, <1>2, <1>3, <1>4, AddJobStep, SyncToStep, ClientMessageStep,
     AdvancesStep, RunsStep DEF Next

(***************************************************************************)
(* With participants only and no job before the start, the invariant of    *)
(* the conversation with the calendar holds.                               *)
(***************************************************************************)
THEOREM Invariance == ~Outsiders /\ EarlyJobs = {} => (Spec => []IInv)
<1> SUFFICES ASSUME ~Outsiders, EarlyJobs = {}
             PROVE  Spec => []IInv
  OBVIOUS
<1>1. Init => Parts
  BY InitParts
<1>2. Parts /\ [Next]_vars => Parts'
  BY NextParts
<1> QED
  BY <1>1, <1>2, InvParts, PTL DEF Spec

(***************************************************************************)
(* Every send is acknowledged: the answer it waits for is still to come or *)
(* was read for it, and no message has sequence number 0 although the      *)
(* counter wraps.                                                          *)
(***************************************************************************)
THEOREM SendsAnswered == ~Outsiders /\ EarlyJobs = {} => (Spec => []AcksInv)
<1>1. IInv => AcksInv
  <2> SUFFICES ASSUME IInv
               PROVE  AckStillComing
    BY DEF AcksInv, IInv
  <2> SUFFICES ASSUME NEW i \in 1..Len(stack)
               PROVE  \/ acked /\ i = Len(stack)
                      \/ \E k \in 1..Len(to_cal) : to_cal[k].seq = stack[i].seq
                      \/ \E k \in 1..Len(to_host) :
                            to_host[k].op = "ACK" /\ to_host[k].seq = stack[i].seq
    BY DEF AckStillComing
  <2>1. MessageTypes /\ Conversation
    BY DEF IInv
  <2>2. Len(stack) = 1 /\ i = 1 /\ stack # <<>>
    <3>1. stack # <<>>
      BY DEF IInv
    <3> QED
      BY <2>1, <3>1, StackLen
  <2>3. CASE Sent
    <3>1. Len(to_cal) \in 1..Len(to_cal)
      BY <2>1, <2>3, TailIs DEF MessageTypes, Sent
    <3> QED
      BY <2>2, <2>3, <3>1 DEF Sent
  <2>4. CASE Answered
    BY <2>2, <2>4 DEF Answered
  <2>5. CASE AnswerRead
    BY <2>2, <2>5 DEF AnswerRead
  <2> QED
    BY <2>1, <2>2, <2>3, <2>4, <2>5 DEF Conversation
<1> QED
  BY <1>1, Invariance, PTL

(***************************************************************************)
(* No assertion of the scheduler or of the time control client fails:      *)
(* neither by RUN nor by the answer to GET does the time move backwards or *)
(* beyond what was asked for, whatever the tick and wherever the calendar  *)
(* lets others run; the free period does not end in the past; and the      *)
(* message after WAIT is its acknowledgement.                              *)
(***************************************************************************)
THEOREM NeverAborts == ~Outsiders /\ EarlyJobs = {} => (Spec => []NoAbort)
<1>1. IInv => NoAbort
  BY DEF IInv
<1> QED
  BY <1>1, Invariance, PTL
=============================================================================
