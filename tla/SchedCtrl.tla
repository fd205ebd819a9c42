----------------------------- MODULE SchedCtrl -----------------------------
(***************************************************************************)
(* The scheduler driven by a calendar process over a socket                *)
(* (lib/schedctrl.c): requests, waits, updates and queries are messages    *)
(* that the calendar acknowledges by sequence number, and while the daemon *)
(* waits for an acknowledgement other than that of WAIT its event loop     *)
(* runs, so that handlers send messages nested in a send.                  *)
(*                                                                         *)
(* The calendar (external code) gives the run token to one participant at  *)
(* a time.  Clients that are participants speak to the daemon only while   *)
(* it waits for its turn; other clients speak at any time (Outsiders).     *)
(* The times on the socket are in nanoseconds, those of the scheduler in   *)
(* ticks; the offset between the two stays 0, the daemon starts at 0.      *)
(***************************************************************************)
EXTENDS Integers, Sequences

CONSTANTS
    Outsiders,      \* there are clients that are no participants
    EarlyJobs,      \* the jobs of interference and mobility, added before the start
    NsPerTick,      \* nsec_per_tick
    SeqMod,         \* 2^w for the width w of a sequence number
    MaxTime,        \* bound: the latest time, in ticks
    MaxAdds,        \* bound: how many jobs are added
    MaxDepth        \* bound: how deeply sends are nested

ASSUME SwitchAssumption == Outsiders \in BOOLEAN
ASSUME WidthAssumption == NsPerTick \in Nat \ {0} /\ SeqMod \in Nat \ {0, 1}
ASSUME EarlyAssumption == EarlyJobs \subseteq Nat
ASSUME BoundAssumption == MaxTime \in Nat /\ MaxAdds \in Nat /\ MaxDepth \in Nat

VARIABLES
    \* struct usfstl_scheduler
    jobs,                   \* the start times of the queued jobs
    current_time,
    prev_external_sync, prev_external_sync_set,
    next_external_sync,     \* None if it is not set
    \* struct usfstl_sched_ctrl, and the statics of the send function
    waiting, acked, ack_time, expected_ack_seq,
    seq, old_expected,
    \* where the daemon is, its sends in progress, failed assertions
    pc, stack, aborted,
    \* the socket and the calendar
    to_cal, to_host, cal_time, cal_request, cal_free, host_waits,
    adds                    \* number of AddJob steps so far

sched    == <<jobs, current_time, prev_external_sync, prev_external_sync_set,
              next_external_sync>>
acks     == <<acked, ack_time, expected_ack_seq, old_expected>>
calendar == <<cal_time, cal_request, cal_free, host_waits>>
vars     == <<sched, waiting, acks, seq, pc, stack, aborted, to_cal, to_host,
              calendar, adds>>

None == -1
Time == 0..MaxTime

DivRoundUp(a, b) == (a + b - 1) \div b
-----------------------------------------------------------------------------
(* Sending a message and its acknowledgement.                              *)

\* a sequence number is never 0, the value expected by nobody
NextSeq(n) == IF (n + 1) % SeqMod = 0 THEN 1 ELSE (n + 1) % SeqMod

\* usfstl_sched_ctrl_send_msg() up to its wait for the acknowledgement
Send(op, time) ==
    /\ Len(stack) < MaxDepth
    /\ seq' = NextSeq(seq)
    /\ to_cal' = Append(to_cal, [op |-> op, seq |-> seq', time |-> time])
    /\ old_expected' = expected_ack_seq
    /\ expected_ack_seq' = seq'
    /\ stack' = Append(stack, [op |-> op, seq |-> seq'])
    /\ UNCHANGED <<acked, ack_time>>

Top == stack[Len(stack)]
Pop == SubSeq(stack, 1, Len(stack) - 1)

\* mutant: the acknowledgement of WAIT is awaited in the event loop, too
InLoopForWait ==
    \/ pc = "loop" /\ stack = <<>> /\ waiting
    \/ stack # <<>> /\ ~acked

\* usfstl_loop_wait_and_handle() runs: in usfstl_sched_ctrl_wait(), or in a
\* send that is not WAIT
InLoop ==
    \/ pc = "loop" /\ stack = <<>> /\ waiting
    \/ stack # <<>> /\ ~acked /\ Top.op # "WAIT"

\* the assertions of usfstl_sched_set_time(), as a condition
TimeAllowed(time) ==
    /\ jobs = {} \/ time <= prev_external_sync
    /\ time >= current_time

Acknowledge(msg) == Append(to_cal, [op |-> "ACK", seq |-> msg.seq, time |-> 0])

ReadAck(msg) ==
    /\ msg.op = "ACK"
    /\ acked' = (acked \/ msg.seq = expected_ack_seq)
    /\ ack_time' = IF msg.seq = expected_ack_seq THEN msg.time ELSE ack_time
    /\ UNCHANGED <<sched, waiting, to_cal, aborted>>

\* mutant: the wait does not end
ReadRunKeepsWaiting(msg) ==
    /\ msg.op = "RUN"
    /\ current_time' = DivRoundUp(msg.time, NsPerTick)
    /\ aborted' = ~TimeAllowed(current_time')
    /\ to_cal' = Acknowledge(msg)
    /\ UNCHANGED <<jobs, prev_external_sync, prev_external_sync_set,
                   next_external_sync, waiting, acked, ack_time>>

ReadRun(msg) ==
    /\ msg.op = "RUN"
    /\ current_time' = DivRoundUp(msg.time, NsPerTick)
    /\ aborted' = ~TimeAllowed(current_time')
    /\ waiting' = FALSE
    /\ to_cal' = Acknowledge(msg)
    /\ UNCHANGED <<jobs, prev_external_sync, prev_external_sync_set,
                   next_external_sync, acked, ack_time>>

\* with usfstl_sched_set_sync_time(); rounded down
ReadFreeUntil(msg) ==
    /\ msg.op = "FREE_UNTIL"
    /\ next_external_sync' = msg.time \div NsPerTick
    /\ aborted' = (next_external_sync' < current_time)
    /\ to_cal' = Acknowledge(msg)
    /\ UNCHANGED <<jobs, current_time, prev_external_sync, prev_external_sync_set,
                   waiting, acked, ack_time>>

\* usfstl_sched_ctrl_sock_read() from the event loop
SockRead ==
    /\ InLoop /\ to_host # <<>>
    /\ to_host' = Tail(to_host)
    /\ LET msg == Head(to_host)
       IN  ReadAck(msg) \/ ReadRun(msg) \/ ReadFreeUntil(msg)
    /\ UNCHANGED <<expected_ack_seq, old_expected, seq, pc, stack, calendar, adds>>

\* the direct read after WAIT, which has to be its acknowledgement
ReadWaitAck ==
    /\ stack # <<>> /\ Top.op = "WAIT" /\ ~acked /\ to_host # <<>>
    /\ to_host' = Tail(to_host)
    /\ LET msg == Head(to_host)
       IN /\ aborted' = ~(msg.op = "ACK" /\ msg.seq = expected_ack_seq)
          /\ ack_time' = msg.time
    /\ acked' = TRUE
    /\ UNCHANGED <<sched, waiting, expected_ack_seq, old_expected, seq, pc, stack,
                   to_cal, calendar, adds>>

\* mutant: the answer to GET is not applied
SendEndsUnsynced ==
    /\ stack # <<>> /\ acked
    /\ acked' = FALSE
    /\ expected_ack_seq' = old_expected
    /\ stack' = Pop
    /\ pc' = IF Top.op = "WAIT" THEN "loop" ELSE pc
    /\ UNCHANGED <<sched, ack_time, aborted, waiting, old_expected, seq, to_cal,
                   to_host, calendar, adds>>

\* acknowledged; the answer to GET sets the time
SendEnds ==
    /\ stack # <<>> /\ acked
    /\ acked' = FALSE
    /\ expected_ack_seq' = old_expected
    /\ stack' = Pop
    /\ pc' = IF Top.op = "WAIT" THEN "loop" ELSE pc
    /\ LET tick == DivRoundUp(ack_time, NsPerTick)
       IN  IF Top.op = "GET" THEN current_time' = tick /\ aborted' = ~TimeAllowed(tick)
                             ELSE UNCHANGED <<current_time, aborted>>
    /\ UNCHANGED <<jobs, prev_external_sync, prev_external_sync_set,
                   next_external_sync, ack_time, waiting, old_expected, seq,
                   to_cal, to_host, calendar, adds>>
-----------------------------------------------------------------------------
(* The daemon: main loop ("run") and callbacks, about to wait ("ask"),       *)
(* inside the wait function ("wait", "loop"), and a client's handler that  *)
(* runs in that loop ("handler").                                          *)

\* usfstl_sched_ctrl_start(); with no job allowed at its head, it has none to
\* request at its end
Start ==
    /\ pc = "start"
    /\ Send("START", 0)
    /\ pc' = "run"
    /\ aborted' = (jobs # {})
    /\ UNCHANGED <<sched, waiting, to_host, calendar, adds>>

SchedWaiting == pc \in {"wait", "loop", "handler"}

\* usfstl_sched_external_request(): the time has to be granted
NeedsGrant(time) ==
    SchedWaiting \/ next_external_sync = None \/ time >= next_external_sync

\* ... and is asked for, with usfstl_sched_ctrl_request()
Request(time) ==
    IF NeedsGrant(time) /\ ~(prev_external_sync_set /\ prev_external_sync = time)
    THEN /\ prev_external_sync' = time
         /\ prev_external_sync_set' = TRUE
         /\ Send("REQUEST", time * NsPerTick)
    ELSE UNCHANGED <<prev_external_sync, prev_external_sync_set, seq, to_cal,
                     acks, stack>>

AddJob(time) ==
    /\ pc \in {"run", "handler"} /\ stack = <<>> /\ adds < MaxAdds
    /\ time >= current_time /\ time \notin jobs
    /\ jobs' = jobs \cup {time}
    /\ adds' = adds + 1
    /\ Request(time)
    /\ UNCHANGED <<current_time, next_external_sync, waiting, pc, aborted,
                   to_host, calendar>>

IsFirst(t) == t \in jobs /\ \A u \in jobs : t <= u

\* usfstl_sched_next() calls the first job, which is due or may run freely
RunJob(t) ==
    /\ pc = "run" /\ stack = <<>> /\ IsFirst(t)
    /\ t <= current_time \/ ~NeedsGrant(t)
    /\ current_time' = IF t > current_time THEN t ELSE current_time
    /\ jobs' = jobs \ {t}
    /\ pc' = "callback"
    /\ UNCHANGED <<prev_external_sync, prev_external_sync_set, next_external_sync,
                   waiting, acks, seq, stack, aborted, to_cal, to_host, calendar,
                   adds>>

\* or asks for its time
AskForward(t) ==
    /\ pc = "run" /\ stack = <<>> /\ IsFirst(t)
    /\ t > current_time /\ NeedsGrant(t)
    /\ Request(t)
    /\ pc' = "ask"
    /\ UNCHANGED <<jobs, current_time, next_external_sync, waiting, aborted,
                   to_host, calendar, adds>>

\* usfstl_sched_ctrl_wait(), also with nothing to do
Wait ==
    /\ stack = <<>>
    /\ pc = "ask" \/ (pc = "run" /\ jobs = {})
    /\ prev_external_sync_set' = FALSE
    /\ waiting' = TRUE
    /\ pc' = "wait"
    /\ Send("WAIT", 0)
    /\ UNCHANGED <<jobs, current_time, prev_external_sync, next_external_sync,
                   aborted, to_host, calendar, adds>>

\* the wait is over
WaitEnds ==
    /\ pc = "loop" /\ stack = <<>> /\ ~waiting
    /\ pc' = "run"
    /\ UNCHANGED <<sched, waiting, acks, seq, stack, aborted, to_cal, to_host,
                   calendar, adds>>

\* A callback that sends to a client calls usfstl_sched_ctrl_sync_to() before;
\* what it sends to the next client repeats the time.
SyncTo ==
    /\ pc = "callback" /\ stack = <<>>
    /\ Send("UPDATE", current_time * NsPerTick)
    /\ pc' = "run"
    /\ UNCHANGED <<sched, waiting, aborted, to_host, calendar, adds>>

CallbackReturns ==
    /\ pc = "callback"
    /\ pc' = "run"
    /\ UNCHANGED <<sched, waiting, acks, seq, stack, aborted, to_cal, to_host,
                   calendar, adds>>

\* the calendar may have passed the token to a participant other than the
\* daemon: nobody runs before the time until which the daemon was alone
OthersTurn == host_waits /\ cal_time >= cal_free

\* A client's message: the handler begins with usfstl_sched_ctrl_sync_from(),
\* unless the connection is just being started.
\* In the wait it may go on to add a job.
ClientMessage ==
    /\ InLoop
    /\ stack # <<>> => Top.op # "START"
    /\ Outsiders \/ (OthersTurn /\ pc \in {"wait", "loop"})
    /\ Send("GET", 0)
    /\ pc' = IF pc = "loop" /\ stack = <<>> THEN "handler" ELSE pc
    /\ UNCHANGED <<sched, waiting, aborted, to_host, calendar, adds>>

HandlerReturns ==
    /\ pc = "handler" /\ stack = <<>>
    /\ pc' = "loop"
    /\ UNCHANGED <<sched, waiting, acks, seq, stack, aborted, to_cal, to_host,
                   calendar, adds>>
-----------------------------------------------------------------------------
(* The calendar, external: it takes the messages in order, remembers the   *)
(* last request, and passes the token.                                     *)

Reply(msg, time) == Append(to_host, [op |-> "ACK", seq |-> msg.seq, time |-> time])

CalendarReceives ==
    /\ to_cal # <<>>
    /\ to_cal' = Tail(to_cal)
    /\ LET msg == Head(to_cal)
       IN /\ to_host' = IF msg.op = "ACK" THEN to_host
                        ELSE Reply(msg, IF msg.op = "GET" THEN cal_time ELSE 0)
          /\ cal_request' = IF msg.op = "REQUEST" THEN msg.time ELSE cal_request
          /\ host_waits' = (host_waits \/ msg.op = "WAIT")
          /\ cal_time' = IF msg.op = "UPDATE" THEN msg.time ELSE cal_time
    /\ cal_free' = cal_free
    /\ UNCHANGED <<sched, waiting, acks, seq, pc, stack, aborted, adds>>

\* no participant is in the middle of a conversation with the daemon
Quiet == pc = "loop" /\ stack = <<>> /\ to_cal = <<>> /\ to_host = <<>>

\* another participant runs, not beyond what the daemon asked for
CalendarAdvances ==
    /\ host_waits /\ Quiet
    /\ \E t \in (cal_time + 1)..(MaxTime * NsPerTick) :
          /\ t >= cal_free
          /\ cal_request # None => t <= cal_request
          /\ cal_time' = t
    /\ UNCHANGED <<sched, waiting, acks, seq, pc, stack, aborted, to_cal,
                   to_host, cal_request, cal_free, host_waits, adds>>

\* the daemon's turn: RUN, perhaps with the time until which it is alone
CalendarRuns ==
    /\ host_waits /\ Quiet /\ cal_request # None
    /\ LET t   == IF cal_time > cal_request THEN cal_time ELSE cal_request
           run == [op |-> "RUN", seq |-> 0, time |-> t]
       IN /\ cal_time' = t
          /\ \/ to_host' = <<run>> /\ cal_free' = cal_free
             \/ \E u \in t..(MaxTime * NsPerTick) :
                   /\ to_host' = <<[op |-> "FREE_UNTIL", seq |-> 0, time |-> u], run>>
                   /\ cal_free' = u
    /\ cal_request' = None
    /\ host_waits' = FALSE
    /\ UNCHANGED <<sched, waiting, acks, seq, pc, stack, aborted, to_cal, adds>>
-----------------------------------------------------------------------------
Init ==
    /\ jobs = EarlyJobs /\ current_time = 0
    /\ prev_external_sync = 0 /\ prev_external_sync_set = FALSE
    /\ next_external_sync = None
    /\ waiting = FALSE /\ acked = FALSE /\ ack_time = 0 /\ expected_ack_seq = 0
    /\ seq = 0 /\ old_expected = 0
    /\ pc = "start" /\ stack = <<>> /\ aborted = FALSE
    /\ to_cal = <<>> /\ to_host = <<>>
    /\ cal_time = 0 /\ cal_request = None /\ cal_free = 0 /\ host_waits = FALSE
    /\ adds = 0

Socket == SockRead \/ ReadWaitAck \/ SendEnds
Daemon ==
    \/ \E t \in Time : RunJob(t) \/ AskForward(t)
    \/ Start \/ CallbackReturns \/ Wait \/ WaitEnds \/ HandlerReturns

Next ==
    /\ ~aborted
    /\ \/ Socket \/ Daemon
       \/ \E t \in Time : AddJob(t)
       \/ SyncTo \/ ClientMessage
       \/ CalendarReceives \/ CalendarAdvances \/ CalendarRuns

Spec == Init /\ [][Next]_vars

(***************************************************************************)
(* The daemon and the calendar go on with what they are doing, and the     *)
(* daemon gets its turn although other participants may run and speak to   *)
(* it before.                                                              *)
(***************************************************************************)
FairSpec ==
    /\ Spec
    /\ WF_vars(~aborted /\ Socket) /\ WF_vars(~aborted /\ Daemon)
    /\ WF_vars(~aborted /\ CalendarReceives)
    /\ SF_vars(~aborted /\ CalendarRuns)
-----------------------------------------------------------------------------
(* Properties.                                                             *)

(***************************************************************************)
(* The scheduler's times, the sequence numbers and the sends in progress   *)
(* have their types; no message carries sequence number 0, not even after  *)
(* the counter has wrapped.                                                *)
(***************************************************************************)
TypeOK ==
    /\ jobs \subseteq Time /\ current_time \in Nat
    /\ prev_external_sync \in Time /\ prev_external_sync_set \in BOOLEAN
    /\ next_external_sync \in Nat \cup {None}
    /\ waiting \in BOOLEAN /\ acked \in BOOLEAN /\ ack_time \in Nat
    /\ {stack[i].seq : i \in 1..Len(stack)} \subseteq 1..(SeqMod - 1)
    /\ {seq, expected_ack_seq, old_expected} \subseteq 0..(SeqMod - 1)
    /\ pc \in {"start", "run", "callback", "ask", "wait", "loop", "handler"}
    /\ aborted \in BOOLEAN /\ host_waits \in BOOLEAN
    /\ {cal_time, cal_free} \subseteq Nat /\ cal_request \in Nat \cup {None}

(***************************************************************************)
(* "response (ACK) to any previous message": whatever is nested in a send, *)
(* the acknowledgement it waits for is still to come, or was taken for the *)
(* innermost send.  A send whose acknowledgement was read and dropped      *)
(* never ends.                                                             *)
(***************************************************************************)
AckStillComing ==
    \A i \in 1..Len(stack) :
        \/ acked /\ i = Len(stack)
        \/ \E k \in 1..Len(to_cal) : to_cal[k].seq = stack[i].seq
        \/ \E k \in 1..Len(to_host) :
              to_host[k].op = "ACK" /\ to_host[k].seq = stack[i].seq

(***************************************************************************)
(* Sends nested in sends: every sequence number on the stack is one the    *)
(* calendar can answer, and its answer is still to come.                   *)
(***************************************************************************)
AcksInv == TypeOK /\ AckStillComing

(***************************************************************************)
(* No assertion fails: time never moves backwards nor beyond what was      *)
(* requested while jobs are queued, although requests are suppressed in    *)
(* the free period, times are rounded, and GET and RUN answers interleave; *)
(* the message read after WAIT is its acknowledgement; and no job is       *)
(* queued when the connection is started.                                  *)
(***************************************************************************)
NoAbort == ~aborted

(***************************************************************************)
(* Every job runs: the daemon is not left waiting with a job queued.       *)
(***************************************************************************)
JobsRun == \A t \in Time : t \in jobs ~> t \notin jobs
=============================================================================
