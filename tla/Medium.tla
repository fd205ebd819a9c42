------------------------------- MODULE Medium -------------------------------
(***************************************************************************)
(* The frames on the simulated medium, from queue_frame() to               *)
(* wmediumd_deliver_frame(): every station has one queue per access        *)
(* category, a new frame gets its airtime after the last frame of every    *)
(* queue of the same or a higher priority, and scheduler jobs announce the *)
(* start of the transmission and deliver the frame at its end.             *)
(*                                                                         *)
(* Frames are numbered in the order in which they are queued.  A queue is  *)
(* only appended to (list_add_tail()) and deleted from (list_del()), so    *)
(* its list order is the order of the numbers and the queue is the set of  *)
(* its members.  The same holds of the job list among jobs of equal start  *)
(* time; module Sched shows that the scheduler calls jobs in that order.   *)
(*                                                                         *)
(* While a callback waits for a client's acknowledgement the event loop    *)
(* runs nested in it: QueueFrame, Connect and RemoveClient are possible    *)
(* whether or not a callback is on the stack.                              *)
(***************************************************************************)
EXTENDS Integers, Sequences

CONSTANTS
    Station,
    Client,
    None,           \* the NULL client pointer
    AC,             \* access categories, 0 is the highest priority
    Duration,       \* airtimes that the attempts of a frame may add up to
    CanNotify,      \* some client wants TX_START messages
    AnyTime,        \* clients disconnect also while TX_START is scheduled
    MaxTime,        \* bound: the latest time
    MaxFrames       \* bound: the number of frames

ASSUME ClientAssumption == None \notin Client
ASSUME AcAssumption == AC \subseteq Nat
ASSUME DurationAssumption == Duration \subseteq Nat
ASSUME SwitchAssumption == CanNotify \in BOOLEAN /\ AnyTime \in BOOLEAN
ASSUME BoundAssumption == MaxTime \in Nat /\ MaxFrames \in Nat

VARIABLES
    current_time,   \* scheduler.current_time
    frame,          \* every frame queued so far, in order
    queued,         \* the frames that are on a queue
    jobs,           \* the scheduled jobs: <<"start", f>> and <<"deliver", f>>
    callback,       \* the job whose callback is on the stack, or Idle
    station_client, \* station->client
    connected       \* the clients that have not been removed

vars == <<current_time, frame, queued, jobs, callback, station_client,
          connected>>

Time == 0..MaxTime
Idle == <<"idle", 0>>

\* The fields of struct frame the medium uses; airtime ends at job_start.
FrameRecord ==
    [sender : Station, ac : AC, src : Client, duration : Nat, job_start : Nat]
-----------------------------------------------------------------------------
(* Queues and jobs.                                                        *)

Queue(s, i) == {f \in queued : frame[f].sender = s /\ frame[f].ac = i}

\* list_last_entry_or_null() of a queue
IsTail(f, s, i) == f \in Queue(s, i) /\ \A g \in Queue(s, i) : g <= f

\* mutant: the loop over the queues stops before the frame's own category
TailsOtherQueues(ac) ==
    {f \in queued : frame[f].ac < ac /\ IsTail(f, frame[f].sender, frame[f].ac)}

Tails(ac) ==
    {f \in queued : frame[f].ac <= ac /\ IsTail(f, frame[f].sender, frame[f].ac)}

\* mutant: starts from the ends of the other frames only
IsTargetPast(t, ac) ==
    /\ \A f \in Tails(ac) : t >= frame[f].job_start
    /\ IF Tails(ac) = {} THEN t = 0
       ELSE \E f \in Tails(ac) : t = frame[f].job_start

\* "target": the largest of the current time and the ends of those frames
IsTarget(t, ac) ==
    /\ t >= current_time
    /\ \A f \in Tails(ac) : t >= frame[f].job_start
    /\ t = current_time \/ \E f \in Tails(ac) : t = frame[f].job_start

\* when a job is due: start_job at the start of the airtime, job at its end
JobTime(b) ==
    IF b[1] = "start" THEN frame[b[2]].job_start - frame[b[2]].duration
                      ELSE frame[b[2]].job_start

\* mutant: a job is inserted before the jobs of the same time
OlderLifo(a, b) ==
    \/ a[2] > b[2]
    \/ a[2] = b[2] /\ a[1] = "start" /\ b[1] = "deliver"

\* mutant: queue_frame() adds frame->job before frame->start_job
OlderDeliverFirst(a, b) ==
    \/ a[2] < b[2]
    \/ a[2] = b[2] /\ a[1] = "deliver" /\ b[1] = "start"

\* job a was added before job b
Older(a, b) ==
    \/ a[2] < b[2]
    \/ a[2] = b[2] /\ a[1] = "start" /\ b[1] = "deliver"

\* the job usfstl_sched_next() calls
IsNextJob(b) ==
    /\ b \in jobs
    /\ \A a \in jobs \ {b} :
          \/ JobTime(b) < JobTime(a)
          \/ JobTime(b) = JobTime(a) /\ Older(b, a)
-----------------------------------------------------------------------------
(* A frame arrives from client c: _process_messages(), queue_frame().      *)

\* mutant: the sender does not become the client's station
QueueFrameNoOwner(c, s, ac, d, notify) ==
    /\ Len(frame) < MaxFrames
    /\ c \in connected
    /\ notify => CanNotify
    /\ \E target \in Time :
          /\ IsTarget(target, ac)
          /\ target + d <= MaxTime
          /\ frame' = Append(frame,
                [sender |-> s, ac |-> ac, src |-> station_client[s],
                 duration |-> d, job_start |-> target + d])
    /\ queued' = queued \cup {Len(frame) + 1}
    /\ jobs' = jobs \cup {<<"deliver", Len(frame) + 1>>}
    /\ UNCHANGED <<current_time, callback, connected, station_client>>

QueueFrame(c, s, ac, d, notify) ==
    /\ Len(frame) < MaxFrames
    /\ c \in connected
    /\ notify => CanNotify              \* ctx->need_start_notify
    /\ LET src == IF station_client[s] = None THEN c ELSE station_client[s]
           n   == Len(frame) + 1
       IN /\ station_client' = [station_client EXCEPT ![s] = src]
          /\ \E target \in Time :
                /\ IsTarget(target, ac)
                /\ target + d <= MaxTime
                /\ frame' = Append(frame,
                      [sender |-> s, ac |-> ac, src |-> src, duration |-> d,
                       job_start |-> target + d])
          /\ queued' = queued \cup {n}
          /\ jobs' = jobs \cup {<<"deliver", n>>}
                          \cup (IF notify THEN {<<"start", n>>} ELSE {})
    /\ UNCHANGED <<current_time, callback, connected>>

(* The scheduler calls a job; it may be late, and early after a job was    *)
(* deleted (see Sched), but not out of order.                              *)

\* wmediumd_notify_frame_start() begins to tell the clients
CallStart(f) ==
    /\ callback = Idle
    /\ IsNextJob(<<"start", f>>)
    /\ f \in queued                 \* otherwise the frame's memory is freed
    /\ jobs' = jobs \ {<<"start", f>>}
    /\ callback' = <<"start", f>>
    /\ \E t \in Time : t >= current_time /\ current_time' = t
    /\ UNCHANGED <<frame, queued, station_client, connected>>

\* wmediumd_deliver_frame() takes the frame off its queue
CallDeliver(f) ==
    /\ callback = Idle
    /\ IsNextJob(<<"deliver", f>>)
    /\ jobs' = jobs \ {<<"deliver", f>>}
    /\ queued' = queued \ {f}
    /\ callback' = <<"deliver", f>>
    /\ \E t \in Time : t >= current_time /\ current_time' = t
    /\ UNCHANGED <<frame, station_client, connected>>

\* mutant: the last acknowledgement does not end the notification
CallbackReturnsDeliverOnly ==
    /\ callback[1] = "deliver"
    /\ callback' = Idle
    /\ UNCHANGED <<current_time, frame, queued, jobs, station_client, connected>>

\* every receiver was told, a delivered frame is freed
CallbackReturns ==
    /\ callback # Idle
    /\ callback' = Idle
    /\ UNCHANGED <<current_time, frame, queued, jobs, station_client, connected>>

Connect(c) ==
    /\ c \notin connected
    /\ connected' = connected \cup {c}
    /\ UNCHANGED <<current_time, frame, queued, jobs, callback, station_client>>

\* a client is not to disconnect while a frame of it has a start job to come or
\* running, see JobsOfLiveFrames
MayLeave(c) ==
    AnyTime \/ \A f \in queued : frame[f].src = c =>
                  <<"start", f>> \notin jobs /\ callback # <<"start", f>>

\* mutant: leaves the client's frames to the scheduler
RemoveClientKeepsFrames(c) ==
    /\ MayLeave(c)
    /\ c \in connected
    /\ connected' = connected \ {c}
    /\ station_client' = [s \in Station |->
          IF station_client[s] = c THEN None ELSE station_client[s]]
    /\ UNCHANGED <<current_time, frame, queued, jobs, callback>>

\* wmediumd_remove_client(): frees the client's queued frames and deletes
\* frame->job, but not frame->start_job
RemoveClient(c) ==
    /\ MayLeave(c)
    /\ c \in connected
    /\ connected' = connected \ {c}
    /\ station_client' = [s \in Station |->
          IF station_client[s] = c THEN None ELSE station_client[s]]
    /\ LET gone == {f \in queued : frame[f].src = c}
       IN  queued' = queued \ gone /\ jobs' = jobs \ ({"deliver"} \X gone)
    /\ UNCHANGED <<current_time, frame, callback>>

\* the clock moves on while nothing is scheduled
TimePasses ==
    /\ jobs = {} /\ callback = Idle
    /\ \E t \in Time : t > current_time /\ current_time' = t
    /\ UNCHANGED <<frame, queued, jobs, callback, station_client, connected>>
-----------------------------------------------------------------------------
Init ==
    /\ current_time = 0
    /\ frame = <<>>
    /\ queued = {}
    /\ jobs = {}
    /\ callback = Idle
    /\ station_client = [s \in Station |-> None]
    /\ connected = {}

CallNextJob == \E f \in queued : CallStart(f) \/ CallDeliver(f)

Next ==
    \/ \E c \in Client, s \in Station, ac \in AC, d \in Duration,
          notify \in BOOLEAN : QueueFrame(c, s, ac, d, notify)
    \/ CallNextJob
    \/ CallbackReturns
    \/ \E c \in Client : Connect(c) \/ RemoveClient(c)
    \/ TimePasses

Spec == Init /\ [][Next]_vars

(***************************************************************************)
(* The main loop keeps running due jobs, and their callbacks return: this  *)
(* assumes clients that acknowledge or disconnect (see module Clients).    *)
(***************************************************************************)
FairSpec == Spec /\ WF_vars(CallNextJob) /\ WF_vars(CallbackReturns)
-----------------------------------------------------------------------------
(* Properties.                                                             *)

(***************************************************************************)
(* The frames, queues, jobs and clients of struct wmediumd have their      *)
(* types, and queues and jobs name frames that exist.                      *)
(***************************************************************************)
TypeOK ==
    /\ current_time \in Nat
    /\ frame \in Seq(FrameRecord)
    /\ queued \subseteq 1..Len(frame)
    /\ jobs \subseteq {"start", "deliver"} \X (1..Len(frame))
    /\ callback \in ({"start", "deliver"} \X (1..Len(frame))) \cup {Idle}
    /\ station_client \in [Station -> Client \cup {None}]
    /\ connected \subseteq Client

AirtimeStart(f) == frame[f].job_start - frame[f].duration

(***************************************************************************)
(* "delivery time starts after any equal or higher prio frame": of two     *)
(* queued frames the later one does not start before the earlier one has   *)
(* ended, unless it has the higher priority.  The code compares with the   *)
(* tail of each queue only.                                                *)
(***************************************************************************)
NoOverlap ==
    \A f, g \in queued :
        f < g /\ frame[f].ac <= frame[g].ac
            => frame[f].job_start <= AirtimeStart(g)

(***************************************************************************)
(* The job calls deliver the frames of a queue in the order in which they  *)
(* were queued, and a frame whose start is announced is announced before   *)
(* it is delivered.                                                        *)
(***************************************************************************)
DeliveryOrder ==
    \A f \in queued : callback' = <<"deliver", f>> /\ callback = Idle =>
        /\ \A g \in Queue(frame[f].sender, frame[f].ac) : f <= g
        /\ <<"start", f>> \notin jobs

DeliversInOrder == [][DeliveryOrder]_vars

(***************************************************************************)
(* Every queued frame will be delivered, and its completion can be         *)
(* reported: its job is scheduled, and its source is the client of its     *)
(* station, which is connected.                                            *)
(***************************************************************************)
QueuedFramesOwned ==
    /\ \A f \in queued :
          /\ <<"deliver", f>> \in jobs
          /\ frame[f].src = station_client[frame[f].sender]
          /\ frame[f].src \in connected
    /\ \A f \in 1..Len(frame) : <<"deliver", f>> \in jobs => f \in queued

(***************************************************************************)
(* The queues with their tails implement the abstract airtime allocation   *)
(* of module Airtime, whose slots are those of the queued frames.          *)
(***************************************************************************)
Slots ==
    {[frame |-> f, ac |-> frame[f].ac, from |-> AirtimeStart(f),
      to |-> frame[f].job_start] : f \in queued}

Air == INSTANCE Airtime
          WITH Frame <- 1..MaxFrames, now <- current_time, slots <- Slots

ImplementsAirtime == Air!Spec

(***************************************************************************)
(* A queued frame leaves its queue: it is delivered or dropped with its    *)
(* client.                                                                 *)
(***************************************************************************)
FrameLeaves ==
    \A f \in 1..MaxFrames : f \in queued ~> f \notin queued

(***************************************************************************)
(* A client disconnecting "causes a job removal" (comment in               *)
(* usfstl_sched_next()): no job and no running notification refers to a    *)
(* frame that wmediumd_remove_client() freed.                              *)
(***************************************************************************)
JobsOfLiveFrames ==
    /\ \A b \in jobs : b[2] \in queued
    /\ callback[1] = "start" => callback[2] \in queued
=============================================================================
