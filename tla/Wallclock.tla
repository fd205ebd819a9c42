----------------------------- MODULE Wallclock -----------------------------
(***************************************************************************)
(* The scheduler of module Sched driven by the wall clock: lib/wallclock.c *)
(* with the event loop of lib/loop.c and the main loop of wmediumd.c for a *)
(* daemon without a time socket.  A request for time arms a timer;         *)
(* external_wait() runs the event loop until the timer's handler has run,  *)
(* and then sets the scheduler's time to the time asked for last.  Events  *)
(* that come while there is no job first bring the scheduler up to the     *)
(* real time.                                                              *)
(*                                                                         *)
(* The daemon has a periodic job if interference is enabled or stations    *)
(* move: its callback adds it again, one period after its last start.      *)
(* Other jobs belong to frames, whose airtime ends within the horizon of   *)
(* the current time.  Assertions that fail set aborted.                    *)
(***************************************************************************)
EXTENDS Sched

CONSTANTS
    Periodic,       \* the job that is added again by its callback
    Period,
    Horizon,        \* how far ahead the airtime of a frame may end
    MaxNow,         \* bound: the latest real time
    MaxFrames       \* bound: no frame is added after so many jobs

ASSUME PeriodicAssumption == Periodic \in Job /\ Period \in Nat \ {0}
ASSUME ClockAssumption ==
    /\ Horizon \in Nat /\ MaxNow \in Nat
    /\ MaxNow + Period + Horizon <= MaxTime

VARIABLES
    now,            \* the real time since the clock was initialised
    initialized,    \* wallclock.initialized
    armed,          \* the expiry of the timer, or None
    triggered,      \* wallclock.timer_triggered
    loop,           \* "main", "handler" (of an event main waited for), "next"
    nested,         \* a handler waits in the event loop
    aborted

clock_vars == <<now, initialized, armed, triggered>>
loop_vars == <<loop, nested, aborted>>
wvars == <<vars, clock_vars, loop_vars>>

Frame == Job \ {Periodic}
-----------------------------------------------------------------------------
\* mutant: a timer that is armed stays as it is
ArmTimerOnce(time) ==
    /\ armed' = IF armed = None THEN time ELSE armed
    /\ initialized' = TRUE
\* usfstl_sched_wallclock_request(): timerfd_settime() replaces what was set
ArmTimer(time) ==
    /\ armed' = time
    /\ initialized' = TRUE

\* mutant: nothing is asked for while waiting
RequestsUnlessWaiting(time) ==
    IF NeedsGrant(time) /\ ~AskedAlready(time) /\ ~waiting
    THEN ArmTimer(time) ELSE UNCHANGED <<armed, initialized>>
\* usfstl_sched_external_request() gets as far as the request function
Requests(time) ==
    IF NeedsGrant(time) /\ ~AskedAlready(time)
    THEN ArmTimer(time) ELSE UNCHANGED <<armed, initialized>>

Abort == aborted' = TRUE /\ UNCHANGED <<vars, clock_vars, loop, nested>>

\* code outside the scheduler runs: a handler, or a callback that waits
Handling ==
    \/ running # NoJob
    \/ loop = "handler"
    \/ waiting /\ (nested \/ ~triggered)

\* queue_frame(): the end of the airtime is never in the past
FrameArrives(j, time) ==
    /\ Handling
    /\ adds < MaxFrames
    /\ time \in current_time..(current_time + Horizon)
    /\ Requests(time)
    /\ AddJob(j, time)
    /\ UNCHANGED <<now, triggered, loop_vars>>

\* wmediumd_remove_client() deletes the job of a frame
FrameDeleted(j) ==
    /\ Handling
    /\ DelJob(j)
    /\ UNCHANGED <<clock_vars, loop_vars>>

\* main() adds the job before there is a clock
PeriodicStarts ==
    /\ ~attached
    /\ adds = 0
    /\ AddJob(Periodic, Period)
    /\ UNCHANGED <<clock_vars, loop_vars>>

NextStart == start[Periodic] + Period

\* wmediumd_intf_update() and move_stations_to_direction() add the job again,
\* up to the bound of the times
PeriodicAgain ==
    /\ running = Periodic
    /\ ~Scheduled(Periodic)
    /\ IF NextStart < current_time THEN Abort
       ELSE /\ NextStart \in Time
            /\ Requests(NextStart)
            /\ AddJob(Periodic, NextStart)
            /\ UNCHANGED <<now, triggered, loop_vars>>

WCallbackReturns ==
    /\ running = Periodic => Scheduled(Periodic)
    /\ CallbackReturns
    /\ UNCHANGED <<clock_vars, loop_vars>>
-----------------------------------------------------------------------------
(* The main loop and usfstl_sched_next().                                  *)

\* usfstl_sched_wallclock_init()
ClockInit == AttachExternal /\ UNCHANGED <<clock_vars, loop_vars>>

\* the pre-handler usfstl_sched_wallclock_sync_real(), with set_time's checks
SyncReal ==
    IF \/ now < current_time
       \/ joblist # <<>> /\ now > prev_external_sync
    THEN Abort
    ELSE /\ IF now = current_time THEN UNCHANGED vars ELSE SetTime(now)
         /\ UNCHANGED <<clock_vars, nested, aborted>>
         /\ loop' = "handler"

\* usfstl_sched_wallclock_wait_and_handle(): an event while there is no job
WaitAndHandle ==
    /\ Idle /\ loop = "main" /\ joblist = <<>>
    /\ IF initialized THEN SyncReal
       ELSE loop' = "handler" /\ UNCHANGED <<vars, clock_vars, nested, aborted>>

HandlerReturns ==
    /\ loop = "handler" /\ ~nested
    /\ loop' = "main"
    /\ UNCHANGED <<vars, clock_vars, nested, aborted>>

\* usfstl_sched_next() as the main loop calls it, and as it goes around
InNext == loop # "handler" /\ (loop = "next" \/ joblist # <<>>)

WNextWaitForJob ==
    /\ InNext /\ NextWaitForJob
    /\ triggered' = FALSE
    /\ UNCHANGED <<now, initialized, armed, loop_vars>>

WNextForwardWait ==
    /\ InNext /\ NextForwardWait
    /\ Requests(start[Head(joblist)])
    /\ triggered' = FALSE
    /\ UNCHANGED <<now, loop_vars>>

WNextDue ==
    /\ InNext /\ NextDue
    /\ loop' = "main"
    /\ UNCHANGED <<clock_vars, nested, aborted>>

\* the timer is among the loop's entries while usfstl_sched_wallclock_wait()
\* runs; its handler
HandleFd ==
    /\ waiting /\ (nested \/ ~triggered)
    /\ armed # None
    /\ now >= armed
    /\ triggered' = TRUE
    /\ armed' = None
    /\ UNCHANGED <<vars, now, initialized, loop_vars>>

\* mutant: the wait ends at the real time
WaitTimeReal == now
\* the time that usfstl_sched_wallclock_wait() sets
WaitTime == prev_external_sync

\* the end of usfstl_sched_wallclock_wait(), and on in usfstl_sched_next()
WaitEnds ==
    /\ waiting /\ triggered /\ ~nested
    /\ IF WaitTime < current_time THEN Abort
       ELSE /\ current_time' = WaitTime
            /\ waiting' = FALSE
            /\ job' = NoJob
            /\ ext_request' = None
            /\ IF JobReached THEN Call(job) ELSE UNCHANGED <<joblist, running>>
            /\ loop' = IF JobReached THEN "main" ELSE "next"
            /\ UNCHANGED <<start, prev_external_sync, prev_external_sync_set,
                           free, attached, adds, cancelled, clock_vars, nested,
                           aborted>>

Tick ==
    /\ initialized
    /\ now < MaxNow
    /\ now' = now + 1
    /\ UNCHANGED <<vars, initialized, armed, triggered, loop_vars>>
-----------------------------------------------------------------------------
(* A handler that waits in the event loop itself (the in-band kick of      *)
(* lib/vhost.c).  A pre-handler that is set stays set.                     *)

HandlerWaits ==
    /\ ~aborted
    /\ ~nested
    /\ loop = "handler" \/ (waiting /\ ~triggered)
    /\ nested' = TRUE
    /\ UNCHANGED <<vars, clock_vars, loop, aborted>>

NestedPreHandler ==
    /\ ~aborted
    /\ nested
    /\ loop = "handler"
    /\ initialized
    /\ SyncReal

HandlerGoesOn ==
    /\ ~aborted
    /\ nested
    /\ nested' = FALSE
    /\ UNCHANGED <<vars, clock_vars, loop, aborted>>
-----------------------------------------------------------------------------
WInit ==
    /\ Init
    /\ now = 0 /\ initialized = FALSE /\ armed = None /\ triggered = FALSE
    /\ loop = "main" /\ nested = FALSE /\ aborted = FALSE

DaemonStep ==
    \/ ClockInit
    \/ PeriodicAgain \/ WCallbackReturns
    \/ HandlerReturns
    \/ WNextWaitForJob \/ WNextForwardWait \/ WNextDue
    \/ HandleFd \/ WaitEnds

WNext ==
    /\ ~aborted
    /\ \/ PeriodicStarts
       \/ \E j \in Frame, t \in Time : FrameArrives(j, t)
       \/ \E j \in Frame : FrameDeleted(j)
       \/ WaitAndHandle
       \/ Tick
       \/ DaemonStep

WSpec == WInit /\ [][WNext]_wvars

\* a guest that has negotiated in-band notifications and a daemon without a
\* time socket: handlers may wait, too
KickSpec ==
    WInit /\ [][WNext \/ HandlerWaits \/ NestedPreHandler \/ HandlerGoesOn]_wvars

(***************************************************************************)
(* The main loop goes on, handlers and callbacks return, and the clock     *)
(* ticks up to its bound.                                                  *)
(***************************************************************************)
FairWSpec == WSpec /\ WF_wvars(~aborted /\ DaemonStep) /\ WF_wvars(~aborted /\ Tick)
-----------------------------------------------------------------------------
(* Properties.                                                             *)

\* The variables of the clock have their types, and the scheduler's too.
WTypeOK ==
    /\ TypeOK
    /\ now \in 0..MaxNow
    /\ initialized \in BOOLEAN /\ triggered \in BOOLEAN
    /\ armed \in Time \cup {None}
    /\ loop \in {"main", "handler", "next"}
    /\ nested \in BOOLEAN /\ aborted \in BOOLEAN

\* The daemon does not abort: the periodic job is never added for a time that
\* has passed, and neither the pre-handler nor the end of a wait sets the
\* scheduler's time back or beyond what it asked for, whatever frames come and
\* go while it waits.
NoAbort == ~aborted

\* The scheduler is never ahead of the real time: a frame cannot be delivered
\* before its airtime is over, although the end of a wait sets the time to the
\* request that was made last and not to the one the timer expired for.
NotAheadOfClock == current_time <= now

\* No lost wakeup: while usfstl_sched_next() waits and jobs are queued, the
\* timer is armed or has been handled, although every request replaces the one
\* before it and timers of deleted jobs stay armed.
TimerCoversWait ==
    waiting /\ joblist # <<>> => armed # None \/ triggered

\* The clock's invariant: while frames come and go under a wait, the
\* scheduler's time stays behind the real time and the timer keeps covering
\* what it waits for.
ClockInv == WTypeOK /\ NotAheadOfClock /\ TimerCoversWait

\* The clock keeps the contract of module Sched: every step of the daemon is
\* one the scheduler allows of an external scheduler; in particular a wait
\* ends at the time that was requested last and not granted yet.
ImplementsSched == Spec

\* Every job whose time comes is called, or deleted, in the end.
JobsLeave ==
    \A j \in Job :
        Scheduled(j) /\ start[j] + Horizon < MaxNow ~> ~Scheduled(j)
=============================================================================
