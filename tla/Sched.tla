------------------------------- MODULE Sched -------------------------------
(***************************************************************************)
(* The event scheduler of lib/sched.c as the daemon drives it: a list of   *)
(* jobs ordered by start time and priority, and a handshake with an        *)
(* external scheduler that owns the time (the wall clock timer of          *)
(* lib/wallclock.c or the calendar process behind lib/schedctrl.c).        *)
(*                                                                         *)
(* The daemon is one thread.  Code that adds or deletes jobs runs from the *)
(* main loop, from a job's callback, and from the event loop that runs     *)
(* nested inside external_wait(): so AddJob and DelJob are possible in     *)
(* every state, and the list may change under a usfstl_sched_next() that   *)
(* is waiting.  Times are scheduler ticks (64 bit microseconds, which do   *)
(* not wrap within the life of a daemon).                                  *)
(***************************************************************************)
EXTENDS Integers, Sequences, SequencesExt

CONSTANTS
    Job,        \* the job structures
    NoJob,      \* the NULL job pointer
    Priority,   \* job->priority, fixed when a job is initialised
    MaxTime,    \* bound: the latest start time a job is given
    MaxAdds     \* bound: how many times a job is added

ASSUME JobAssumption == NoJob \notin Job
ASSUME PriorityAssumption == Priority \in [Job -> Nat]
ASSUME BoundAssumption == MaxTime \in Nat /\ MaxAdds \in Nat

VARIABLES
    start,          \* job->start
    joblist,        \* sched->joblist, the jobs in the order they will run
    current_time,
    prev_external_sync,         \* the time asked for last
    prev_external_sync_set,
    next_external_sync,         \* free to run until here, without asking
    next_external_sync_set,
    attached,       \* external_request and external_wait are set
    waiting,        \* inside external_wait()
    job,            \* the local "job" of a usfstl_sched_next() that waits
    running,        \* the job whose callback is on the stack
    ext_request,    \* the request the external scheduler still has to grant
    adds,           \* number of AddJob steps so far
    cancelled       \* history: a queued job was deleted during this wait

sync  == <<prev_external_sync, prev_external_sync_set, ext_request>>
free  == <<next_external_sync, next_external_sync_set>>
wait  == <<waiting, job, cancelled>>
vars  == <<start, joblist, current_time, sync, free, attached, wait, running,
           adds>>

Time == 0..MaxTime
\* ext_request when the external scheduler has nothing to grant
None == -1

Scheduled(j) == \E i \in 1..Len(joblist) : joblist[i] = j
-----------------------------------------------------------------------------
(* Requesting time from the external scheduler.                            *)

\* mutant: forgets that a waiting scheduler must ask for any earlier time
NeedsGrantOnlyBySyncPoint(time) ==
    attached /\ ~(next_external_sync_set /\ time < next_external_sync)

\* usfstl_sched_external_request() returns true: the time must be granted
NeedsGrant(time) ==
    /\ attached
    /\ ~ ( /\ ~waiting
           /\ next_external_sync_set
           /\ time < next_external_sync )

AskedAlready(time) == prev_external_sync_set /\ time = prev_external_sync

\* mutant: asks for the tick before the one it needs
ExternalRequestEarly(time) ==
    IF NeedsGrant(time) /\ ~AskedAlready(time)
      THEN /\ prev_external_sync' = time - 1
           /\ prev_external_sync_set' = TRUE
           /\ ext_request' = time - 1
      ELSE UNCHANGED sync

\* its effect: the request is sent unless this very time was asked for
ExternalRequest(time) ==
    IF NeedsGrant(time) /\ ~AskedAlready(time)
      THEN /\ prev_external_sync' = time
           /\ prev_external_sync_set' = TRUE
           /\ ext_request' = time
      ELSE UNCHANGED sync

\* A request followed by usfstl_sched_external_wait(), up to the moment the
\* external scheduler's wait function runs the event loop.
RequestAndWait(time, j) ==
    /\ IF AskedAlready(time)
         THEN UNCHANGED <<prev_external_sync, ext_request>>
         ELSE prev_external_sync' = time /\ ext_request' = time
    /\ prev_external_sync_set' = FALSE
    /\ waiting' = TRUE
    /\ job' = j
    /\ cancelled' = FALSE
-----------------------------------------------------------------------------
(* The job list.                                                           *)

\* mutant: ignores the priority
RunsAfterNoPriority(t, st, time, prio) == st[t] > time

\* mutant: a new job overtakes the jobs of its own priority
RunsAfterEquals(t, st, time, prio) ==
    st[t] > time \/ (st[t] = time /\ Priority[t] <= prio)

\* a queued job t runs after a new job of the given time and priority: the
\* comparison that ends the search in usfstl_sched_add_job()
RunsAfter(t, st, time, prio) ==
    \/ st[t] > time
    \/ st[t] = time /\ Priority[t] < prio

\* the position before which usfstl_sched_add_job() inserts
InsertPos(list, st, time, prio) ==
    CHOOSE i \in 1..(Len(list) + 1) :
        /\ \A k \in 1..(i - 1) : ~RunsAfter(list[k], st, time, prio)
        /\ i <= Len(list) => RunsAfter(list[i], st, time, prio)

InsertJob(list, st, j, time) ==
    InsertAt(list, InsertPos(list, st, time, Priority[j]), j)

PosOf(list, j) == CHOOSE i \in 1..Len(list) : list[i] = j

\* usfstl_sched_del_job(): unlink the entry
RemoveJob(list, j) == RemoveAt(list, PosOf(list, j))

AddJob(j, time) ==
    /\ adds < MaxAdds
    /\ time >= current_time         \* asserted on entry
    /\ ~Scheduled(j)                \* asserted on entry
    /\ start' = [start EXCEPT ![j] = time]
    /\ joblist' = InsertJob(joblist, start, j, time)
    /\ ExternalRequest(time)
    /\ adds' = adds + 1
    /\ UNCHANGED <<current_time, free, attached, wait, running>>

DelJob(j) ==
    /\ Scheduled(j)
    /\ joblist' = RemoveJob(joblist, j)
    /\ cancelled' = (cancelled \/ waiting)
    /\ UNCHANGED <<start, current_time, sync, free, attached, waiting, job,
                   running, adds>>
-----------------------------------------------------------------------------
(* usfstl_sched_next(), from the main loop.                                *)

Idle == attached /\ ~waiting /\ running = NoJob

\* del_job() and the call of the callback
Call(j) == running' = j /\ joblist' = Tail(joblist)

\* nothing to do: wait for an event that brings a job
NextWaitForJob ==
    /\ Idle
    /\ joblist = <<>>
    /\ prev_external_sync_set' = FALSE
    /\ waiting' = TRUE
    /\ job' = NoJob
    /\ cancelled' = FALSE
    /\ UNCHANGED <<start, joblist, current_time, prev_external_sync,
                   ext_request, free, attached, running, adds>>

\* the first job lies ahead and its time has to be granted
NextForwardWait ==
    /\ Idle
    /\ joblist # <<>>
    /\ start[Head(joblist)] > current_time
    /\ NeedsGrant(start[Head(joblist)])
    /\ RequestAndWait(start[Head(joblist)], Head(joblist))
    /\ UNCHANGED <<start, joblist, current_time, free, attached, running,
                   adds>>

\* the first job lies ahead, within the time we may run freely
NextForwardFree ==
    /\ Idle
    /\ joblist # <<>>
    /\ start[Head(joblist)] > current_time
    /\ ~NeedsGrant(start[Head(joblist)])
    /\ current_time' = start[Head(joblist)]
    /\ Call(Head(joblist))
    /\ UNCHANGED <<start, sync, free, attached, wait, adds>>

\* mutant: does not expect a job to be late
NextDueExact ==
    /\ Idle
    /\ joblist # <<>>
    /\ start[Head(joblist)] = current_time
    /\ Call(Head(joblist))
    /\ UNCHANGED <<start, current_time, sync, free, attached, wait, adds>>

\* the first job is due or late
NextDue ==
    /\ Idle
    /\ joblist # <<>>
    /\ start[Head(joblist)] <= current_time
    /\ Call(Head(joblist))
    /\ UNCHANGED <<start, current_time, sync, free, attached, wait, adds>>

CallbackReturns ==
    /\ running # NoJob
    /\ running' = NoJob
    /\ UNCHANGED <<start, joblist, current_time, sync, free, attached, wait,
                   adds>>
-----------------------------------------------------------------------------
(* The external scheduler.                                                 *)

AttachExternal ==
    /\ ~attached
    /\ attached' = TRUE
    /\ UNCHANGED <<start, joblist, current_time, sync, free, wait, running,
                   adds>>

\* external_wait() set the time and returned
GrantTime ==
    /\ waiting
    /\ ext_request # None
    /\ ext_request >= current_time
    /\ current_time' = ext_request
    /\ ext_request' = None
    /\ waiting' = FALSE
    /\ job' = NoJob

\* mutant: does not look at the list again after the wait
JobReachedUnchecked == job # NoJob

JobReached == joblist # <<>> /\ Head(joblist) = job

\* the job that was waited for is still the next one: call it
GrantCall ==
    /\ GrantTime
    /\ JobReached
    /\ Call(job)
    /\ UNCHANGED <<start, prev_external_sync, prev_external_sync_set, free,
                   attached, adds, cancelled>>

\* another job is first now, or none: start over
GrantRetry ==
    /\ GrantTime
    /\ ~JobReached
    /\ UNCHANGED <<start, joblist, prev_external_sync, prev_external_sync_set,
                   free, attached, running, adds, cancelled>>

\* usfstl_sched_set_time() on an interaction with the outside
SetTime(time) ==
    /\ attached
    /\ time > current_time
    /\ joblist = <<>> \/ time <= prev_external_sync  \* asserted
    /\ current_time' = time
    /\ UNCHANGED <<start, joblist, sync, free, attached, wait, running, adds>>

SetSyncTime(time) ==
    /\ attached
    /\ time >= current_time         \* asserted
    /\ next_external_sync' = time
    /\ next_external_sync_set' = TRUE
    /\ UNCHANGED <<start, joblist, current_time, sync, attached, wait,
                   running, adds>>
-----------------------------------------------------------------------------
Init ==
    /\ start = [j \in Job |-> 0]
    /\ joblist = <<>>
    /\ current_time = 0
    /\ prev_external_sync = 0
    /\ prev_external_sync_set = FALSE
    /\ next_external_sync = 0
    /\ next_external_sync_set = FALSE
    /\ attached = FALSE
    /\ waiting = FALSE
    /\ job = NoJob
    /\ running = NoJob
    /\ ext_request = None
    /\ adds = 0
    /\ cancelled = FALSE

SchedNext ==
    \/ NextWaitForJob
    \/ NextForwardWait
    \/ NextForwardFree
    \/ NextDue

Next ==
    \/ \E j \in Job, t \in Time : AddJob(j, t)
    \/ \E j \in Job : DelJob(j)
    \/ SchedNext
    \/ CallbackReturns
    \/ AttachExternal
    \/ GrantCall
    \/ GrantRetry
    \/ \E t \in Time : SetTime(t)
    \/ \E t \in Time : SetSyncTime(t)

Spec == Init /\ [][Next]_vars

(***************************************************************************)
(* The main loop keeps calling usfstl_sched_next(), callbacks return, and  *)
(* the external scheduler grants what it was asked for.                    *)
(***************************************************************************)
Fairness ==
    /\ WF_vars(AttachExternal)
    /\ WF_vars(SchedNext)
    /\ WF_vars(CallbackReturns)
    /\ WF_vars(GrantCall \/ GrantRetry)

FairSpec == Spec /\ Fairness
-----------------------------------------------------------------------------
(* Properties.                                                             *)

(***************************************************************************)
(* Every variable of struct usfstl_scheduler has its type.                 *)
(***************************************************************************)
TypeOK ==
    /\ start \in [Job -> Nat]
    /\ joblist \in Seq(Job)
    /\ current_time \in Nat
    /\ prev_external_sync \in Nat
    /\ prev_external_sync_set \in BOOLEAN
    /\ next_external_sync \in Nat
    /\ next_external_sync_set \in BOOLEAN
    /\ attached \in BOOLEAN
    /\ waiting \in BOOLEAN
    /\ job \in Job \cup {NoJob}
    /\ running \in Job \cup {NoJob}
    /\ ext_request \in Nat \cup {None}
    /\ adds \in Nat
    /\ cancelled \in BOOLEAN

\* a must not run before b
Behind(a, b) ==
    \/ start[a] > start[b]
    \/ start[a] = start[b] /\ Priority[a] < Priority[b]

(***************************************************************************)
(* The insertion of usfstl_sched_add_job() and the unlinking of            *)
(* usfstl_sched_del_job() keep the list ordered by start time and          *)
(* priority, with every job in it at most once, however the two are mixed. *)
(***************************************************************************)
JoblistOrdered ==
    \A i, k \in 1..Len(joblist) :
        i < k => joblist[i] # joblist[k] /\ ~Behind(joblist[i], joblist[k])

(***************************************************************************)
(* No lost wakeup: while usfstl_sched_next() waits and a job is queued,    *)
(* the external scheduler holds a request it can still grant, although     *)
(* usfstl_sched_external_request() suppresses requests in three cases.     *)
(***************************************************************************)
WakeupPending ==
    waiting /\ joblist # <<>> => ext_request >= current_time

Calls(j) == running # j /\ running' = j

CallOrder ==
    \A j \in Job : Calls(j) =>
        /\ Scheduled(j)
        /\ \A k \in Job : Scheduled(k) => ~Behind(j, k)
        /\ start[j] <= current_time' \/ cancelled

(***************************************************************************)
(* usfstl_sched_next() calls a queued job that no other queued job should  *)
(* precede, and not before its start time, unless a job was deleted while  *)
(* it waited (then see CalledWhenReached).                                 *)
(***************************************************************************)
CallsInOrder == [][CallOrder]_vars

(***************************************************************************)
(* Jobs of the same start time and priority run in the order in which they *)
(* were added: no step swaps two jobs that stay queued, and a new job goes *)
(* behind its equals.                                                      *)
(***************************************************************************)
Before(list, a, b) ==
    \E i, k \in 1..Len(list) : i < k /\ list[i] = a /\ list[k] = b

FifoAmongEquals ==
    [][\A a, b \in Job :
          /\ Before(joblist, a, b) => ~Before(joblist', b, a)
          /\ (/\ Scheduled(a) /\ ~Scheduled(b)
              /\ Scheduled(a)' /\ Scheduled(b)'
              /\ start'[a] = start'[b] /\ Priority[a] = Priority[b])
                => Before(joblist', a, b)]_vars

(***************************************************************************)
(* A queued job does not stay queued for ever: the wait for the external   *)
(* scheduler ends and the list drains, whatever requests were superseded.  *)
(***************************************************************************)
QueuedJobLeaves == \A j \in Job : Scheduled(j) ~> ~Scheduled(j)

(***************************************************************************)
(* "if this job doesn't request any earlier runtime than previously        *)
(* requested, this does nothing" (comment in usfstl_sched_add_job()): the  *)
(* time asked for while waiting is never later than the first queued job.  *)
(***************************************************************************)
EarliestRequestKept ==
    waiting /\ joblist # <<>> => prev_external_sync <= start[Head(joblist)]

(***************************************************************************)
(* "Otherwise we've actually reached this job, so remove and call it"      *)
(* (comment in usfstl_sched_next()): no job is called before its time.     *)
(***************************************************************************)
CalledWhenReached ==
    [][\A j \in Job : Calls(j) => start[j] <= current_time']_vars
=============================================================================
