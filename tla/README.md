# wmediumd in TLA+

wmediumd is a daemon that simulates the wireless medium between the radios of
`mac80211_hwsim`: it receives the frames the radios send, decides which
stations hear them and when, and reports the outcome to the sender. This
directory models its logic in TLA+, checks it with TLC and proves the central
properties with TLAPS. Paths below are relative to `src/wmediumd/`.

## The system

The daemon is one thread around an event loop. What makes it hard is that the
event loop is *re-entered*: a job callback that has sent a message to a client
runs the loop until the client has acknowledged or the driver has replied, the
scheduler runs it until time was granted, and so does every message to the
calendar. Handlers can therefore run in the middle of every callback, and, where
they wait themselves, of other handlers, and everything that is kept in local
variables meanwhile can go stale.

| component | state | operations | correct if |
|---|---|---|---|
| event scheduler (`lib/sched.c`) | job list, current time, last request, free-running limit, waiting flag | add and delete a job, run the next job, request and wait for time, set time | jobs run in order of time, priority and insertion; never early; a waiting scheduler has asked for what it needs |
| time sources (`lib/wallclock.c`, `lib/schedctrl.c`) | timer, or the connection to a calendar process | request, wait, sync | time only moves as far as was requested; acknowledgements are matched |
| event loop (`lib/loop.c`, `lib/uds.c`) | registered file descriptors | register, unregister, wait and handle one event | one handler at a time, nested calls only from waits |
| medium (`wmediumd.c`: `queue_frame`, the two frame jobs) | a queue per station and access category, two jobs per frame | queue a frame, announce its start, deliver it, drop it with its client | airtimes do not overlap; queues are first in first out; every queued frame has its job and a live owner |
| clients (`wmediumd.c`: API handler, vhost and netlink glue, fan-out) | list of registered clients, removed clients, flags, wait flags, count of clients to notify | connect, register, unregister, set control, send, acknowledge, disconnect | every client gets each frame it should exactly once; nothing freed is used; waits end |
| transmission attempts (`queue_frame`, 409-531) | rate table, contention window, interference | attempt loop, delivery to the receivers, interference update | the report and the airtime are those of the attempts made; a frame is lost as its link says |
| vhost-user device (`lib/vhost.c`) | virtqueues, memory map, kick and call descriptors | messages, kick, notify, free | indices wrap correctly; no buffer lost or used twice |
| configuration (`config.c`) | stations, link tables, mobility job | load, clear, validate, reload, move, SET_SNR | links are those of the last file and the messages since; a rejected file changes nothing; no reference to old stations survives a reload |
| error rates (`per.c`) | table of error rates | read, look up | look-ups stay inside the table |
| packet capture, station addresses | capture file, list of addresses | start, stop, add, delete | a capture is closed before a new one starts; addresses are unique |

Clients call into the medium through `_process_messages()`; the medium puts
jobs into the scheduler; the scheduler calls back into the fan-out, which
walks over the clients and re-enters the event loop; a disconnect reaches from
the clients into the queues and the job list.

The behaviours that are hard to test are listed in `PROJECT.json` under
"hazards", each at its line, with the properties that would notice.

## Modules

| module | models | extends / uses |
|---|---|---|
| `Sched` | `lib/sched.c` with an abstract time source | |
| `Wallclock` | `lib/wallclock.c`, `lib/loop.c` and the main loop; implements `Sched` | `EXTENDS Sched` |
| `Airtime` | abstract specification: a slot starts now or after the last slot of its priority or above | |
| `Medium` | queues, airtime and jobs of frames; implements `Airtime` | `INSTANCE Airtime` |
| `Transmit` | attempts, report, receivers and interference of a frame; `per.c` | |
| `Config` | `config.c`, reloads, links, mobility, station addresses, captures | |
| `Clients` | client list, API messages, fan-out with nested event loop | |
| `SchedCtrl` | `lib/schedctrl.c`: the messages to the calendar process, with the calendar | |
| `Vhost` | `lib/vhost.c`: virtqueues, kicks, calls, life of a device, with the driver | |
| `VhostSetup` | `lib/vhost.c`: messages, descriptors, memory, addresses and descriptor chains | |
| `MCSched`, `MCWallclock`, `MCMedium`, `MCTransmit`, `MCConfig`, `MCClients`, `MCVhost`, `MCVhostSetup` | constants and symmetry for TLC | the module of that name |
| `SchedProofs` (also of `Wallclock`), `MediumProofs`, `TransmitProofs`, `ConfigProofs`, `ClientsProofs`, `SchedCtrlProofs`, `VhostProofs`, `VhostSetupProofs` | theorems and proofs | the component, library theorems |

An operator under a comment that begins with "mutant" is not part of the model:
it is a wrong variant of the definition after it, with which the property it
belongs to must fail (`PROJECT.json`, "mutants").

### Sched

The variables are the fields of `struct usfstl_scheduler` (same names), plus
`job` and `running`, the two places of `usfstl_sched_next()` where control can
be (waiting for time, inside a callback), and `ext_request`, what the time
source has still to grant. Two history variables count the additions and
remember a deletion during the wait.

`AddJob` and `DelJob` are `usfstl_sched_add_job()` and `usfstl_sched_del_job()`.
They are possible in every state, since handlers run nested in waits and
callbacks; the assertions at the head of `add_job()` are guards, because its
callers have to respect them. `usfstl_sched_next()` is split where it can be
interrupted: `NextWaitForJob`, `NextForwardWait` lead to the wait, `GrantCall`
and `GrantRetry` are what happens when the wait ends (the job that was waited
for is still first, or not), `NextForwardFree` and `NextDue` need no wait.
`SetTime` and `SetSyncTime` are the two entries for the time source. Not
included: blocked groups, which nothing in the daemon uses, and linked
schedulers.

### Wallclock

The variables of `Sched`, and the timer: `armed` is its expiry, `triggered` is
`timer_triggered`, `now` the real time. `loop` says where the main loop is: in
`usfstl_sched_next()`, waiting for an event, or in the handler of one. A
request arms the timer, each one replacing the one before; `Tick` lets it
expire; `WaitEnds` sets the scheduler's time to the time that was asked for
*last*, which need not be the one that the timer expired for. The pre-handler
(`SyncReal`) brings the scheduler up to the real time before an event is handled
while no job is queued. The callback of the periodic job (interference,
mobility) adds it again one period after its last start (`PeriodicAgain`), as
far as the bound on time reaches.
`ImplementsSched` is `Sched!Spec` itself: all that `Sched` allows of a time
source covers what this one does, so the theorems about `Sched` hold of it.
`KickSpec` adds handlers that wait in the event loop themselves, as those of a
vhost-user device do (see Findings).

### Medium and Airtime

Frames are numbered in the order of `queue_frame()`. A queue is only appended
to and deleted from, so it is represented by the set of its members; `IsTail`
is `list_last_entry_or_null()`. `IsTarget` is the loop at 533-545: the current
time or the end of a tail, whichever is latest. The airtime, which `Transmit`
computes, is a choice from `Duration` here, which contains 0 so that several
events fall on the same tick. The scheduler appears as the set of `jobs` and the
order in which it calls them (`IsNextJob`), which is what module `Sched`
establishes; a job may be called late, because the daemon is busy, or early
(finding 2), so no action compares the time with the start of
the job it calls. `QueueFrame` is one step, as it is with the wall clock; under
time control the requests of the two `usfstl_sched_add_job()` calls run the event
loop between them, which `Clients` has. `RemoveClient` deletes `frame->job` and not
`frame->start_job`, as the code does; unless `AnyTime` is set, no client leaves
while the start job of a frame of it is still to come (finding 3).

`Airtime` knows slots instead of queues and looks at all of them. That
`Medium` implements it says that the tails are enough.

### Transmit

One frame after another goes through `queue_frame()` and
`wmediumd_deliver_frame()`. `pc` cuts the former into the attempts it makes:
`QueueFrame` is everything before the loops, `TryRate` the head of the outer
loop, `Attempt` one turn of the inner one, `RateFailed` and `AttemptsEnd` their
ends. `DeliverFrame` decides who receives the frame and whose interference it
adds to, `IntfUpdate` is the periodic job that turns interference into
collision probabilities, and `ReadRow`, `ReadEnds` read a PER file row by row.

Probabilities are counted in parts of `One` and draws are below it. The
floating-point formula of an error probability may give any value; its two
cut-offs (a signal no stronger than the noise, a rate past the table) are exact.
Sums of decibels come from a table of powers in thousandths. A row of the PER
matrix that was never written may hold anything. `Airtime` in the properties is
a reference definition: the airtime of a report, from the report alone; so is
`FileErrorProb`, the error probability at a signal, from the PER file alone.

### Config

A file is a record of what libconfig finds in it; the files of an instance are
`Content`. `load_config()`, `clear_config()` and `validate_config()` call
nothing that waits, so each is an operator on the context, with every error
path; the context that `validate_config()` fills is a second one. Pointers are
NULL, live or freed. A reload starts a new generation of stations; queued
frames and a callback in progress remember theirs, so that their use after a
reload shows. Undefined behaviour and failed assertions set `fault` and end
the behaviour, and `causes` remembers what had been done that the code is not
up to. Path loss uses a table of logarithms at few distances and stations on a
line; two stations at one place get whatever converting log10(0) gives
(`Garbage`). Addresses and captures are here because they are changed by the same
kind of messages and reloads replace the stations.

### Clients

`clients` and `clients_to_free` are the two lists, in list order, and
`NextEntry` follows the link of an entry on whichever list it is, including
the entry that `list_del_init()` linked to itself and the head of
`clients_to_free`, which a walk would take for a client (`Stray`). `cb` is the
callback on the stack with its loop variables. It is cut where it runs the event
loop: for the calendar, if there is one (`ctrl`), before each walk and before
the TX info; for the acknowledgement of an API client; and for the driver's
reply to an in-band call to a vhost-user client (`vhost.c:266`). Messages to the
kernel's netlink client, which is on the list from the start and never leaves,
do not wait. `write()` to a client that is gone returns -1, and the code
compares it with an unsigned length: so the error branch is not taken and the
code waits (`SendApi`).

Handlers run at the top level and in each of these waits (`Polling`); there is one
action per message type and event. Those that return at once are one step. Two
wait in the event loop themselves and go on `stack`, where further ones may come
on top of them: a message with a frame, which under time control waits for the
calendar before it is processed (`wmediumd.c:1210`) and again while
`queue_frame()` adds its jobs; and a virtqueue that is handled, after a kick or
by the interrupt job, which calls the driver after each buffer. So a client can
be removed inside its own handler: in `ProcessFrame` the station and the frame
then get a client that is gone, and in `Respond` and `RespondFails` the response
is written to it.

`Departures` says when clients leave: at any time (`"any"`); not between a
message of their own and the end of `queue_frame()` (`"settled"`); or (`"safe"`)
also not while a handler of their own waits, while they are the saved entry of a
walk (which they may not unregister from either) or the device that a callback
calls, nor while a frame of theirs is announced or delivered. Each of these
departures is one of the findings below.

Whatever follows an undefined access or a failed assertion (the head of a list
used as a client, a freed device or frame, a loop entry removed twice, a call
that is not answered) is not modelled: `Undefined` ends the behaviour.

### SchedCtrl

With a time socket the daemon takes part in a simulation whose time a calendar
process keeps. Every message of the daemon is acknowledged, and while it waits
for the acknowledgement its event loop runs. `stack` has the sends in progress;
`Send` is `usfstl_sched_ctrl_send_msg()` up to the wait, `SendEnds` its end,
`SockRead` the socket's handler, and `ReadWaitAck` the direct read after WAIT.
`old_expected` is one variable, as the `static` of the code is, and not one
per send. The scheduler appears with the fields that the protocol touches; its
jobs are a set of times, since `Sched` has the list. `pc` says where the daemon
is: before the start, in the main loop, in a callback, about to wait, in the
wait, or in a handler that runs inside it. Failed assertions set `aborted`
and end the behaviour.

The calendar is external code, known from `inc/linux/um_timetravel.h` and the
comments of `schedctrl.c`: it answers in order, keeps the last request, gives
the token to one participant at a time, and after FREE_UNTIL lets nobody else
run before that time. So a client that takes part speaks only while the daemon
waits and the others' turn has come (`OthersTurn`). A client of the API socket
need not take part; `Outsiders` adds such clients. Left out: an offset of
time, the frozen clock and `usfstl_sched_ctrl_stop()`, which the daemon does
not use, and the deletion of jobs, which is in `Sched`.

### Vhost

The rings are those of shared memory, the other variables the fields of
`struct usfstl_vhost_user_dev_int`. `stack` has the functions in progress:
callbacks that scan the queues, handle one or wait for the reply to a call,
deliveries (`Notify`) that wait, and kicks that wait for the time. Taking a
buffer, handling it and writing it to the used ring is one step (`UseBuffer`).
The update of the calendar's time in `usfstl_vhost_user_send_virtq_buf()` comes
before the used ring is touched, and while it waits no other participant runs;
it is part of that step. `Init` chooses whether there is a scheduler (a time
socket) and whether kicks come by descriptor or as messages whose reply the
driver waits for. With a scheduler a kick first asks for the time, in the event
loop (`SyncFrame`), and adds the interrupt job afterwards (`SyncDone`); without
one it runs the callback itself. Kicks by descriptor under time control are only
in the instance with `KickFds`, since such a driver is not in step with the
simulation. A failed assertion sets `aborted`; a freed device ends the behaviour.
The driver is external: it adds its lowest free descriptor, kicks afterwards,
takes used buffers and replies to calls. A kick is pending or not: the counter
of an event descriptor and repeated messages come to the same.

### VhostSetup

What the driver's messages hand over. `table` is the descriptor table of the
process: the kernel gives out the lowest free number, so a descriptor that is
closed by mistake is soon someone else's, which is what makes such mistakes
hard to see. Memory is addressed by file and position; `maps` is what is
mapped. Each message handler is a function from `State` to `State`, the actions
around them say when messages, kicks, deliveries and the end of the connection
are handled. `get_virtq_buf` and `iov_copy` walk over descriptor
chains; `buf.moved` lists the places of the bytes they moved. Where the code
relies on the driver, a constant says whether the driver does its part:
`Quiesces` (no kick is left when it sends a new table), `Withdraws` (it takes a
kick descriptor back without sending another), `Answers` (it does not hang up
while the device may call it in band), `ApiSocket` (only then is SIGPIPE
ignored), `KickFds` and `CallFds`.

With a `scheduler` (only under time control) a kick sets `triggered` and a job
handles the queue later; without one the queue is handled at once, before the
reply to the kick, and if that happens while another queue is handled, inside
it: `handling` is a stack. `Sent` has the call after each buffer. In band it is a
`write()` to the driver, whose success is asserted; with `REPLY_ACK` the device
then waits (`buf.reply`) for the driver's `Answer`, and `FreeBuf` has the
assertion on reading it. Messages that are handled during that wait appear
after the buffer instead, which changes nothing for them. The end of the
connection during it is not here but in `Vhost` (`DeviceStays`), nor is a failing
reply to a kick that was handled inside another queue, which ends in the same
way.

## Runs

| run | question | distinct states |
|---|---|---|
| `sched` | is the list ordered, are calls in order, is a wakeup always pending, does every queued job leave the list? | 143 thousand |
| `wallclock` | do timer and main loop implement `Sched`, stay behind the clock, keep the timer covering the wait, run every job? | 129 thousand |
| `medium` | do airtimes overlap, queues deliver in order, frames keep owners and jobs, with notifications and disconnects; do frames leave? | 542 thousand |
| `transmit` | do report, airtime, loss, receivers and PER tables agree with what was done and configured? | 497 thousand |
| `config` | do tables, links and addresses stay those that were asked for; what can the daemon die of? | 141 thousand |
| `config_reload` | violated: does the daemon survive the reload of a valid file? | |
| `clients` | does each client get its copies, and do callbacks end, whatever handlers do while these wait, if clients that are about to be used stay? | 167 thousand |
| `clients_any` | with handlers nested in each other, and clients leaving there: counter exact, nothing in use freed? | 1.8 million |
| `schedctrl` | do acknowledgements reach their sends, do the assertions hold, does every job run? | 87 thousand |
| `vhost` | are buffers, kicks and replies conserved in nested callbacks; is the interrupt job added once? | 3.5 million |
| `vhost_live` | does every buffer come back? | 114 thousand |
| `vhost_setup` | do descriptors and mappings balance, are addresses and chains translated exactly, does every call reach the driver? | 206 thousand |

Several invariants are conjunctions of named parts, each explained where it is
defined: `ClockInv` (`WTypeOK`, `NotAheadOfClock`, `TimerCoversWait`),
`ReportInv` (`TypeOK`, `ReportMatchesAttempts`, `AirtimeOfReport`,
`ProbesGetRates`), `OutcomeInv` (`LossAsConfigured`, `AckedMeansDelivered`),
`TablesInv` (`TypeOK`, `TablesMatchStations`, `CapturesClosed`), `ClientsInv`
(`TypeOK`, `NoDanglingClient`), `AcksInv` (`TypeOK`, `AckStillComing`),
`KicksInv` (`TypeOK`, `KickNotLost`, `JobAddedOnce`), `OwnershipInv` (`TypeOK`,
`DescriptorsOwned`, `MappingsOwned`), `MemoryInv` (`RingsTranslated`,
`BytesInOrder`, `SegmentsFit`).

More configurations show properties that the code does not keep (see
Findings); like `config_reload`, each stops at a counterexample:

| configuration | module | property, and what it needs |
|---|---|---|
| `MCSchedRequest.cfg` | `MCSched` | `EarliestRequestKept` |
| `MCSchedReached.cfg` | `MCSched` | `CalledWhenReached` |
| `MCWallclockAbort.cfg` | `MCWallclock` | `NoAbort`, with frames longer than the period |
| `MCWallclockKick.cfg` | `MCWallclock` | `NotAheadOfClock`, with handlers that wait |
| `MCMediumFreed.cfg` | `MCMedium` | `JobsOfLiveFrames`, with clients that leave at any time |
| `MCTransmitUnknown.cfg` | `MCTransmit` | `NoDestinationIsMulticast` |
| `MCConfigPer.cfg` | `MCConfig` | `PerFileKept` |
| `MCClientsWalk.cfg` | `MCClients` | `WalkStaysOnList`, with clients that leave at any time |
| `MCClientsWait.cfg` | `MCClients` | `WaitsForConnected`, likewise |
| `MCClientsTime.cfg` | `MCClients` | `ClientsInv`, with clients that leave while the medium is about to store them, under time control |
| `MCSchedCtrlNested.cfg` | `SchedCtrl` | `AckStillComing`, with clients outside of the simulation |
| `MCSchedCtrlStart.cfg` | `SchedCtrl` | `NoAbort`, with a job queued before the start |
| `MCVhostFreed.cfg` | `MCVhost` | `DeviceStays`, with connections that end at any time |
| `MCVhostKick.cfg` | `MCVhost` | `JobAddedOnce`, with kicks by descriptor under time control |
| `MCVhostSetupKick.cfg` | `MCVhostSetup` | `NoFault`, with kick descriptors withdrawn |
| `MCVhostSetupReset.cfg` | `MCVhostSetup` | `NoFault`, with a kick left when the table is replaced |
| `MCVhostSetupCall.cfg` | `MCVhostSetup` | `NoFault`, with a driver that hangs up while it may be called in band |
| `MCVhostSetupShort.cfg` | `MCVhostSetup` | `WrittenIsFilled` |

Bounds. `Sched`: three jobs, one of them of higher priority, start times 0 to
2 and four additions, so that a job can be waited for, overtaken, deleted and
re-added within one wait. `Wallclock`: the periodic job and two frame jobs,
a period and a horizon of three ticks on seven, three frames: two periods, with
requests for earlier and later times during the waits of each. `Medium`: two
stations, two categories, one client that comes and goes, three frames,
durations 0 and 1 on times 0 to 3: two frames of one queue with a third one of
the other category or station around them, and ties. `Transmit`: four stations,
one link just above the noise and others at it, so that two interferers make
the difference; three PER files (ascending, with a gap, descending); rates that
are unused, counted 0 and at the end of the table, in both bands;
probabilities 0, 1/2 and 1; three frames; no fading, of which the theorems
allow any. `Config`: seven files of all kinds,
three messages, two moves: a reload, what undoes it and a message to notice.
`Clients`: one API client, two vhost-user clients and the kernel, or two API
clients and a vhost-user one, two stations, one frame: a walk has a current
entry, a saved entry and another one, on either side of the waits. In `clients`
one handler waits at a time, with and without a callback below it; in
`clients_any` another one waits inside it. Copies are counted up to two. `SchedCtrl`: times 0 to 3 of two nanoseconds
each, so that rounding matters, three jobs, sequence numbers 1 and 2
so that they wrap all the time, sends nested at most once. `Vhost`: a sending
queue of two buffers and a receiving one of one, indices modulo 4 (modulo 2,
with a ring of one, in the liveness run) so that they wrap within a few buffers,
and callbacks nested once in a callback or in a delivery. `VhostSetup`: two
queues, two memory tables, one of adjoining regions in opposite orders and at an offset
in their file, chains of up to three segments across a border, arrays of two
segments, seven messages per connection (which also bound the kicks that are
handled inside each other) and descriptors 0 to 7, enough for all that can be
open at once; the driver chooses all protocol features or none. Stations and API clients are interchangeable in the
runs that use symmetry; the liveness runs use none.

Deadlock is checked in `sched` and `clients`. The other runs really end: at their
bounds on time, frames or messages (`wallclock`, `medium`, `transmit`, `config`,
and `vhost_setup`, whose driver keeps the connection while it may be called in
band), with an undefined access (`clients_any`), with a failed
assertion (`schedctrl`: `NoAbort` says that there is none, `JobsRun` that the
daemon goes on), or with the device (`vhost`, `vhost_live`).

Fairness. `Sched!FairSpec`: the main loop keeps calling `usfstl_sched_next()`,
callbacks return, and the time source grants what it was asked for (a timer
expires). `Wallclock!FairWSpec`: real time passes, up to its bound, and the
daemon's own code goes on. `Medium!FairSpec`: due jobs are run and their
callbacks return; `Clients` justifies the latter. `Clients!FairSpec`: a
callback that may go on does, and so does the handler on top of the stack: both
are plain code, and what they wait for, the calendar or a driver's reply, comes
(strong fairness, because other handlers run in between); a driver that sends
lets its queue run empty at times, since the device handles buffers as long as
it finds any; and a client that was sent a message acknowledges or its
connection ends. The code has no timeout for any of these, so without the
assumptions on clients, drivers and calendar nothing would hold. `SchedCtrl!FairSpec`: the daemon's code and the calendar go on, and the
calendar, whose purpose that is, gives the daemon its turn even if other
participants keep running at the same time (strong fairness of
`CalendarRuns`). `Vhost!FairSpec`: the device's code goes on, the driver kicks
and replies; strong fairness of kicks, sent and handled, and of the interrupt
job, because deliveries and other kicks come in between: the main loop handles
an event before each job, and the interrupt job has the time of its kick and the
highest priority.

## Findings

`config_reload` is the one in `PROJECT.json`; the others are the
configurations above.

1. `MCSchedRequest`: a job added during a wait replaces the pending request by
   its own, even a later one. Deliveries are then late, not lost: the wait ends
   at the later time (`WakeupPending`, `QueuedJobLeaves`).
2. `MCSchedReached`: if an earlier job is added and deleted during a wait, the
   wait ends at its time and the job waited for is called early, since only
   its position is checked again.
3. `MCMediumFreed`: a disconnect frees a queued frame whose start job is still
   in the job list.
4. `MCClientsWalk`: the "safe" walk is safe against the removal of the current
   entry only; the nested event loop can remove the saved one.
5. `MCClientsWait`: the source of a frame can disconnect while others receive
   it; the daemon then waits for its acknowledgement and no handler is left to
   end the wait. Run `clients` and the theorem `WalksSafe` show what is enough for
   the walks: without the departures of 4, 5, 8 and 18 (`Departures = "safe"`)
   each client gets its copies, every callback ends, and nothing undefined
   happens.
6. `MCSchedCtrlNested`: a handler that sends while the daemon waits for an
   acknowledgement makes it drop that acknowledgement, since the calendar
   answers in order and only the innermost number is compared. `schedctrl`
   shows that this needs a client that does not take part in the simulation.
7. `MCSchedCtrlStart`: interference and mobility queue a job before the
   connection to the calendar is started, which asserts that there is none.
8. `MCVhostFreed`: the loop that waits for the reply to a call handles the end
   of the device's own connection and frees the device. The callers go on with
   it, and `Clients` has the walk over the clients among them, as well as a
   virtqueue that is handled or a kick that waits for the calendar.
9. `MCVhostSetupKick`: withdrawing a kick descriptor leaves it in the loop
   entry; it is unregistered and closed again later.
10. `config_reload`: nothing removes the move job. Validating a file with
    moving stations leaves the job of a context on the stack in the list, and
    loading it adds the job of the running one a second time, which fails an
    assertion (`lib/sched.c:75`).
11. Run `config` names what else a reload runs into (`Explains`): a file that is
    rejected half way is freed twice; frames that are queued, or a callback
    that waits, use stations that are gone; a file that turns interference on
    or off leaves no interference job, or the job without its table; the file is
    read twice and the second result ignored. `MCConfigPer`: a reload drops the
    PER file. A capture to a path that cannot be opened is written to through a
    null pointer.
12. `MCWallclockAbort`: a frame whose airtime ends after the next period can
    push the time past the start at which the periodic job is added again.
13. `MCWallclockKick`: if the handler of an event itself waits in the event
    loop, the timer's expiry handled there counts for a request that was made
    later, and the scheduler gets ahead of the clock.
14. `MCVhostKick`: a driver that kicks by descriptor and does not wait can kick
    again during the query for the time: the job is added twice.
15. `MCVhostSetupReset`: a kick that is handled after a new memory table uses
    rings that point into the old mapping.
16. `MCVhostSetupShort`: the used ring reports the length of the frame although
    the buffer was shorter.
17. `MCTransmitUnknown`: `config.c:75` takes a missing destination for a
    multicast address; it is also that of a frame to an unknown address, which
    is then acknowledged unless the draw is exactly 0.
18. `MCClientsTime`: with a time socket the handler of a frame runs the event
   loop before it processes the frame and while it queues it. The client it
   works for can be removed there; it is nevertheless stored in the station and
   in the frame (`wmediumd.c:949`, `573`), and freed at the end of the round. If
   the response then cannot be written, the disconnect path is taken for the
   second time, and `usfstl_loop_unregister()` follows the null pointers of an
   entry that is on no list (`HandlerFaults`). The daemon does not get as far as
   counting `need_start_notify` down twice: `NotifyCounted` holds for clients
   that leave at any time.
19. `MCVhostSetupCall`: if the driver hangs up while the device calls it in band,
   before the `write()` or instead of its reply, an assertion fails and the
   daemon stops (`vhost.c:244`, `269`).

Smaller observations made on the way, all part of the model: a PER file that
skips a signal is written past the end of its table and a descending one
overwrites its first row (`PerFileFaithful` is about ascending files);
multicast frames never count as
interference; with a PER table a frame may be acknowledged and then not
delivered for its weakness; the mask of `frame_is_probe_req()` also matches
other management frames; SET_SNR is acknowledged without effect while error
probabilities are configured; without an API socket SIGPIPE ends the daemon when
a driver goes away.

## Proofs

The theorems hold for every value of the constants that the assumptions in the
modules allow. The assumptions say what kind of value a constant is (bounds are
natural numbers, `None` is none of the values it stands beside, an index counts
past the size of its ring) and nothing about its size. Where the code keeps a
property only under a condition, the theorem has the condition as its
hypothesis, and a configuration above shows that it is needed.

`SchedProofs` (any jobs, priorities in Nat). The inductive invariant `IInv` joins
`TypeOK`, `JoblistOrdered` and `WakeupPending` with what a wait knows about the
job it waits for and about the last request; without the link between
`prev_external_sync` and `ext_request`, the suppressed repetition of a request
would break `WakeupPending`, and without the ordering `CallsInOrder` would not
follow. Theorems: `TypeCorrect`, `OrderKept`, `NoLostWakeup`, `CallsOrdered`, and
`EqualsFirstInFirstOut`, for which an insertion is shown to go behind all
equals and every other list operation to keep the order of any two members.

Its second half is about `Wallclock` (any jobs, period and horizon). `Refinement`
shows that each step of the daemon is one of `Sched` or leaves its variables
alone, so `IInv` carries over. `WInv` adds the timer (`TimerInv`): it is armed for
exactly the last request unless it has expired, then the real time has got
there, and a request is never in the past. Without the last part the end of a
wait could set the time back. `ClockKept` follows. `NeverAborts`, under
`Horizon <= Period`, needs that neither the current time nor a pending request
is past the next start of the periodic job (`PeriodicInv`).

`MediumProofs` (any stations, clients, categories in Nat, durations in Nat).
`IInv` joins `TypeOK`, `NoOverlap`, `QueuedFramesOwned` and
`StationClientsConnected` (no station points to a removed client, needed
because a new frame takes its source from its station). `NoOverlap` implies
that every queue is sorted by the end of its frames; `TailsSuffice` draws from
it that the tails bound all frames, `TargetAfterAll` that a new frame starts
after them, and that gives back `NoOverlap`. Theorems: `TypeCorrect`,
`AirtimeExclusive`, `FramesOwned`, `DeliveryOrdered`, `Refinement`, that the
medium implements `Airtime`, and, unless `AnyTime`, `JobsLive`.

`TransmitProofs` (any stations, frames, links, probabilities, fading and PER
files). `FrameInv` follows a frame through the loops: with configured
probabilities the draw is still the first one and has beaten no attempt so far
(`DrawDecides`), with signal strengths only a frame above the noise can have
been acknowledged (`SignalDecides`), which puts it above `CCA_THRESHOLD`; and
the signals kept as interference are no stronger than the noise (`WeakIntf`).
A sum over a set is a recursive function; for a set of one station `SumOfOne`
gives the function itself, so that no induction is needed, and `WeakPower` then
bounds it by the noise. `TableInv` says of a well-formed file which rows have
been read and that their signals are consecutive: the induction over the rows
is that over the steps. `LookupFaithful` compares the lookup with the file for
any signal; the property names the signals that TLC can enumerate.

`AccountInv` is the account that the two loops of `queue_frame()` keep. After
`n` rates and some attempts at the next one, `Counted` says what `retries`,
`send_time` and `cw` are: the sums over the counts of the first `n` rates plus
the attempts at hand, with one backoff for every attempt that is not the first
of its rate, and the window that many times doubled. `CountAttempt` carries it
over one attempt, `CountRate` over the end of a rate (also of one that succeeds,
in the report, which has the same first rates and a smaller count), and
`CountEnds` turns it into the report, once `UsedLength` has found that the used
rates are those the loops went through. The sums and the powers of two of the
reference definitions are recursive functions, which `Recursion` shows to exist;
`WindowNext` and `BackoffNext` say that doubling a window that has reached its
limit leaves it there, whether the code cuts it off at every step or the
reference once. `LoopInv` says at which rates this account stands, `TableTyped`
that a table read from a file gives probabilities. A frame has at most
`TX_MAX_RATES` rates (`FramesAssumption`): `mac80211_hwsim` sends no more, and
with more than four `fill_tx_rates()` would choose rates that 5 GHz does not have.

Theorems: `Outcome`, `DrowningTakesTwo`, `PerTableFaithful`, `ReportFaithful`.
Configured probabilities are between 0 and 1, which `load_config()` enforces
(`ErrorProbAssumption`). A PER file is assumed to have
a value for each rate in each row and signals of at most 1000, at which
`read_per_file()` starts its minimum (`PerFilesAssumption`).

`ConfigProofs` (any files, addresses, clients, signals and captures; a file that
is not broken has an entry for each station in each list, `IsContent`). `Loads`
says once and for all what `load_config()` leaves of a context, whatever the
file: its result, the shape of its tables, and for an accepted file the links,
where `MirroredIsConfigured` shows that the link map and `mirror_link()` compute
what the repository's README promises and `PathLossIs` that the matrix is that
of the positions. `IInv` then says: the context has its shape and each station
exactly the addresses it was told (`ShapeInv`); unless a file was rewritten
between its readings, the tables are live and those of the file, and unless a
move job outlived its file, the stations are where the moves since the load
have brought them and the links follow from there (`FileInv`); and a job of a
context that is gone, a frame or a callback of an earlier generation has its
cause on record (`BusyInv`). Neither `LinksAsConfigured` nor `FaultsHaveCauses`
is inductive without the other half: a move needs the positions, not only the
signals, and a fault is explained by what the pointers still are. Theorems:
`TablesKept`, `LinksKept`, `AddressesKept`, `FaultsExplained` and the action
property `RejectedHarmless`.

`ClientsProofs` (any finite set of clients, any stations, number of frames and
depth of handlers). `IInv`: the two lists are disjoint and without duplicates,
and what the callback and the handlers on the stack hold is live or marks the end
of a list. It holds for clients that leave at any time (`Invariance`), and
`NotifyCount` with it. Unless `Departures = "any"`, `OwnersInv` adds that stations
and frames that are being added or queued have connected clients, and
`NothingDangling` follows. Under `Departures = "safe"`, `SafeInv` adds that the
client of each handler on the stack is connected, and what a walk in progress
knows: the saved entry is on the list, what is behind it has got nothing yet,
the steady clients before it have got their copies. Since the list changes under
the walk, this rests on lemmas on what additions and deletions do to the rest of
a list (`RestOfListAdd` and its neighbours). Theorems: `ClonesAreExact`, and
`WalksSafe`, that the walks stay on the list and that nothing undefined happens,
which no run states since `clients` sees the same through `ClonesExact` and
`CallbackReturns`.

`SchedCtrlProofs` (any tick, any number of sequence numbers, under `~Outsiders`
and `EarlyJobs = {}`). `IInv` describes the conversation: at most one send is in
progress, in one of three stages (`Sent`, `Answered`, `AnswerRead`); where the
daemon is determines what it may be sending and who has the token (`Places`);
the calendar has the daemon's last request (`RequestInv`), a waiting daemon with
jobs has asked (`AskedInv`), and the clocks differ by no more than the time the
daemon was given (`ClocksInv`), which is what rounding between ticks and
nanoseconds puts at risk. Theorems: `SendsAnswered`, `NeverAborts`.

`VhostProofs` (any queues, ring sizes that divide the range of the indices, any
nesting). The parts of `IInv` on the stack say that its frames are of known
kinds and that as many replies are coming as frames wait (`RepliesMatch`).
`KicksKept`, under `~KickFds`, adds that at most one kick is in progress
(`OneKick`). `BuffersKept` rests on `BuffersPlaced`, which numbers the entries
between two indices that wrap, and on lemmas on remainders (`ModDistinct`,
`ModShift`): distinct entries of a ring stay distinct places although the index
wraps at a multiple of the size.

`VhostSetupProofs` (any queues, descriptors, tables, chains, addresses, lengths
and number of messages). `SetupInv` is `OwnershipInv` taken apart and completed:
regions, mappings and their descriptors are those of the last table (`MemoryOK`);
kind by kind, a descriptor is open for a use exactly if the field for that use
holds it (`Owned`), which a handler that changes one kind disturbs in one place;
a kick that is held is registered with the loop; a queue in use has its ring and
a way to call (`UseOK`); and the bytes of the buffer in use are those of its
chain. The first two parts need each other: a table is closed by
its fields and unmapped by its sizes. Handlers are functions of the four
variables they change, so each has one lemma (`CallOK`, `ReqOK`, `KickOK`,
`TableOK`, `FreeOK`) that serves the message itself, the message whose reply
fails, and the end of the connection. `Gather`, `iov_copy` and `Bytes` are
recursive functions: `Recursion` shows that they exist, and what they compute for
a chain of any length is shown by the least counterexample, with `Induct`, which
states induction for a set of numbers rather than for a predicate. Theorems:
`SharedMemoryMeant` needs no condition on the driver beyond `DriverAssumption`
(a buffer does not run over the end of the region it begins in);
`DeviceOwnsWhatItWasGiven` holds under `~Withdraws`; `NothingGoesWrong` under
`~Withdraws`, `Quiesces`, `Answers` and `ApiSocket`, with or without a scheduler
and for any sets of protocol features, and the configurations
`MCVhostSetupKick`, `MCVhostSetupReset` and `MCVhostSetupCall` show what happens
without the first three. It needs that a queue in use can be called (`UseOK`),
for each queue on the stack of `handling`, and that whoever waits for a reply,
or may come to, has a driver that is still there (`WaitOK`).

Facts about `InsertAt`, `RemoveAt` and the smallest and largest position in a
list are lemmas of the modules that need them.

Only model-checked: liveness (`QueuedJobLeaves`, `JobsLeave`, `FrameLeaves`,
`CallbackReturns`, `JobsRun`, `BufferReturned`), which is out of the prover's
reach. Every invariant and every action property that a run checks is a theorem.

## Not modelled, and the plan

What the daemon does to its state is modelled, and its safety properties are
proved.

Left out for good:

- the formulas for error probability, path loss and fading (floating point),
  of which the model keeps the cut-offs and the few values the instances need;
- parsing of configuration and table files, of which the model keeps the result
  and the errors; logging; the layout of netlink, API and pcap messages and
  the assertions on it; byte order; failures of malloc();
- setting up sockets; the order in which ready descriptors are served, which is a
  choice in the model;
- blocked groups, linked schedulers and the other parts of the libraries that
  nothing in the repository calls; GET_STATIONS, which only reads;
  SET_VRING_NUM, whose value is a constant of the instances;
- an acknowledgement that no message asked for, which fails an assertion at once
  (`wmediumd.c:1266`) and needs a client that breaks the protocol;
- `wmediumd_gen_config`, a program that prints a file, and the tests.
