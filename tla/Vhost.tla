------------------------------- MODULE Vhost -------------------------------
(***************************************************************************)
(* A vhost-user device (lib/vhost.c): virtqueues in memory shared with the *)
(* driver of a guest, kicks from the driver, calls to it, and the life of  *)
(* the device.  A call that is sent in-band waits for the driver's reply   *)
(* in a nested event loop, in which further kicks, messages and the end of *)
(* the connection are handled.                                             *)
(*                                                                         *)
(* The driver is external.  Indices into the rings are IdxMod = 2^16 wide  *)
(* and wrap; the ring's size divides that.  Descriptors stand for buffers, *)
(* of which a buffer of the receiving queue is filled by                   *)
(* usfstl_vhost_user_dev_notify(), one of the sending queue is handled.    *)
(***************************************************************************)
EXTENDS Integers, Sequences, FiniteSets

CONSTANTS
    MaxQueues,      \* server->max_queues
    InputQueues,    \* server->input_queues
    ReplyAck,       \* calls are in-band and acknowledged, not a call_fd
    AnyTime,        \* the driver disconnects also while the device waits
    KickFds,        \* it kicks by descriptor also under time control
    Num,            \* the size of each queue's rings
    IdxMod,         \* 2^w for the width w of a ring index
    MaxDepth        \* bound: nested callbacks

Queue == 0..(MaxQueues - 1)
Desc(q) == 0..(Num[q] - 1)
Index == 0..(IdxMod - 1)

ASSUME QueueAssumption == MaxQueues \in Nat /\ InputQueues \subseteq Queue
ASSUME RingAssumption ==
    /\ Num \in [Queue -> Nat \ {0}] /\ IdxMod \in Nat
    /\ \A q \in Queue : IdxMod > Num[q] /\ IdxMod % Num[q] = 0
ASSUME SwitchAssumption ==
    ReplyAck \in BOOLEAN /\ AnyTime \in BOOLEAN /\ KickFds \in BOOLEAN
ASSUME BoundAssumption == MaxDepth \in Nat \ {0}

VARIABLES
    \* shared memory, and what the driver knows
    avail_idx, avail_ring, used_idx, used_ring,
    last_used, free,        \* the driver's position and its free descriptors
    kicked,                 \* a kick is on its way
    kick_due,               \* the driver has added a buffer and not kicked yet
    \* struct usfstl_vhost_user_dev_int
    last_avail_idx, enabled, triggered,
    irq_job,                \* the interrupt job is scheduled
    freed,                  \* the device was freed
    scheduler,      \* server->scheduler and server->ctrl are set: a time socket
    fd_kicks,       \* kicks are by descriptor, not messages that wait for a reply
    aborted,        \* an assertion failed
    \* the device's functions on the stack, innermost last, and the request
    \* socket: calls not seen by the driver, replies not read
    stack, calls, replies

rings  == <<avail_idx, avail_ring, used_idx, used_ring, last_used, free>>
driver == <<kicked, kick_due>>
virtqs == <<last_avail_idx, enabled, triggered, irq_job>>
life   == <<freed, scheduler, fd_kicks, aborted>>
vars   == <<rings, driver, virtqs, life, stack, calls, replies>>

Top == stack[Len(stack)]
Pop == SubSeq(stack, 1, Len(stack) - 1)
SetTop(f) == [stack EXCEPT ![Len(stack)] = f]

\* The event loop runs: at top level, in usfstl_vhost_user_send_msg(), or while
\* usfstl_sched_ctrl_sync_from() waits for the time.
Polling == stack # <<>> => Top.at \in {"wait", "sync"}

\* the reply's loop entry has the highest priority, and is taken off the loop
\* when a reply comes
HandlesMessages ==
    /\ ~freed /\ Polling
    /\ replies = 0 \/ (stack # <<>> /\ Top.at = "sync")
-----------------------------------------------------------------------------
(* Buffers.                                                                *)

\* an index is incremented in its own width
After(i) == (i + 1) % IdxMod

\* usfstl_vhost_user_get_virtq_buf() has something to return
HasBuffer(q) == avail_idx[q] # last_avail_idx[q]

\* mutant: returns the position in the ring, not the descriptor
UseBufferByPosition(q) ==
    /\ last_avail_idx' = [last_avail_idx EXCEPT ![q] = After(@)]
    /\ used_ring' = [used_ring EXCEPT ![q][used_idx[q] % Num[q]] =
                                    last_avail_idx[q] % Num[q]]
    /\ used_idx' = [used_idx EXCEPT ![q] = After(@)]
    /\ UNCHANGED <<avail_idx, avail_ring, last_used, free>>

\* It returns the next buffer, which goes to the used ring with
\* usfstl_vhost_user_send_virtq_buf().
UseBuffer(q) ==
    /\ last_avail_idx' = [last_avail_idx EXCEPT ![q] = After(@)]
    /\ used_ring' = [used_ring EXCEPT ![q][used_idx[q] % Num[q]] =
                                    avail_ring[q][last_avail_idx[q] % Num[q]]]
    /\ used_idx' = [used_idx EXCEPT ![q] = After(@)]
    /\ UNCHANGED <<avail_idx, avail_ring, last_used, free>>

\* mutant: a call is only sent if none is outstanding
CallOnce == calls' = IF ReplyAck /\ calls = 0 THEN 1 ELSE calls

\* the end of usfstl_vhost_user_send_virtq_buf(): a call, or a write to call_fd
Call == calls' = IF ReplyAck THEN calls + 1 ELSE calls

\* usfstl_vhost_user_handle_queue(), one turn of its loop
HandleBuffer ==
    /\ stack # <<>> /\ Top.at = "handle" /\ HasBuffer(Top.virtq)
    /\ UseBuffer(Top.virtq)
    /\ Call
    /\ stack' = IF ReplyAck THEN SetTop([Top EXCEPT !.at = "wait"]) ELSE stack
    /\ UNCHANGED <<driver, enabled, triggered, irq_job, life, replies>>

QueueHandled ==
    /\ stack # <<>> /\ Top.at = "handle" /\ ~HasBuffer(Top.virtq)
    /\ stack' = SetTop([Top EXCEPT !.at = "scan", !.virtq = @ + 1])
    /\ UNCHANGED <<rings, driver, virtqs, life, calls, replies>>

\* usfstl_vhost_user_dev_notify(), called by a job
Notify(q) ==
    /\ ~freed /\ stack = <<>> /\ q \notin InputQueues
    /\ enabled[q] /\ HasBuffer(q)
    /\ UseBuffer(q)
    /\ Call
    /\ stack' = IF ReplyAck THEN <<[fn |-> "notify", virtq |-> q, at |-> "wait"]>>
                            ELSE <<>>
    /\ UNCHANGED <<driver, enabled, triggered, irq_job, life, replies>>

\* The reply can be read.  If calls are nested, the inner one gets the reply
\* to the outer one: both only count.
ReadReply ==
    /\ stack # <<>> /\ Top.at = "wait" /\ replies > 0 /\ ~freed
    /\ replies' = replies - 1
    /\ stack' = IF Top.fn = "notify" THEN Pop
                                     ELSE SetTop([Top EXCEPT !.at = "handle"])
    /\ UNCHANGED <<rings, driver, virtqs, life, calls>>
-----------------------------------------------------------------------------
(* Kicks and the interrupt job.                                            *)

CallbackFrame == [fn |-> "callback", virtq |-> 0, at |-> "scan"]
SyncFrame(q)  == [fn |-> "kick", virtq |-> q, at |-> "sync"]

\* mutant: a kick during the callback is left to the callback
VirtqKickOnce(q) ==
    IF q \notin InputQueues
    THEN UNCHANGED <<triggered, stack>>
    ELSE /\ triggered' = [triggered EXCEPT ![q] = TRUE]
         /\ stack' = IF irq_job \/ (~scheduler /\ stack # <<>>) THEN stack
                     ELSE Append(stack, IF scheduler THEN SyncFrame(q) ELSE CallbackFrame)

\* mutant: does not look whether the job is scheduled
VirtqKickAlways(q) ==
    IF q \notin InputQueues
    THEN UNCHANGED <<triggered, stack>>
    ELSE /\ triggered' = [triggered EXCEPT ![q] = TRUE]
         /\ stack' = Append(stack, IF scheduler THEN SyncFrame(q) ELSE CallbackFrame)

\* usfstl_vhost_user_virtq_kick(); without a scheduler it calls the job's
\* callback itself, with one it asks for the time first
VirtqKick(q) ==
    IF q \notin InputQueues
    THEN UNCHANGED <<triggered, stack>>
    ELSE /\ triggered' = [triggered EXCEPT ![q] = TRUE]
         /\ stack' = IF irq_job THEN stack
                     ELSE Append(stack, IF scheduler THEN SyncFrame(q) ELSE CallbackFrame)

\* the time has come: usfstl_sched_add_job(), which asserts that the job is not
\* on the list
SyncDone ==
    /\ stack # <<>> /\ Top.at = "sync"
    /\ stack' = Pop
    /\ irq_job' = TRUE
    /\ aborted' = (aborted \/ irq_job)
    /\ UNCHANGED <<rings, driver, last_avail_idx, enabled, triggered, freed, scheduler,
                   fd_kicks, calls, replies>>

\* a kick, as a message or by the descriptor that is registered for it
Kick(q) ==
    /\ HandlesMessages /\ kicked[q] /\ Len(stack) < MaxDepth
    /\ kicked' = [kicked EXCEPT ![q] = FALSE]
    /\ VirtqKick(q)
    /\ UNCHANGED <<rings, kick_due, last_avail_idx, enabled, irq_job, life, calls,
                   replies>>

\* the scheduler calls usfstl_vhost_user_job_callback()
IrqJob ==
    /\ irq_job /\ stack = <<>>
    /\ irq_job' = FALSE
    /\ stack' = <<CallbackFrame>>
    /\ UNCHANGED <<rings, driver, last_avail_idx, enabled, triggered, life, calls,
                   replies>>

\* the loop of usfstl_vhost_user_job_callback()
ScanQueue ==
    /\ stack # <<>> /\ Top.at = "scan"
    /\ LET q == Top.virtq
       IN \/ /\ q = MaxQueues
             /\ stack' = Pop
             /\ triggered' = triggered
          \/ /\ q < MaxQueues /\ ~triggered[q]
             /\ stack' = SetTop([Top EXCEPT !.virtq = q + 1])
             /\ triggered' = triggered
          \/ /\ q < MaxQueues /\ triggered[q]
             /\ stack' = SetTop([Top EXCEPT !.at = "handle"])
             /\ triggered' = [triggered EXCEPT ![q] = FALSE]
    /\ UNCHANGED <<rings, driver, last_avail_idx, enabled, irq_job, life, calls,
                   replies>>
-----------------------------------------------------------------------------
(* Messages that set up the device, and its end.                           *)

\* VHOST_USER_SET_VRING_ENABLE
SetVringEnable(q, on) ==
    /\ HandlesMessages /\ enabled[q] # on
    /\ enabled' = [enabled EXCEPT ![q] = on]
    /\ UNCHANGED <<rings, driver, last_avail_idx, triggered, irq_job, life, stack,
                   calls, replies>>

\* VHOST_USER_SET_VRING_ADDR of a disabled queue; the driver has cleared the
\* rings before
SetVringAddr(q) ==
    /\ HandlesMessages /\ ~enabled[q]
    /\ last_avail_idx' = [last_avail_idx EXCEPT ![q] = 0]
    /\ avail_idx' = [avail_idx EXCEPT ![q] = 0]
    /\ used_idx' = [used_idx EXCEPT ![q] = 0]
    /\ last_used' = [last_used EXCEPT ![q] = 0]
    /\ free' = [free EXCEPT ![q] = Desc(q)]
    /\ kick_due' = [kick_due EXCEPT ![q] = FALSE]
    /\ UNCHANGED <<avail_ring, used_ring, kicked, enabled, triggered, irq_job, life,
                   stack, calls, replies>>

\* usfstl_vhost_user_dev_free() when the connection ends
DevFree ==
    /\ HandlesMessages /\ (AnyTime \/ stack = <<>>)
    /\ freed' = TRUE
    /\ irq_job' = FALSE
    /\ UNCHANGED <<rings, driver, last_avail_idx, enabled, triggered, scheduler,
                   fd_kicks, aborted, stack, calls, replies>>
-----------------------------------------------------------------------------
(* The driver, external.                                                   *)

AddBuffer(q) ==
    \E d \in free[q] :
        /\ \A e \in free[q] : d <= e
        /\ avail_ring' = [avail_ring EXCEPT ![q][avail_idx[q] % Num[q]] = d]
        /\ avail_idx' = [avail_idx EXCEPT ![q] = After(@)]
        /\ free' = [free EXCEPT ![q] = @ \ {d}]
        /\ kick_due' = [kick_due EXCEPT ![q] = TRUE]
        /\ UNCHANGED <<used_idx, used_ring, last_used, kicked, virtqs, life, stack,
                       calls, replies>>

\* a kick that is a message is handled before the driver goes on
KickInProgress ==
    \/ \E q \in Queue : kicked[q]
    \/ \E i \in 1..Len(stack) :
          stack[i].fn = "kick" \/ (~scheduler /\ stack[i].fn = "callback")

SendKick(q) ==
    /\ kick_due[q]
    /\ ~fd_kicks => ~KickInProgress
    /\ kick_due' = [kick_due EXCEPT ![q] = FALSE]
    /\ kicked' = [kicked EXCEPT ![q] = TRUE]
    /\ UNCHANGED <<rings, virtqs, life, stack, calls, replies>>

TakeUsed(q) ==
    /\ last_used[q] # used_idx[q]
    /\ free' = [free EXCEPT ![q] = @ \cup {used_ring[q][last_used[q] % Num[q]]}]
    /\ last_used' = [last_used EXCEPT ![q] = After(@)]
    /\ UNCHANGED <<avail_idx, avail_ring, used_idx, used_ring, driver, virtqs, life,
                   stack, calls, replies>>

ReplyToCall ==
    /\ calls > 0
    /\ calls' = calls - 1
    /\ replies' = replies + 1
    /\ UNCHANGED <<rings, driver, virtqs, life, stack>>
-----------------------------------------------------------------------------
\* connected, and the addresses of the rings are set
Init ==
    /\ avail_idx = [q \in Queue |-> 0] /\ used_idx = [q \in Queue |-> 0]
    /\ avail_ring = [q \in Queue |-> [i \in Desc(q) |-> 0]]
    /\ used_ring = [q \in Queue |-> [i \in Desc(q) |-> 0]]
    /\ last_used = [q \in Queue |-> 0] /\ free = [q \in Queue |-> Desc(q)]
    /\ kicked = [q \in Queue |-> FALSE] /\ kick_due = [q \in Queue |-> FALSE]
    /\ last_avail_idx = [q \in Queue |-> 0]
    /\ enabled = [q \in Queue |-> FALSE] /\ triggered = [q \in Queue |-> FALSE]
    /\ irq_job = FALSE
    /\ freed = FALSE /\ aborted = FALSE
    /\ scheduler \in BOOLEAN
    /\ fd_kicks \in IF scheduler /\ ~KickFds THEN {FALSE} ELSE BOOLEAN
    /\ stack = <<>> /\ calls = 0 /\ replies = 0

Device == HandleBuffer \/ QueueHandled \/ ReadReply \/ SyncDone \/ IrqJob \/ ScanQueue

\* the driver goes away with the connection
Driver ==
    /\ ~freed
    /\ \/ \E q \in Queue : AddBuffer(q) \/ SendKick(q) \/ TakeUsed(q)
       \/ ReplyToCall

Messages ==
    \/ \E q \in Queue :
          \/ Kick(q) \/ Notify(q) \/ SetVringAddr(q)
          \/ \E on \in BOOLEAN : SetVringEnable(q, on)
    \/ DevFree

Next == Device \/ Driver \/ Messages

Spec == Init /\ [][Next]_vars

(***************************************************************************)
(* The device goes on with what it does; between deliveries the event loop *)
(* gets to handle a kick and the scheduler to run the interrupt job; and   *)
(* the driver kicks after adding buffers and replies to calls.             *)
(***************************************************************************)
FairSpec ==
    /\ Spec
    /\ WF_vars(Device) /\ SF_vars(IrqJob)
    /\ \A q \in Queue : SF_vars(Kick(q)) /\ SF_vars(~freed /\ SendKick(q))
    /\ WF_vars(~freed /\ ReplyToCall)
-----------------------------------------------------------------------------
(* Properties.                                                             *)

Frame == [fn : {"callback", "notify", "kick"}, virtq : 0..MaxQueues,
          at : {"scan", "handle", "wait", "sync"}]

(***************************************************************************)
(* Indices stay within their width, ring entries are descriptors, and only *)
(* a queue of the device is handled.                                       *)
(***************************************************************************)
TypeOK ==
    /\ {avail_idx, used_idx, last_used, last_avail_idx} \subseteq [Queue -> Index]
    /\ \A q \in Queue : {avail_ring[q], used_ring[q]} \subseteq [Desc(q) -> Desc(q)]
    /\ \A q \in Queue : free[q] \subseteq Desc(q)
    /\ {kicked, kick_due, enabled, triggered} \subseteq [Queue -> BOOLEAN]
    /\ {irq_job, freed, scheduler, fd_kicks, aborted} \subseteq BOOLEAN
    /\ stack \in Seq(Frame) /\ calls \in Nat /\ replies \in Nat
    /\ \A i \in 1..Len(stack) : stack[i].at # "scan" => stack[i].virtq \in Queue

Between(i, j) == (j - i) % IdxMod

Entries(ring, num, i, j) ==
    {ring[((i + k) % IdxMod) % num] : k \in 0..(Between(i, j) - 1)}

Available(q) == Entries(avail_ring[q], Num[q], last_avail_idx[q], avail_idx[q])
Used(q)      == Entries(used_ring[q], Num[q], last_used[q], used_idx[q])

(***************************************************************************)
(* No buffer is lost or returned twice: the descriptors that wait in the   *)
(* available ring, those the driver has not yet taken from the used ring   *)
(* and its free ones are all of them, each once, also when the indices     *)
(* wrap and when queues are handled in nested callbacks.                   *)
(***************************************************************************)
BuffersConserved ==
    \A q \in Queue :
        /\ Available(q) \cup Used(q) \cup free[q] = Desc(q)
        /\ Between(last_avail_idx[q], avail_idx[q]) + Between(last_used[q], used_idx[q])
              + Cardinality(free[q]) = Num[q]

\* the callback at position i of the stack has yet to look at queue q
WillScan(i, q) ==
    /\ stack[i].fn = "callback"
    /\ stack[i].virtq < q \/ (stack[i].virtq = q /\ stack[i].at = "scan")

Handles(i, q) == stack[i].fn = "callback" /\ stack[i].virtq = q /\ stack[i].at # "scan"

(***************************************************************************)
(* No kick is lost: while an input queue has buffers, the driver has still *)
(* to kick, a kick is on its way, the queue is being handled, or it is     *)
(* triggered and a callback, running, scheduled or about to be scheduled,  *)
(* will see that.                                                          *)
(***************************************************************************)
KickNotLost ==
    \A q \in InputQueues :
        (~freed /\ HasBuffer(q)) =>
            \/ kick_due[q] \/ kicked[q]
            \/ \E i \in 1..Len(stack) : Handles(i, q)
            \/ triggered[q] /\ (irq_job \/ \E i \in 1..Len(stack) :
                                              WillScan(i, q) \/ stack[i].at = "sync")

(***************************************************************************)
(* Every nested wait has its own reply coming, no more and no less, so     *)
(* that it does not matter that the inner of two waits reads the reply to  *)
(* the outer call.                                                         *)
(***************************************************************************)
RepliesCounted ==
    Cardinality({i \in 1..Len(stack) : stack[i].at = "wait"}) = calls + replies

(***************************************************************************)
(* A buffer that the driver sends comes back, or the queue is reset.       *)
(***************************************************************************)
BufferReturned ==
    \A q \in InputQueues : \A d \in Desc(q) :
        d \in Available(q) ~> (freed \/ d \notin Available(q))

(***************************************************************************)
(* "we may have to handle other simulation (time) messages while waiting": *)
(* only those, so that the device that a waiting function uses is there    *)
(* when the wait ends.                                                     *)
(***************************************************************************)
DeviceStays == freed => stack = <<>>

(***************************************************************************)
(* The interrupt job is added once: it is not scheduled when the kick      *)
(* looks, and none of the messages handled while the kick waits for the    *)
(* time schedules it, as long as the driver waits for its kick's reply.    *)
(***************************************************************************)
JobAddedOnce == ~aborted

(***************************************************************************)
(* A kick leads to one interrupt: it is not lost between the flag, the job *)
(* and the callbacks in progress, and the job is not added a second time   *)
(* by a kick handled in between.                                           *)
(***************************************************************************)
KicksInv == TypeOK /\ KickNotLost /\ JobAddedOnce
=============================================================================
