------------------------------ MODULE Clients ------------------------------
(***************************************************************************)
(* The clients of the medium and the callbacks that send to them.          *)
(*                                                                         *)
(* wmediumd_notify_frame_start() and wmediumd_deliver_frame() walk over    *)
(* ctx->clients with list_for_each_entry_safe().  They run the event loop  *)
(* nested wherever they wait: for an API client's acknowledgement, for the *)
(* driver's reply to an in-band call, and under time control (ctx->ctrl)   *)
(* for the calendar.  The handlers that run there connect, register and    *)
(* remove clients in the middle of the walk, and some of them wait in the  *)
(* event loop themselves: a message with a frame, and a virtqueue that is  *)
(* kicked.  Scheduler jobs do not run in a nested loop, there is at most   *)
(* one callback on the C stack and it is below the handlers.               *)
(*                                                                         *)
(* Time is left out: any queued frame may be the next one (module Medium   *)
(* has the order), and a wait may end at any time.                         *)
(***************************************************************************)
EXTENDS Integers, Sequences, FiniteSets, SequencesExt

CONSTANTS
    Api,            \* the clients on the API socket
    Vhost,          \* the clients on the vhost-user socket
    Kernel,         \* ctx->clients as main() leaves it: ctx->nl_client or none
    Station,
    None,           \* the NULL pointer
    End,            \* &ctx->clients taken for an entry: the walk is over
    Stray,          \* &ctx->clients_to_free taken for an entry
    Departures,     \* when clients leave: "any", "settled", "safe" (MayLeave)
    Ctrl,           \* the values of ctx->ctrl to look at
    Flags,          \* the flag sets clients ask for
    MaxFrames,      \* bound: the number of frames
    MaxDepth        \* bound: the number of handlers on the stack

Members(list) == {list[i] : i \in 1..Len(list)}

Netlink == Members(Kernel)
Client == Api \cup Vhost \cup Netlink

ASSUME ClientAssumption ==
    /\ IsFiniteSet(Api) /\ IsFiniteSet(Vhost)
    /\ Api \cap Vhost = {} /\ (Api \cup Vhost) \cap Netlink = {}
    /\ Kernel = <<>> \/ \E k \in Netlink : Kernel = <<k>>
ASSUME PointerAssumption ==
    /\ {None, End, Stray} \cap Client = {} /\ None \notin Station
    /\ None # End /\ End # Stray
ASSUME DeparturesAssumption == Departures \in {"any", "settled", "safe"}
ASSUME CtrlAssumption == Ctrl \subseteq BOOLEAN
ASSUME FlagsAssumption == Flags \subseteq SUBSET {"notify", "rx_all"}
ASSUME BoundAssumption == MaxFrames \in Nat /\ MaxDepth \in Nat

VARIABLES
    clients,            \* ctx->clients
    clients_to_free,    \* ctx->clients_to_free
    connected,          \* the clients whose socket is in the event loop
    flags,              \* client->flags
    wait_for_ack,       \* client->wait_for_ack
    need_start_notify,  \* ctx->need_start_notify
    station_client,     \* station->client
    frame,              \* the frames that have been sent to the medium
    ctrl,               \* ctx->ctrl: time is under external control
    cb,                 \* the callback on the stack
    stack,              \* the handlers on the stack, above the callback
    got,                \* copies the walk handed to each client
    steady              \* clients on the list since the walk began for which
                        \* nothing changed that decides if they are told

vars == <<clients, clients_to_free, connected, flags, wait_for_ack,
          need_start_notify, station_client, frame, ctrl, cb, stack, got,
          steady>>

client_vars == <<clients, clients_to_free, connected, flags,
                 need_start_notify, station_client>>

FrameId == 1..MaxFrames
NoFrame == [state |-> "none", sender |-> None, src |-> None, start |-> FALSE]

Gone == [NoFrame EXCEPT !.state = "gone"]

\* an adding frame has its source and its jobs but is on no queue yet
FrameRecord ==
    [state : {"none", "adding", "queued", "delivering", "gone"},
     sender : Station \cup {None}, src : Client \cup {None}, start : BOOLEAN]

(* The local variables of a callback: todo are the receivers still to      *)
(* come; it waits for the calendar ("sync"), or for the client waiting:    *)
(* its acknowledgement ("ack") or its driver's reply ("call").             *)
CallbackRecord ==
    [phase : {"idle", "notify", "deliver", "clone", "info", "done",
              "undefined"},
     frame : {0} \cup FrameId, dst : Station \cup {None},
     todo : SUBSET Station, cursor : Client \cup {End, Stray},
     tmp : Client \cup {End, Stray},
     wait : {"none", "sync", "ack", "call"}, waiting : Client \cup {None}]

NoCallback ==
    [phase |-> "idle", frame |-> 0, dst |-> None, todo |-> {},
     cursor |-> End, tmp |-> End, wait |-> "none", waiting |-> None]

(* A handler of client's socket or virtqueue.  at is where it is:          *)
(*   "sync"     WMEDIUMD_MSG_NETLINK was read; sync_from()                 *)
(*   "next"     about to process a netlink message or the next buffer      *)
(*   "request"  queue_frame() adds the jobs of frame                       *)
(*   "reply"    the message is processed                                   *)
(*   "call"     the buffer goes back: sync_to(), the in-band call          *)
(*   "kick"     a kick under time control: sync_from(), adding irq_job     *)
HandlerRecord ==
    [client : Client, frame : {0} \cup FrameId,
     at : {"sync", "next", "request", "reply", "call", "kick"}]
-----------------------------------------------------------------------------
(* Linked lists.                                                           *)

\* list_add(): insert behind the head
ListAdd(list, c) == <<c>> \o list

PosOf(list, c) == CHOOSE k \in 1..Len(list) : list[k] = c

\* list_del(), and list_empty() of the entry before it
ListDel(list, c) ==
    IF c \in Members(list) THEN RemoveAt(list, PosOf(list, c)) ELSE list

\* the entry that follows c on a list with this head
Follows(list, c, head) ==
    IF PosOf(list, c) = Len(list) THEN head ELSE list[PosOf(list, c) + 1]

\* list_next_entry(): on ctx->clients, on ctx->clients_to_free, or linked to
\* itself by list_del_init()
NextEntry(c) ==
    CASE c = End                      -> End
      [] c \in Members(clients)         -> Follows(clients, c, End)
      [] c \in Members(clients_to_free) -> Follows(clients_to_free, c, Stray)
      [] OTHER                          -> c

FirstEntry == IF clients = <<>> THEN End ELSE clients[1]

\* the beginning of list_for_each_entry_safe()
WalkFrom(r) == [r EXCEPT !.cursor = FirstEntry, !.tmp = NextEntry(FirstEntry)]

\* its step: pos = n, n = list_next_entry(n)
Step(r) == [r EXCEPT !.cursor = r.tmp,
                     !.tmp = IF r.tmp = Stray THEN Stray ELSE NextEntry(r.tmp),
                     !.wait = "none", !.waiting = None]
-----------------------------------------------------------------------------
(* The event loop, at the top level or nested in a wait.                   *)

Top == stack[Len(stack)]
Popped == SubSeq(stack, 1, Len(stack) - 1)
Push(c, at) ==
    /\ Len(stack) < MaxDepth
    /\ stack' = Append(stack, [client |-> c, frame |-> 0, at |-> at])
TopAt(at, f) ==
    [stack EXCEPT
        ![Len(stack)] = [client |-> Top.client, frame |-> f, at |-> at]]

Waits(h) == h.at = "call" \/ (ctrl /\ h.at \in {"sync", "request", "kick"})

Polling ==
    \/ stack # <<>> /\ Waits(Top)
    \/ /\ stack = <<>>
       /\ \/ cb.phase = "idle"
          \/ cb.wait = "sync" /\ ctrl
          \/ cb.wait = "ack" /\ wait_for_ack[cb.waiting]
          \/ cb.wait = "call"

\* the state in which calloc() leaves a new client
Fresh(c) ==
    /\ c \notin connected /\ c \notin Members(clients_to_free)
    /\ connected' = connected \cup {c}
    /\ flags' = [flags EXCEPT ![c] = {}]
    /\ wait_for_ack' = [wait_for_ack EXCEPT ![c] = FALSE]

\* wmediumd_api_connected()
ApiConnected(c) ==
    /\ Polling /\ c \in Api
    /\ Fresh(c)
    /\ UNCHANGED <<clients, clients_to_free, need_start_notify, station_client,
                   frame, ctrl, cb, stack, got, steady>>

\* wmediumd_vu_connected()
VuConnected(c) ==
    /\ Polling /\ c \in Vhost
    /\ Fresh(c)
    /\ clients' = ListAdd(clients, c)
    /\ UNCHANGED <<clients_to_free, need_start_notify, station_client, frame,
                   ctrl, cb, stack, got, steady>>

(* When client c may leave, with these handlers on the stack.  Settled:    *)
(* not between its message and the end of queue_frame(), when the medium   *)
(* is about to store a pointer to it.  Safe: also not while a handler of   *)
(* its own is on the stack, while it is the entry that a walk saved or the *)
(* device that a callback calls, nor while a frame of its own is announced *)
(* or delivered.                                                           *)
Stores(h, c) ==
    \/ h.at = "sync" /\ h.client = c
    \/ h.at = "request" /\ frame[h.frame].src = c

MayUnregister(c) == Departures # "safe" \/ c # cb.tmp

MayLeave(c, handlers) ==
    /\ Departures # "any" => \A h \in Members(handlers) : ~Stores(h, c)
    /\ Departures = "safe" =>
          /\ \A h \in Members(handlers) : h.client # c
          /\ c # cb.tmp
          /\ cb.wait = "call" => c # cb.waiting
          /\ cb.phase \in {"notify", "clone"} \/ cb.wait = "sync" =>
                c # frame[cb.frame].src

\* WMEDIUMD_MSG_REGISTER
Register(c) ==
    /\ Polling /\ c \in connected \cap Api
    /\ c \notin Members(clients)
    /\ clients' = ListAdd(clients, c)
    /\ UNCHANGED <<clients_to_free, connected, flags, wait_for_ack,
                   need_start_notify, station_client, frame, ctrl, cb, stack,
                   got, steady>>

\* WMEDIUMD_MSG_UNREGISTER
Unregister(c) ==
    /\ Polling /\ c \in connected \cap Api
    /\ c \in Members(clients) /\ MayUnregister(c)
    /\ clients' = ListDel(clients, c)
    /\ steady' = steady \ {c}
    /\ UNCHANGED <<clients_to_free, connected, flags, wait_for_ack,
                   need_start_notify, station_client, frame, ctrl, cb, stack,
                   got>>

Counts(fs) == IF "notify" \in fs THEN 1 ELSE 0

\* mutant: counts the new flags only
SetControlCountsUp(c, fs) ==
    /\ Polling /\ c \in connected \cap Api
    /\ need_start_notify' = need_start_notify + Counts(fs)
    /\ flags' = [flags EXCEPT ![c] = fs]
    /\ steady' = steady \ {c}
    /\ UNCHANGED <<clients, clients_to_free, connected, wait_for_ack,
                   station_client, frame, ctrl, cb, stack, got>>

\* WMEDIUMD_MSG_SET_CONTROL
SetControl(c, fs) ==
    /\ Polling /\ c \in connected \cap Api
    /\ need_start_notify' = need_start_notify - Counts(flags[c]) + Counts(fs)
    /\ flags' = [flags EXCEPT ![c] = fs]
    /\ steady' = steady \ {c}
    /\ UNCHANGED <<clients, clients_to_free, connected, wait_for_ack,
                   station_client, frame, ctrl, cb, stack, got>>

\* mutant: only registered clients are listened to
AckRegistered(c) ==
    /\ Polling /\ c \in connected
    /\ wait_for_ack[c] /\ c \in Members(clients)
    /\ wait_for_ack' = [wait_for_ack EXCEPT ![c] = FALSE]
    /\ UNCHANGED <<client_vars, frame, ctrl, cb, stack, got, steady>>

\* WMEDIUMD_MSG_ACK of a message the client was sent
Ack(c) ==
    /\ Polling /\ c \in connected
    /\ wait_for_ack[c]
    /\ wait_for_ack' = [wait_for_ack EXCEPT ![c] = FALSE]
    /\ UNCHANGED <<client_vars, frame, ctrl, cb, stack, got, steady>>

(* wmediumd_remove_client(), and the socket leaves the event loop; only    *)
(* frames that are on a queue are freed.                                   *)
remove_client(c) ==
    /\ connected' = connected \ {c}
    /\ clients' = ListDel(clients, c)
    /\ need_start_notify' = need_start_notify - Counts(flags[c])
    /\ station_client' = [s \in Station |->
          IF station_client[s] = c THEN None ELSE station_client[s]]
    /\ frame' = [f \in FrameId |->
          IF frame[f].state = "queued" /\ frame[f].src = c
          THEN Gone ELSE frame[f]]
    /\ wait_for_ack' = [wait_for_ack EXCEPT ![c] = FALSE]
    /\ steady' = IF cb.dst # None /\ station_client[cb.dst] = c
                 THEN {} ELSE steady \ {c}
    /\ UNCHANGED <<flags, ctrl, cb, got>>

\* mutant: frees the client at once
RemoveClientFrees(c) ==
    /\ Polling /\ c \in connected \ Netlink /\ MayLeave(c, stack)
    /\ remove_client(c)
    /\ UNCHANGED <<clients_to_free, stack>>

\* the client's socket is closed or it breaks the protocol
RemoveClient(c) ==
    /\ Polling /\ c \in connected \ Netlink /\ MayLeave(c, stack)
    /\ remove_client(c)
    /\ clients_to_free' = ListAdd(clients_to_free, c)
    /\ UNCHANGED stack

\* the end of a round of the main loop in which no job was due
FreeClients ==
    /\ cb.phase = "idle" /\ stack = <<>> /\ clients_to_free # <<>>
    /\ clients_to_free' = <<>>
    /\ UNCHANGED <<clients, connected, flags, wait_for_ack, need_start_notify,
                   station_client, frame, ctrl, cb, stack, got, steady>>
-----------------------------------------------------------------------------
(* Handlers that run the event loop themselves.  The one on top proceeds   *)
(* when its wait is over, which may be at once.                            *)

\* WMEDIUMD_MSG_NETLINK, or a message of the kernel
NetlinkMessage(c) ==
    /\ Polling /\ c \in connected \ Vhost
    /\ Push(c, IF c \in Api THEN "sync" ELSE "next")
    /\ UNCHANGED <<client_vars, wait_for_ack, frame, ctrl, cb, got, steady>>

\* usfstl_vhost_user_virtq_kick(): without a scheduler the queue is handled
\* at once
Kick(c) ==
    /\ Polling /\ c \in connected \cap Vhost
    /\ Push(c, IF ctrl THEN "kick" ELSE "next")
    /\ UNCHANGED <<client_vars, wait_for_ack, frame, ctrl, cb, got, steady>>

\* irq_job runs usfstl_vhost_user_job_callback() from the main loop, for a
\* device that was kicked some time ago (the kicks are module Vhost's)
IrqJob(c) ==
    /\ ctrl /\ cb.phase = "idle" /\ stack = <<>>
    /\ c \in connected \cap Vhost
    /\ Push(c, "next")
    /\ UNCHANGED <<client_vars, wait_for_ack, frame, ctrl, cb, got, steady>>

(* _process_messages() for a frame of station s, whose client is set once. *)
(* The code does not look whether the client of the message has been       *)
(* removed in the meantime.                                                *)
ProcessFrame(s) ==
    /\ stack # <<>> /\ Top.at \in {"sync", "next"}
    /\ \E f \in FrameId :
          /\ frame[f].state = "none"
          /\ \A g \in 1..(f - 1) : frame[g].state # "none"
          /\ LET src == IF station_client[s] = None THEN Top.client
                                                   ELSE station_client[s]
             IN /\ station_client' = [station_client EXCEPT ![s] = src]
                /\ frame' = [frame EXCEPT ![f] =
                      [state |-> "adding", sender |-> s, src |-> src,
                       start |-> need_start_notify # 0]]
          /\ stack' = TopAt("request", f)
    /\ steady' = IF cb.dst = s /\ station_client' # station_client
                 THEN {} ELSE steady
    /\ UNCHANGED <<clients, clients_to_free, connected, flags, wait_for_ack,
                   need_start_notify, ctrl, cb, got>>

\* the message holds no frame, or one of no known station
ProcessOther ==
    /\ stack # <<>> /\ Top.at \in {"sync", "next"}
    /\ stack' = TopAt("reply", 0)
    /\ UNCHANGED <<client_vars, wait_for_ack, frame, ctrl, cb, got, steady>>

\* the end of queue_frame(): both jobs are scheduled, list_add_tail()
QueueFrame ==
    /\ stack # <<>> /\ Top.at = "request"
    /\ frame' = [frame EXCEPT ![Top.frame].state = "queued"]
    /\ stack' = TopAt("reply", 0)
    /\ UNCHANGED <<client_vars, wait_for_ack, ctrl, cb, got, steady>>

\* the handler of a netlink message returns: the response is written
Respond ==
    /\ stack # <<>> /\ Top.at = "reply" /\ Top.client \notin Vhost
    /\ stack' = Popped
    /\ UNCHANGED <<client_vars, wait_for_ack, frame, ctrl, cb, got, steady>>

\* the response to an API client cannot be written
RespondFails ==
    /\ stack # <<>> /\ Top.at = "reply"
    /\ Top.client \in Api \cap connected /\ MayLeave(Top.client, Popped)
    /\ remove_client(Top.client)
    /\ clients_to_free' = ListAdd(clients_to_free, Top.client)
    /\ stack' = Popped

\* usfstl_vhost_user_send_virtq_buf() after a buffer
ReturnBuffer ==
    /\ stack # <<>> /\ Top.at = "reply" /\ Top.client \in Vhost \cap connected
    /\ stack' = TopAt("call", 0)
    /\ UNCHANGED <<client_vars, wait_for_ack, frame, ctrl, cb, got, steady>>

\* the driver's reply was read
Called ==
    /\ stack # <<>> /\ Top.at = "call" /\ Top.client \in connected
    /\ stack' = TopAt("next", 0)
    /\ UNCHANGED <<client_vars, wait_for_ack, frame, ctrl, cb, got, steady>>

\* no buffer is left, or irq_job is scheduled
VirtqReturns ==
    /\ stack # <<>> /\ Top.client \in Vhost \cap connected
    /\ Top.at \in {"next", "kick"}
    /\ stack' = Popped
    /\ UNCHANGED <<client_vars, wait_for_ack, frame, ctrl, cb, got, steady>>
-----------------------------------------------------------------------------
(* The callbacks.  They run undisturbed except where they wait.            *)

\* bound: copies are counted up to two, one too many
Copied(c) == [got EXCEPT ![c] = IF @ < 2 THEN @ + 1 ELSE @]

Returned == stack = <<>>
Running ==
    Returned /\ cb.phase \notin {"idle", "undefined"} /\ cb.wait = "none"

\* the history of a walk ends with it
ForgetWalk == got' = [c \in Client |-> 0] /\ steady' = {}

(* wmediumd_notify_frame_start() for frame f.  (The start jobs of frames   *)
(* that are gone are the subject of module Medium.)                        *)
NotifyFrameStart(f) ==
    /\ Returned /\ cb.phase = "idle"
    /\ frame[f].state = "queued" /\ frame[f].start
    /\ frame' = [frame EXCEPT ![f].start = FALSE]
    /\ cb' = [NoCallback EXCEPT !.phase = "notify", !.frame = f, !.wait = "sync"]
    /\ UNCHANGED <<client_vars, wait_for_ack, ctrl, stack, got, steady>>

(* wmediumd_deliver_frame() for frame f takes it off its queue; todo are   *)
(* the stations that receive it.                                           *)
DeliverFrame(f) ==
    /\ Returned /\ cb.phase = "idle"
    /\ frame[f].state = "queued" /\ ~frame[f].start
    /\ frame' = [frame EXCEPT ![f].state = "delivering"]
    /\ \E stations \in SUBSET (Station \ {frame[f].sender}) :
          cb' = [NoCallback EXCEPT !.phase = "deliver", !.frame = f,
                                   !.todo = stations]
    /\ UNCHANGED <<client_vars, wait_for_ack, ctrl, stack, got, steady>>

\* send_cloned_frame_msg() to the next receiving station
CloneTo(s) ==
    /\ Running /\ cb.phase = "deliver" /\ s \in cb.todo
    /\ cb' = [cb EXCEPT !.phase = "clone", !.dst = s, !.todo = cb.todo \ {s},
                        !.wait = "sync"]
    /\ UNCHANGED <<client_vars, wait_for_ack, frame, ctrl, stack, got, steady>>

\* both functions start to walk after sync_to(), if time is controlled
BeginWalk ==
    /\ Returned /\ cb.wait = "sync" /\ cb.phase \in {"notify", "clone"}
    /\ cb' = WalkFrom([cb EXCEPT !.wait = "none"])
    /\ got' = [c \in Client |-> 0]
    /\ steady' = Members(clients)
    /\ UNCHANGED <<client_vars, wait_for_ack, frame, ctrl, stack>>

\* mutant: frames for a station without a client reach only monitors
WantsOwnerOnly(c) ==
    IF cb.phase = "notify" THEN "notify" \in flags[c]
    ELSE "rx_all" \in flags[c] \/ station_client[cb.dst] = c

\* the conditions of the two walks
Wants(c) ==
    IF cb.phase = "notify" THEN "notify" \in flags[c]
    ELSE "rx_all" \in flags[c] \/ station_client[cb.dst] \in {None, c}

Walking ==
    Running /\ cb.phase \in {"notify", "clone"} /\ cb.cursor \notin {End, Stray}

Skip ==
    /\ Walking /\ ~Wants(cb.cursor)
    /\ cb' = Step(cb)
    /\ UNCHANGED <<client_vars, wait_for_ack, frame, ctrl, stack, got, steady>>

(* wmediumd_send_to_client(), or write() of the start notification, to an  *)
(* API client.  A failed write() returns -1, which is not less than an     *)
(* unsigned length: the code goes on to wait even if the client is gone.   *)
SendApi ==
    /\ Walking /\ Wants(cb.cursor) /\ cb.cursor \in Api
    /\ cb.phase = "notify" => frame[cb.frame].state # "gone"
    /\ got' = Copied(cb.cursor)
    /\ wait_for_ack' = [wait_for_ack EXCEPT ![cb.cursor] = TRUE]
    /\ cb' = [cb EXCEPT !.wait = "ack", !.waiting = cb.cursor]
    /\ UNCHANGED <<client_vars, frame, ctrl, stack, steady>>

(* usfstl_vhost_user_dev_notify(): sync_to(), and the event loop until the *)
(* driver replies to the in-band call.  (With an event descriptor, or if   *)
(* the ring is not enabled or has no buffer, the wait is over at once.)    *)
SendVhost ==
    /\ Walking /\ Wants(cb.cursor) /\ cb.cursor \in Vhost \cap connected
    /\ got' = Copied(cb.cursor)
    /\ cb' = [cb EXCEPT !.wait = "call", !.waiting = cb.cursor]
    /\ UNCHANGED <<client_vars, wait_for_ack, frame, ctrl, stack, steady>>

\* nl_send_auto_complete() does not wait
SendKernel ==
    /\ Walking /\ Wants(cb.cursor) /\ cb.cursor \in Netlink
    /\ got' = Copied(cb.cursor)
    /\ cb' = Step(cb)
    /\ UNCHANGED <<client_vars, wait_for_ack, frame, ctrl, stack, steady>>

\* the while loop of wmediumd_wait_for_client_ack() ends, or that of
\* usfstl_vhost_user_send_msg()
WaitEnds ==
    /\ Returned
    /\ \/ cb.wait = "ack" /\ ~wait_for_ack[cb.waiting]
       \/ cb.wait = "call" /\ cb.waiting \in connected
    /\ cb' = IF cb.phase = "info"
             THEN [cb EXCEPT !.phase = "done", !.wait = "none", !.waiting = None]
             ELSE Step(cb)
    /\ UNCHANGED <<client_vars, wait_for_ack, frame, ctrl, stack, got, steady>>

\* the walk of send_cloned_frame_msg() is over
CloneEnds ==
    /\ Running /\ cb.phase = "clone" /\ cb.cursor = End
    /\ cb' = [cb EXCEPT !.phase = "deliver", !.dst = None, !.tmp = End]
    /\ ForgetWalk
    /\ UNCHANGED <<client_vars, wait_for_ack, frame, ctrl, stack>>

\* send_tx_info_frame_nl(): sync_to(), if time is controlled
TxInfo ==
    /\ Running /\ cb.phase = "deliver" /\ cb.todo = {}
    /\ cb' = [cb EXCEPT !.phase = "info", !.wait = "sync"]
    /\ UNCHANGED <<client_vars, wait_for_ack, frame, ctrl, stack, got, steady>>

\* the clients whose memory has not been freed
Live == connected \cup Members(clients_to_free)

\* wmediumd_send_to_client() to the source of the frame
SendTxInfo ==
    /\ Returned /\ cb.phase = "info" /\ cb.wait = "sync"
    /\ LET src == frame[cb.frame].src
       IN \/ /\ src \in Api \cap Live
             /\ wait_for_ack' = [wait_for_ack EXCEPT ![src] = TRUE]
             /\ cb' = [cb EXCEPT !.wait = "ack", !.waiting = src]
          \/ /\ src \in Vhost \cap connected
             /\ cb' = [cb EXCEPT !.wait = "call", !.waiting = src]
             /\ UNCHANGED wait_for_ack
          \/ /\ src \in Netlink
             /\ cb' = [cb EXCEPT !.phase = "done", !.wait = "none"]
             /\ UNCHANGED wait_for_ack
    /\ UNCHANGED <<client_vars, frame, ctrl, stack, got, steady>>

\* The callback returns; a delivered frame is freed, and so are the removed
\* clients at the end of the round of the main loop.
CallbackEnds ==
    /\ Running
    /\ \/ cb.phase = "notify" /\ cb.cursor = End /\ UNCHANGED frame
       \/ /\ cb.phase = "done"
          /\ frame' = [frame EXCEPT ![cb.frame] = Gone]
    /\ cb' = NoCallback
    /\ clients_to_free' = <<>>
    /\ ForgetWalk
    /\ UNCHANGED <<clients, connected, flags, wait_for_ack, need_start_notify,
                   station_client, ctrl, stack>>
-----------------------------------------------------------------------------
(* The daemon aborts, or its behaviour is undefined.                       *)

\* A handler on top goes on with a device that was freed, or its response
\* fails after its client was removed: usfstl_loop_unregister() follows the
\* NULL pointers of an entry that is on no list.
HandlerFaults ==
    /\ stack # <<>> /\ Top.client \notin connected
    /\ \/ Top.client \in Vhost /\ Top.at \in {"reply", "call", "kick"}
       \/ Top.client \in Api /\ Top.at = "reply"

\* A callback takes the head of clients_to_free for a client, notifies a
\* device that was freed, reads a frame or a client that was freed, or
\* returns from the wait of a call to a device that was freed.
CallbackFaults ==
    \/ Running /\ cb.cursor = Stray
    \/ /\ Walking /\ Wants(cb.cursor)
       /\ \/ cb.cursor \in Vhost \ connected
          \/ cb.phase = "notify" /\ frame[cb.frame].state = "gone"
    \/ /\ Returned /\ cb.phase = "info" /\ cb.wait = "sync"
       /\ LET src == frame[cb.frame].src
          IN src \in Vhost \ connected \/ src \notin Live
    \/ Returned /\ cb.wait = "call" /\ cb.waiting \notin connected

\* a driver hangs up instead of replying: USFSTL_ASSERT_EQ() on the call
CallFaults ==
    /\ Departures # "safe"
    /\ \/ stack # <<>> /\ Top.at = "call"
       \/ Returned /\ cb.wait = "call"

Undefined ==
    /\ HandlerFaults \/ CallbackFaults \/ CallFaults
    /\ cb' = [NoCallback EXCEPT !.phase = "undefined"]
    /\ stack' = <<>>
    /\ UNCHANGED <<client_vars, wait_for_ack, frame, ctrl, got, steady>>
-----------------------------------------------------------------------------
Init ==
    /\ clients = Kernel /\ clients_to_free = <<>>
    /\ connected = Netlink
    /\ flags = [c \in Client |-> {}]
    /\ wait_for_ack = [c \in Client |-> FALSE]
    /\ need_start_notify = 0
    /\ station_client = [s \in Station |-> None]
    /\ frame = [f \in FrameId |-> NoFrame]
    /\ ctrl \in Ctrl
    /\ cb = NoCallback /\ stack = <<>>
    /\ got = [c \in Client |-> 0]
    /\ steady = {}

Handler(c) ==
    \/ ApiConnected(c) \/ VuConnected(c)
    \/ Register(c) \/ Unregister(c)
    \/ \E fs \in Flags : SetControl(c, fs)
    \/ Ack(c) \/ RemoveClient(c)
    \/ NetlinkMessage(c) \/ Kick(c) \/ IrqJob(c)

Proceed ==
    \/ \E s \in Station : ProcessFrame(s)
    \/ ProcessOther \/ QueueFrame \/ Respond \/ RespondFails
    \/ ReturnBuffer \/ Called \/ VirtqReturns

Callback ==
    \/ \E s \in Station : CloneTo(s)
    \/ BeginWalk \/ Skip \/ SendApi \/ SendVhost \/ SendKernel \/ WaitEnds
    \/ CloneEnds \/ TxInfo \/ SendTxInfo \/ CallbackEnds

Next ==
    \/ \E c \in Client : Handler(c)
    \/ FreeClients
    \/ Proceed
    \/ \E f \in FrameId : NotifyFrameStart(f) \/ DeliverFrame(f)
    \/ Callback
    \/ Undefined

Spec == Init /\ [][Next]_vars

(***************************************************************************)
(* Fairness: a callback that may go on between two handlers does, and so   *)
(* does the handler on top (the calendar and the drivers answer); a driver *)
(* lets its queue run empty at times; a client that was sent a message     *)
(* acknowledges it or its connection ends.                                 *)
(***************************************************************************)
FairSpec ==
    /\ Spec
    /\ SF_vars(Callback)
    /\ \A d \in 1..MaxDepth : /\ SF_vars(Len(stack) = d /\ Proceed)
                              /\ SF_vars(Len(stack) = d /\ VirtqReturns)
    /\ \A c \in Api : SF_vars(Ack(c) \/ RemoveClient(c))
-----------------------------------------------------------------------------
(* Properties.                                                             *)

(***************************************************************************)
(* Clients, frames and the callback have their types; the counter of       *)
(* clients to notify, a signed int in the code, never goes below zero.     *)
(***************************************************************************)
TypeOK ==
    /\ clients \in Seq(Client) /\ clients_to_free \in Seq(Client)
    /\ connected \subseteq Client
    /\ flags \in [Client -> SUBSET {"notify", "rx_all"}]
    /\ wait_for_ack \in [Client -> BOOLEAN]
    /\ need_start_notify \in Nat
    /\ station_client \in [Station -> Client \cup {None}]
    /\ frame \in [FrameId -> FrameRecord]
    /\ ctrl \in BOOLEAN
    /\ cb \in CallbackRecord
    /\ stack \in Seq(HandlerRecord)
    /\ got \in [Client -> 0..2]
    /\ steady \subseteq Client

(***************************************************************************)
(* need_start_notify counts the connected clients that asked for           *)
(* TX_START, whatever order of SET_CONTROL, UNREGISTER and disconnects led *)
(* there: queue_frame() relies on it to schedule the notification.         *)
(***************************************************************************)
NotifyCounted ==
    need_start_notify = Cardinality({c \in connected : "notify" \in flags[c]})

(***************************************************************************)
(* No client that is still used has been freed: not the entries a walk     *)
(* holds, nor the source of a frame, nor a station's client, nor the one   *)
(* whose message is being handled.  A removed client is only freed at the  *)
(* end of a main loop round.                                               *)
(***************************************************************************)
NoDanglingClient ==
    /\ cb.phase \in {"notify", "clone"} =>
          {cb.cursor, cb.tmp} \subseteq Live \cup {End, Stray}
    /\ cb.phase \in {"deliver", "clone", "info"} =>
          frame[cb.frame].src \in Live
    /\ \A f \in FrameId : frame[f].state \in {"adding", "queued"} =>
          frame[f].src \in connected
    /\ \A s \in Station : station_client[s] \in connected \cup {None}
    /\ \A h \in Members(stack) : h.client \in Live
    /\ Members(clients) \subseteq connected

(***************************************************************************)
(* Whatever clients do, also those that leave in the middle of a walk, and *)
(* of a wait in their own handler unless the medium is about to store a    *)
(* pointer to them: the variables keep their types, the counter included,  *)
(* and nothing that is in use has been freed.                              *)
(***************************************************************************)
ClientsInv == TypeOK /\ NoDanglingClient

(***************************************************************************)
(* "iterate over list of given type safe against removal of list entry":   *)
(* the entry that a walk goes on with is on the list that it walks.        *)
(***************************************************************************)
WalkStaysOnList ==
    cb.phase \in {"notify", "clone"} =>
        {cb.tmp} \cap (Client \cup {Stray}) \subseteq Members(clients)

(***************************************************************************)
(* "ACK, returned for each message": the daemon only waits for a client    *)
(* that can still acknowledge, one whose socket is in the event loop.      *)
(***************************************************************************)
WaitsForConnected ==
    cb.wait = "ack" /\ wait_for_ack[cb.waiting] => cb.waiting \in connected

(***************************************************************************)
(* When send_cloned_frame_msg() has walked the list, each client that was  *)
(* there all the time got one copy if it monitors all frames or owns the   *)
(* receiving station (or nobody does), and none otherwise; no client got   *)
(* two, whoever came and went while the walk waited.                       *)
(***************************************************************************)
ClonesExact ==
    /\ \A c \in Client : got[c] <= 1
    /\ cb.phase = "clone" /\ cb.wait = "none" /\ cb.cursor = End =>
          \A c \in steady :
              got[c] = IF "rx_all" \in flags[c]
                          \/ station_client[cb.dst] \in {None, c}
                       THEN 1 ELSE 0

(***************************************************************************)
(* A callback ends: the main loop gets back to run the next job.           *)
(***************************************************************************)
CallbackReturns == cb.phase # "idle" ~> cb.phase = "idle"
=============================================================================
