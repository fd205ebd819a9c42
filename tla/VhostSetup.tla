----------------------------- MODULE VhostSetup -----------------------------
(***************************************************************************)
(* How a vhost-user device comes by its resources (lib/vhost.c): the       *)
(* descriptors and the memory that the driver's messages hand over, the    *)
(* addresses of the rings in it, and the buffers that descriptor chains    *)
(* describe.  What happens on the rings is module Vhost's.                 *)
(*                                                                         *)
(* The driver, external, is in step with the protocol; where the code      *)
(* relies on more than that, a constant says whether the driver does it.   *)
(* It may hang up at any time: replies fail then, and so do the calls that *)
(* the device makes in band, on the descriptor for its own requests.       *)
(*                                                                         *)
(* A descriptor is a number that the kernel gives out again once it is     *)
(* closed, so that the descriptor table says what each one is open for.    *)
(* Memory is addressed by file and position in it.                         *)
(***************************************************************************)
EXTENDS Integers, Sequences, SequencesExt, FiniteSetsExt

CONSTANTS
    Queue,
    InputQueues,    \* server->input_queues
    KickFds, CallFds,   \* the queues for which the driver sends descriptors
    MaxFd,          \* the largest descriptor
    MaxRegions,     \* MAX_REGIONS
    Tables,         \* the memory tables of the driver, a sequence
    Chains,         \* the descriptor chains it builds
    Bases,          \* user addresses at which it has a ring
    Lengths,        \* lengths of frames to deliver
    ReadMax,        \* the size of the buffer in wmediumd_vu_handle()
    Prealloc,       \* SG_STACK_PREALLOC
    ApiSocket,      \* there is an API socket: SIGPIPE is ignored
    Quiesces,       \* the driver's kicks are handled before it starts over
    Withdraws,      \* the driver withdraws a kick descriptor
    Answers,        \* it does not hang up while the device may call it in band
    Features,       \* the sets of protocol features that it may choose
    Schedulers,     \* whether the server has a scheduler: only under time control
    MaxMsgs         \* bound: messages of one connection

Fd == 0..MaxFd
NoFd == -1
Region == 1..MaxRegions
InBandCalls == {"inband", "slave_req"}
Feature == InBandCalls \cup {"reply_ack"}

Area == [guest_phys_addr : Nat, size : Nat, user_addr : Nat, mmap_offset : Nat]
Elem == [addr : Nat, len : Nat, write : BOOLEAN]

\* the condition of the loops in usfstl_vhost_user_to_va() and _phys_to_va()
Covers(r, from, addr) == addr >= r[from] /\ addr < r[from] + r.size

\* only the first byte of a buffer is looked up: the driver sees to it that the
\* others are in the same region
Inside(T, e) ==
    /\ \E i \in DOMAIN T : Covers(T[i], "guest_phys_addr", e.addr)
    /\ \A i \in DOMAIN T : Covers(T[i], "guest_phys_addr", e.addr) =>
            e.addr + e.len <= T[i].guest_phys_addr + T[i].size

ASSUME QueueAssumption ==
    Queue \subseteq Nat /\ {InputQueues, KickFds, CallFds} \subseteq SUBSET Queue
ASSUME BoundAssumption == {MaxFd, MaxMsgs, MaxRegions, Prealloc, ReadMax} \subseteq Nat
ASSUME TablesAssumption ==
    Tables \in Seq(Seq(Area)) /\ \A t \in DOMAIN Tables : Len(Tables[t]) <= MaxRegions
ASSUME DriverAssumption ==
    /\ Bases \cup Lengths \subseteq Nat
    /\ Chains \subseteq Seq(Elem)
    /\ \A chain \in Chains : \A k \in DOMAIN chain, t \in DOMAIN Tables :
            Inside(Tables[t], chain[k])
ASSUME FeaturesAssumption == Features \subseteq SUBSET Feature
ASSUME SwitchAssumption ==
    {ApiSocket, Quiesces, Withdraws, Answers} \cup Schedulers \subseteq BOOLEAN

VARIABLES
    table,      \* the descriptor table of the daemon
    dev,        \* struct usfstl_vhost_user_dev_int
    maps,       \* what is mapped
    faults,     \* what went wrong
    scheduler,  \* there is one: server->scheduler
    handling,   \* the queues being handled, the innermost one last, and the room
                \* in their fixed buffers
    buf,        \* the buffer in use, as usfstl_vhost_user_get_virtq_buf() has it
    hungup,     \* the driver has closed its end
    told,       \* the driver: the table, and the rings' addresses, that it set
    msgs        \* messages handled

vars == <<table, dev, maps, faults, scheduler, handling, buf, hungup, told, msgs>>

Use(kind, id) == [kind |-> kind, id |-> id]
Closed     == Use("closed", <<>>)
ConnUse    == Use("conn", <<>>)
ReqUse     == Use("req", <<>>)
KickUse(q) == Use("kick", <<q>>)
CallUse(q) == Use("call", <<q>>)
MemUse(t, i) == Use("mem", <<t, i>>)

NoMap    == [file |-> <<>>, len |-> 0]
NoRegion == [guest_phys_addr |-> 0, size |-> 0, user_addr |-> 0, mmap_offset |-> 0]
Null     == [file |-> <<>>, at |-> 0]
Part     == {"desc", "used", "avail"}
Place    == [desc |-> 0, used |-> 1, avail |-> 2]
Idle     == <<>>
NoBuf    == [chain |-> <<>>, in_sg |-> <<>>, out_sg |-> <<>>, allocated |-> FALSE,
             moved |-> <<>>, limit |-> 0, written |-> 0, reply |-> FALSE]
-----------------------------------------------------------------------------
(* Descriptors.  Handlers are functions of what they change.               *)

State == [table |-> table, dev |-> dev, maps |-> maps, faults |-> faults]

\* the numbers that the kernel gives to n descriptors: the lowest, in order
Given(tb, n) ==
    LET free == {f \in Fd : tb[f] = Closed}
    IN {fds \in [1..n -> free] :
            /\ \A j, k \in 1..n : j < k => fds[j] < fds[k]
            /\ \A f \in free \ Range(fds) : \A k \in 1..n : fds[k] < f}

\* usfstl_vhost_user_get_msg_fds(): what came with a message
Opened(tb, fds, uses) ==
    [f \in Fd |-> IF f \in Range(fds) THEN uses[CHOOSE k \in DOMAIN fds : fds[k] = f]
                   ELSE tb[f]]

Fault(st, on, what) == [st EXCEPT !.faults = IF on THEN @ \cup {what} ELSE @]

Shut(tb, field) == [f \in Fd |-> IF f \in Range(field) THEN Closed ELSE tb[f]]

\* a descriptor of the field is closed by the time it is closed
ClosedTwice(tb, field) ==
    \E i \in DOMAIN field :
        /\ field[i] # NoFd
        /\ \/ tb[field[i]] = Closed
           \/ \E j \in DOMAIN field \ {i} : field[j] = field[i]

\* close() of the descriptors in a field, whosever they are by now
CloseAll(st, field) ==
    [Fault(st, ClosedTwice(st.table, field), "close") EXCEPT !.table = Shut(@, field)]

\* mutant: the fields keep what was unmapped and closed
clear_mappings_stale(st) ==
    [CloseAll(st, st.dev.region_fds) EXCEPT
        !.maps = {m \in @ : \A i \in Region :
                    m # [file |-> st.dev.region_vaddr[i].file,
                         len |-> st.dev.regions[i].size + st.dev.regions[i].mmap_offset]}]
\* usfstl_vhost_user_clear_mappings(): unmaps as much as the regions say
clear_mappings(st) ==
    [CloseAll(st, st.dev.region_fds) EXCEPT
        !.maps = {m \in @ : \A i \in Region :
                    m # [file |-> st.dev.region_vaddr[i].file,
                         len |-> st.dev.regions[i].size + st.dev.regions[i].mmap_offset]},
        !.dev.region_vaddr = [i \in Region |-> NoMap],
        !.dev.region_fds = [i \in Region |-> NoFd]]

\* usfstl_vhost_user_update_virtq_kick() of some queues, without a descriptor:
\* the field keeps the one that is closed
DropKicks(st, qs) ==
    LET set == {q \in qs : st.dev.kick[q] # NoFd}
    IN [CloseAll(Fault(st, \E q \in set : ~st.dev.registered[q], "unlink"),
                 [q \in set |-> st.dev.kick[q]]) EXCEPT
            !.dev.registered = [q \in Queue |-> @[q] /\ q \notin set]]

update_virtq_kick(st, q, fd) ==
    IF fd = NoFd THEN DropKicks(st, {q})
    ELSE [DropKicks(st, {q}) EXCEPT
            !.dev = [@ EXCEPT !.kick[q] = fd, !.registered[q] = TRUE]]

NoDev ==
    [up |-> FALSE, entry |-> NoFd, req_fd |-> NoFd,
     kick |-> [q \in Queue |-> NoFd], call_fd |-> [q \in Queue |-> NoFd],
     registered |-> [q \in Queue |-> FALSE],
     enabled |-> [q \in Queue |-> FALSE], triggered |-> [q \in Queue |-> FALSE],
     virtq |-> [q \in Queue |-> [p \in Part |-> Null]],
     n_regions |-> 0, regions |-> [i \in Region |-> NoRegion],
     region_fds |-> [i \in Region |-> NoFd], region_vaddr |-> [i \in Region |-> NoMap],
     protocol_features |-> {}]

\* mutant: leaves the call descriptors open
dev_free_calls(st) ==
    LET rest == clear_mappings(DropKicks(st, Queue))
    IN [CloseAll(CloseAll(rest, <<st.dev.req_fd>>), <<st.dev.entry>>) EXCEPT !.dev = NoDev]
\* usfstl_vhost_user_dev_free()
dev_free(st) ==
    LET rest == clear_mappings(CloseAll(DropKicks(st, Queue), st.dev.call_fd))
    IN [CloseAll(CloseAll(rest, <<st.dev.req_fd>>), <<st.dev.entry>>) EXCEPT !.dev = NoDev]
-----------------------------------------------------------------------------
(* Addresses.                                                              *)

\* mutant: the offset is that of the region in the address space
OffsetInRegion(r, from, addr) == addr - r[from]

OffsetIn(r, from, addr) == addr - r[from] + r.mmap_offset

\* usfstl_vhost_user_to_va() for from = "user_addr", usfstl_vhost_phys_to_va()
\* for "guest_phys_addr": the first region that covers the address
to_va(d, from, addr) ==
    LET hits == {i \in 1..d.n_regions : Covers(d.regions[i], from, addr)}
    IN IF hits = {} THEN Null
       ELSE [file |-> d.region_vaddr[Min(hits)].file,
             at |-> OffsetIn(d.regions[Min(hits)], from, addr)]
-----------------------------------------------------------------------------
(* Messages.                                                               *)

\* Every handler ends with the reply, if one is wanted.  Once the driver is
\* gone, sending it fails and the device is freed, or the signal kills the
\* daemon.  (What is read after that and wants no reply might as well have been
\* read before.)
Replied(new) ==
    LET end == IF ~hungup THEN new
               ELSE IF ApiSocket THEN dev_free(new) ELSE Fault(new, TRUE, "SIGPIPE")
    IN /\ table' = end.table /\ dev' = end.dev /\ maps' = end.maps
       /\ faults' = end.faults

Counted == dev.up /\ msgs < MaxMsgs /\ msgs' = msgs + 1

Handled(new) ==
    /\ Counted /\ Replied(new)
    /\ UNCHANGED <<scheduler, handling, buf, hungup>>

Untold == [table |-> 0, ring |-> [q \in Queue |-> 0]]

InBand(d) == InBandCalls \subseteq d.protocol_features

\* the driver may use the queue: it has an address, and calls arrive (one that
\* answers has let its messages about calls in band be read when it hangs up)
Ready(d, q) ==
    /\ told.ring[q] # 0
    /\ \/ d.call_fd[q] # NoFd
       \/ InBand(d) /\ d.req_fd # NoFd /\ (Answers => ~hungup)

InUse(q) ==
    dev.enabled[q] \/ dev.triggered[q] \/ \E k \in DOMAIN handling : handling[k].virtq = q

MappingOf(t, i) ==
    [file |-> <<t, i>>, len |-> Tables[t][i].size + Tables[t][i].mmap_offset]

\* the regions of the message, with usfstl_vhost_user_setup_mappings()
setup_mappings(d, t, fds) ==
    LET T == Tables[t]
    IN [d EXCEPT
          !.n_regions = Len(T),
          !.regions = [i \in Region |-> IF i <= Len(T) THEN T[i] ELSE d.regions[i]],
          !.region_fds = [i \in Region |-> IF i <= Len(T) THEN fds[i] ELSE d.region_fds[i]],
          !.region_vaddr = [i \in Region |-> IF i <= Len(T) THEN MappingOf(t, i)
                                             ELSE d.region_vaddr[i]]]

\* VHOST_USER_SET_MEM_TABLE: the descriptors came with the message, before the
\* old ones are closed
MappedTable(st, t, fds) ==
    LET uses == [i \in DOMAIN Tables[t] |-> MemUse(t, i)]
    IN [clear_mappings([st EXCEPT !.table = Opened(@, fds, uses)]) EXCEPT
          !.maps = @ \cup {MappingOf(t, i) : i \in DOMAIN Tables[t]},
          !.dev = setup_mappings(@, t, fds)]

\* the driver has stopped its queues, and starts over with their addresses
SetMemTable(t) ==
    /\ \A q \in Queue : ~dev.enabled[q] /\ (Quiesces => ~InUse(q))
    /\ \E fds \in Given(table, Len(Tables[t])) : Handled(MappedTable(State, t, fds))
    /\ told' = [Untold EXCEPT !.table = t]

\* VHOST_USER_SET_VRING_ADDR: three addresses inside the driver's memory
SetVringAddr(q, base) ==
    /\ told.table # 0 /\ ~InUse(q)
    /\ \A p \in Part : \E i \in DOMAIN Tables[told.table] :
            Covers(Tables[told.table][i], "user_addr", base + Place[p])
    /\ Handled([State EXCEPT !.dev.virtq[q] =
                    [p \in Part |-> to_va(dev, "user_addr", base + Place[p])]])
    /\ told' = [told EXCEPT !.ring[q] = base]

\* the descriptor of a message with n of them
First(n, fds) == IF n = 0 THEN NoFd ELSE fds[1]

NewKick(st, q, n, fds) ==
    update_virtq_kick([st EXCEPT !.table = Opened(@, fds, <<KickUse(q)>>)],
                      q, First(n, fds))

SetVringKick(q, n) ==
    /\ n = 1 \/ Withdraws \/ dev.kick[q] = NoFd
    /\ \E fds \in Given(table, n) : Handled(NewKick(State, q, n, fds))
    /\ UNCHANGED told

\* VHOST_USER_SET_VRING_CALL
NewCall(st, q, n, fds) ==
    [CloseAll([st EXCEPT !.table = Opened(@, fds, <<CallUse(q)>>)],
              <<st.dev.call_fd[q]>>) EXCEPT !.dev.call_fd[q] = First(n, fds)]

SetVringCall(q, n) ==
    /\ \E fds \in Given(table, n) :
          /\ InUse(q) => Ready(NewCall(State, q, n, fds).dev, q)
          /\ Handled(NewCall(State, q, n, fds))
    /\ UNCHANGED told

\* VHOST_USER_SET_SLAVE_REQ_FD
NewReq(st, fds) ==
    [CloseAll([st EXCEPT !.table = Opened(@, fds, <<ReqUse>>)],
              <<st.dev.req_fd>>) EXCEPT !.dev.req_fd = fds[1]]

SetSlaveReqFd ==
    /\ \E fds \in Given(table, 1) : Handled(NewReq(State, fds))
    /\ UNCHANGED told

SetProtocolFeatures(set) ==
    /\ \A q \in Queue : ~InUse(q)
    /\ Handled([State EXCEPT !.dev.protocol_features = set])
    /\ UNCHANGED told

SetVringEnable(q, on) ==
    /\ on => Ready(dev, q)
    /\ Handled([State EXCEPT !.dev.enabled[q] = on])
    /\ UNCHANGED told

Fixed(q) == [virtq |-> q, n_in_sg |-> Prealloc, n_out_sg |-> Prealloc]

\* VHOST_USER_VRING_KICK, or the descriptor: usfstl_vhost_user_virtq_kick().  A
\* scheduler runs a job for the queue later.  Without one the queue is handled
\* at once, in the middle of another one if need be, and before the reply.
VringKick(q) ==
    /\ Ready(dev, q)
    /\ \/ /\ scheduler \/ q \notin InputQueues
          /\ Handled([State EXCEPT !.dev.triggered[q] = @ \/ q \in InputQueues])
       \/ /\ ~scheduler /\ q \in InputQueues
          /\ Counted
          /\ handling' = Append(handling, Fixed(q))
          /\ UNCHANGED <<table, dev, maps, faults, scheduler, buf, hungup>>
    /\ UNCHANGED told

\* GET_FEATURES, GET_PROTOCOL_FEATURES, GET_CONFIG: nothing but a reply
Query == hungup /\ Handled(State) /\ UNCHANGED told
-----------------------------------------------------------------------------
(* Buffers.                                                                *)

Segment(d, e) == [base |-> to_va(d, "guest_phys_addr", e.addr), len |-> e.len]

TooMany(n_in, n_out, fixed) == n_in > fixed.n_in_sg \/ n_out > fixed.n_out_sg

\* the segments of one kind, in the order of the chain
Gather(chain, write) ==
    LET sg[n \in 0..Len(chain)] ==
            IF n = 0 THEN <<>>
            ELSE IF chain[n].write = write THEN Append(sg[n - 1], Segment(dev, chain[n]))
            ELSE sg[n - 1]
    IN sg[Len(chain)]

\* usfstl_vhost_user_get_virtq_buf(), from the descriptor on
get_virtq_buf(chain, fixed) ==
    LET in  == Gather(chain, TRUE)
        out == Gather(chain, FALSE)
    IN [NoBuf EXCEPT !.chain = chain, !.in_sg = in, !.out_sg = out,
                     !.allocated = TooMany(Len(in), Len(out), fixed)]

\* the fixed buffer's counts are those of the last buffer that fitted into it
Reused(b, fixed) ==
    IF b.allocated THEN fixed
    ELSE [fixed EXCEPT !.n_in_sg = Len(b.in_sg), !.n_out_sg = Len(b.out_sg)]

\* iov_fill() and iov_read(): where each byte of the data goes, or comes from
iov_copy(sg, buflen) ==
    LET copied[n \in 0..Len(sg)] ==
            IF n = 0 THEN <<>>
            ELSE copied[n - 1] \o
                    [k \in 1..Min({buflen - Len(copied[n - 1]), sg[n].len}) |->
                        [file |-> sg[n].base.file, at |-> sg[n].base.at + k - 1]]
    IN copied[Len(sg)]

CalledInBand(q) == dev.call_fd[q] = NoFd /\ InBand(dev)

\* usfstl_vhost_user_send_virtq_buf(): the rings must be there, and the call
\* must reach the driver: its assertions are about write()
Sent(q) ==
    LET ring == \A p \in Part : \E m \in maps : m.file = dev.virtq[q][p].file
        none == dev.call_fd[q] = NoFd /\ (InBand(dev) => dev.req_fd = NoFd)
        lost == CalledInBand(q) /\ dev.req_fd # NoFd /\ hungup
        end  == IF lost /\ ~ApiSocket THEN "SIGPIPE" ELSE "abort"
    IN faults' = Fault(Fault(State, ~ring, "ring"), none \/ lost, end).faults

\* usfstl_vhost_user_send_msg() waits for an answer
WaitsForReply(q) == CalledInBand(q) /\ "reply_ack" \in dev.protocol_features

\* usfstl_vhost_user_job_callback(), as a job, comes to a queue
HandleQueue(q) ==
    /\ dev.triggered[q] /\ handling = Idle /\ buf = NoBuf
    /\ dev' = [dev EXCEPT !.triggered[q] = FALSE]
    /\ handling' = <<Fixed(q)>>
    /\ UNCHANGED <<table, maps, faults, scheduler, buf, hungup, told, msgs>>

\* one turn of usfstl_vhost_user_handle_queue(): wmediumd_vu_handle() reads the
\* segments that the device may read
HandleBuffer(chain) ==
    /\ handling # Idle /\ buf = NoBuf
    /\ \A k \in DOMAIN chain : ~chain[k].write
    /\ LET top == Len(handling)
           q == handling[top].virtq
           b == get_virtq_buf(chain, handling[top])
       IN /\ buf' = [b EXCEPT !.moved = iov_copy(b.out_sg, ReadMax), !.limit = ReadMax,
                              !.reply = WaitsForReply(q)]
          /\ handling' = [handling EXCEPT ![top] = Reused(b, @)]
          /\ Sent(q)
    /\ UNCHANGED <<table, dev, maps, scheduler, hungup, told, msgs>>

\* usfstl_vhost_user_dev_notify()
Notify(q, chain, datalen) ==
    /\ dev.up /\ dev.enabled[q] /\ q \notin InputQueues /\ buf = NoBuf
    /\ \A k \in DOMAIN chain : chain[k].write
    /\ LET b == get_virtq_buf(chain, Fixed(q))
       IN buf' = [b EXCEPT !.moved = iov_copy(b.in_sg, datalen), !.limit = datalen,
                          !.written = datalen, !.reply = WaitsForReply(q)]
    /\ Sent(q)
    /\ UNCHANGED <<table, dev, maps, scheduler, handling, hungup, told, msgs>>

\* the driver, external: answers the call
Answer ==
    /\ buf.reply /\ ~hungup
    /\ buf' = [buf EXCEPT !.reply = FALSE]
    /\ UNCHANGED <<table, dev, maps, faults, scheduler, handling, hungup, told, msgs>>

\* the call is over.  When the driver hangs up instead of answering,
\* usfstl_vhost_user_read_msg() fails, and that is an assertion, too
FreeBuf ==
    /\ buf # NoBuf
    /\ buf.reply => hungup
    /\ buf' = NoBuf
    /\ faults' = Fault(State, buf.reply, "abort").faults
    /\ UNCHANGED <<table, dev, maps, scheduler, handling, hungup, told, msgs>>

\* no more buffers in the queue; a kick that was handled at once may want its
\* reply now (not one in the middle of another queue: see Message)
QueueDone ==
    /\ handling # Idle /\ buf = NoBuf
    /\ handling' = Front(handling)
    /\ \/ UNCHANGED <<table, dev, maps, faults>>
       \/ ~scheduler /\ hungup /\ Len(handling) = 1 /\ Replied(State)
    /\ UNCHANGED <<scheduler, buf, hungup, told, msgs>>
-----------------------------------------------------------------------------
(* Connections.                                                            *)

\* usfstl_uds_accept_handler() and usfstl_vhost_user_connected()
Connected ==
    /\ ~dev.up
    /\ \E fds \in Given(table, 1) :
          /\ table' = Opened(table, fds, <<ConnUse>>)
          /\ dev' = [NoDev EXCEPT !.up = TRUE, !.entry = fds[1]]
    /\ hungup' = FALSE /\ told' = Untold /\ msgs' = 0
    /\ UNCHANGED <<maps, faults, scheduler, handling, buf>>

Hangup ==
    /\ dev.up /\ ~hungup
    /\ Answers => ~buf.reply /\ \A q \in Queue : InUse(q) => dev.call_fd[q] # NoFd
    /\ hungup' = TRUE
    /\ UNCHANGED <<table, dev, maps, faults, scheduler, handling, buf, told, msgs>>

\* usfstl_vhost_user_handle_msg() has nothing to read
Disconnected ==
    /\ dev.up /\ hungup /\ handling = Idle /\ buf = NoBuf
    /\ LET st == dev_free(State)
       IN /\ table' = st.table /\ dev' = st.dev /\ maps' = st.maps
          /\ faults' = st.faults
    /\ UNCHANGED <<scheduler, handling, buf, hungup, told, msgs>>
-----------------------------------------------------------------------------
Init ==
    /\ table = [f \in Fd |-> Closed] /\ dev = NoDev /\ maps = {} /\ faults = {}
    /\ scheduler \in Schedulers /\ handling = Idle /\ buf = NoBuf /\ hungup = FALSE
    /\ told = Untold /\ msgs = 0

\* A message is handled between buffers, too, as a call may wait for its reply:
\* what it changes is what it would have changed during the wait.  The connection
\* does not end there (see Vhost's DeviceStays).
Message ==
    /\ buf = NoBuf
    /\ hungup => handling = Idle
    /\ \/ \E t \in DOMAIN Tables : SetMemTable(t)
       \/ \E q \in Queue :
             \/ \E base \in Bases : SetVringAddr(q, base)
             \/ VringKick(q)
             \/ \E on \in BOOLEAN : SetVringEnable(q, on)
       \/ \E q \in KickFds, n \in 0..1 : SetVringKick(q, n)
       \/ \E q \in CallFds, n \in 0..1 : SetVringCall(q, n)
       \/ SetSlaveReqFd
       \/ \E set \in Features : SetProtocolFeatures(set)
       \/ Query

Next ==
    \/ Connected \/ Hangup \/ Disconnected \/ Message
    \/ \E q \in Queue : HandleQueue(q)
    \/ \E chain \in Chains : HandleBuffer(chain)
    \/ \E q \in Queue, chain \in Chains, n \in Lengths : Notify(q, chain, n)
    \/ Answer \/ FreeBuf \/ QueueDone

Spec == Init /\ [][Next]_vars
-----------------------------------------------------------------------------
(* Properties.                                                             *)

Kinds == {"closed", "conn", "req", "kick", "call", "mem"}

(***************************************************************************)
(* Fields that hold a descriptor hold one of the table or -1, and no more  *)
(* regions are used than were mapped.                                      *)
(***************************************************************************)
TypeOK ==
    /\ \A f \in Fd : table[f].kind \in Kinds
    /\ {dev.entry, dev.req_fd} \subseteq Fd \cup {NoFd}
    /\ {dev.kick, dev.call_fd} \subseteq [Queue -> Fd \cup {NoFd}]
    /\ dev.region_fds \in [Region -> Fd \cup {NoFd}]
    /\ dev.n_regions \in {0} \cup Region
    /\ \A i \in Region : dev.region_vaddr[i] = NoMap <=> i > dev.n_regions
    /\ \A k \in DOMAIN handling : handling[k].virtq \in InputQueues
    /\ msgs \in 0..MaxMsgs

\* what the fields of the device say is open
Held ==
    {<<dev.entry, ConnUse>>, <<dev.req_fd, ReqUse>>}
    \cup {<<dev.kick[q], KickUse(q)>> : q \in Queue}
    \cup {<<dev.call_fd[q], CallUse(q)>> : q \in Queue}
    \cup {<<dev.region_fds[i], MemUse(told.table, i)>> : i \in Region}

(***************************************************************************)
(* The device holds each descriptor it was given in exactly one field,     *)
(* which is open and still means what it was given for; so replacing the   *)
(* table, the calls and the kicks, and the end of the connection at any    *)
(* point, neither leak a descriptor nor close one that is someone else's.  *)
(***************************************************************************)
DescriptorsOwned ==
    {h \in Held : h[1] # NoFd} =
        {<<f, table[f]>> : f \in {g \in Fd : table[g] # Closed}}

(***************************************************************************)
(* The mapped memory is that of the table the driver sent last, in full,   *)
(* and nothing of earlier tables or connections: each is unmapped with the *)
(* sizes it was mapped with.                                               *)
(***************************************************************************)
MappingsOwned ==
    maps = IF ~dev.up \/ told.table = 0 THEN {}
           ELSE {MappingOf(told.table, i) : i \in DOMAIN Tables[told.table]}

(***************************************************************************)
(* The device owns what it was given, descriptors and mappings, and        *)
(* nothing else, after every message, failure and end of a connection.     *)
(***************************************************************************)
OwnershipInv == TypeOK /\ DescriptorsOwned /\ MappingsOwned

\* the driver's memory has the byte with an address there, by its own account
Meant(ptr, t, from, addr) ==
    \E i \in DOMAIN Tables[t] : \E n \in 0..(Tables[t][i].size - 1) :
        /\ Tables[t][i][from] + n = addr
        /\ ptr = [file |-> <<t, i>>, at |-> Tables[t][i].mmap_offset + n]

Mapped(ptr) == \E m \in maps : m.file = ptr.file /\ ptr.at < m.len

(***************************************************************************)
(* The three parts of a ring are where the driver put them, inside what is *)
(* mapped now, for every queue whose address the driver has set since its  *)
(* last table: the translation of user addresses is exact at the borders   *)
(* of regions and with offsets into the file.                              *)
(***************************************************************************)
RingsTranslated ==
    \A q \in Queue : dev.up /\ told.ring[q] # 0 =>
        \A p \in Part :
            /\ Meant(dev.virtq[q][p], told.table, "user_addr", told.ring[q] + Place[p])
            /\ Mapped(dev.virtq[q][p])

\* the addresses of the bytes of a descriptor chain, in order
Bytes(chain) ==
    LET upto[n \in 0..Len(chain)] ==
            IF n = 0 THEN <<>>
            ELSE upto[n - 1] \o [k \in 1..chain[n].len |-> chain[n].addr + k - 1]
    IN upto[Len(chain)]

(***************************************************************************)
(* A delivered frame goes byte by byte, and in order, to the guest's       *)
(* physical memory that the chain describes, and a frame that is sent      *)
(* comes from there, until the chain or the data is used up.               *)
(***************************************************************************)
BytesInOrder ==
    LET all == Bytes(buf.chain)
    IN /\ Len(buf.moved) = Min({Len(all), buf.limit})
       /\ \A k \in DOMAIN buf.moved :
             /\ Meant(buf.moved[k], told.table, "guest_phys_addr", all[k])
             /\ Mapped(buf.moved[k])

(***************************************************************************)
(* A buffer that was not allocated fits into the two arrays on the stack,  *)
(* although the fixed buffer's counts shrink from buffer to buffer.        *)
(***************************************************************************)
SegmentsFit ==
    ~buf.allocated => Len(buf.in_sg) <= Prealloc /\ Len(buf.out_sg) <= Prealloc

(***************************************************************************)
(* Shared memory is used where the driver means it: rings, the bytes of a  *)
(* frame, and the arrays that list their segments.                         *)
(***************************************************************************)
MemoryInv == RingsTranslated /\ BytesInOrder /\ SegmentsFit

(***************************************************************************)
(* Nothing goes wrong: no entry is taken off the loop twice and no closed  *)
(* descriptor closed, no ring used whose memory is gone, no assertion      *)
(* about a call or its answer fails, and a lost connection does not end    *)
(* the daemon.  The driver has to do its part (Quiesces, ~Withdraws and    *)
(* Answers), and SIGPIPE must be ignored.                                  *)
(***************************************************************************)
NoFault == faults = {}

(***************************************************************************)
(* The length in the used ring is what was written to the buffer.          *)
(***************************************************************************)
WrittenIsFilled == buf.written # 0 => buf.written = Len(buf.moved)
=============================================================================
