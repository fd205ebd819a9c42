---------------------------- MODULE MediumProofs ----------------------------
(***************************************************************************)
(* Proofs about the frames on the medium, for every set of stations,       *)
(* access categories, clients and airtimes and all bounds.                 *)
(***************************************************************************)
EXTENDS Medium, SequenceTheorems, WellFoundedInduction, TLAPS

(***************************************************************************)
(* A search from the front of a list ends: a non-empty set of positions    *)
(* has a first one.                                                        *)
(***************************************************************************)
LEMMA FirstPosition ==
    ASSUME NEW T, T \subseteq Nat, T # {}
    PROVE  \E x \in T : \A y \in T : x <= y
<1>1. PICK x \in T : \A y \in T : ~(<<y, x>> \in OpToRel(<, Nat))
  BY NatLessThanWellFounded, WFMin
<1>2. \A y \in T : ~(y < x)
  BY <1>1 DEF OpToRel
<1> QED
  BY <1>2

(***************************************************************************)
(* A list has a last entry: a non-empty set of numbers with an upper bound *)
(* has a greatest one.                                                     *)
(***************************************************************************)
LEMMA LastPosition ==
    ASSUME NEW n \in Nat, NEW T, T \subseteq 1..n, T # {}
    PROVE  \E x \in T : \A y \in T : y <= x
<1> DEFINE D == {n - x : x \in T}
<1>1. D \subseteq Nat /\ D # {}
  <2>1. \A x \in T : x \in 1..n /\ n - x \in Nat
    OBVIOUS
  <2>2. D \subseteq Nat
    BY <2>1
  <2>3. D # {}
    OBVIOUS
  <2> QED
    BY <2>2, <2>3
<1>2. PICK d \in D : \A e \in D : d <= e
  BY <1>1, FirstPosition
<1>3. PICK x \in T : d = n - x
  BY <1>2
<1>4. \A y \in T : n - x <= n - y
  BY <1>2, <1>3
<1>5. \A y \in T : y <= x
  BY <1>4
<1> QED
  BY <1>5

(***************************************************************************)
(* No station points to a client that wmediumd_remove_client() removed.    *)
(***************************************************************************)
StationClientsConnected ==
    \A s \in Station : station_client[s] \in connected \cup {None}

(***************************************************************************)
(* The inductive invariant.  NoOverlap includes that every queue is sorted *)
(* by the end of its frames, which is why looking at the tails is enough.  *)
(***************************************************************************)
IInv ==
    /\ TypeOK
    /\ NoOverlap
    /\ QueuedFramesOwned
    /\ StationClientsConnected
-----------------------------------------------------------------------------
(* Facts about the state.                                                  *)

LEMMA FrameFields ==
    ASSUME TypeOK, NEW f \in 1..Len(frame)
    PROVE  /\ frame[f] \in FrameRecord
           /\ frame[f].sender \in Station
           /\ frame[f].ac \in AC
           /\ frame[f].ac \in Nat
           /\ frame[f].src \in Client
           /\ frame[f].duration \in Nat
           /\ frame[f].job_start \in Nat
<1>1. frame[f] \in FrameRecord
  BY ElementOfSeq DEF TypeOK
<1> QED
  BY <1>1, AcAssumption DEF FrameRecord

(***************************************************************************)
(* The tails that queue_frame() looks at end no earlier than any queued    *)
(* frame of the same or a higher priority.                                 *)
(***************************************************************************)
LEMMA TailsSuffice ==
    ASSUME TypeOK, NoOverlap, NEW ac \in AC, NEW f \in queued,
           frame[f].ac <= ac
    PROVE  \E g \in Tails(ac) : frame[f].job_start <= frame[g].job_start
<1> DEFINE s == frame[f].sender
           i == frame[f].ac
           Q == Queue(s, i)
<1>1. Len(frame) \in Nat /\ queued \subseteq 1..Len(frame)
  BY LenProperties DEF TypeOK
<1>2. Q \subseteq 1..Len(frame) /\ f \in Q
  BY <1>1 DEF Queue
<1>3. PICK g \in Q : \A h \in Q : h <= g
  BY <1>1, <1>2, LastPosition
<1>4. g \in queued /\ frame[g].sender = s /\ frame[g].ac = i /\ f <= g
  BY <1>2, <1>3 DEF Queue
<1>5. g \in Tails(ac)
  BY <1>3, <1>4 DEF Tails, IsTail
<1>6. CASE f = g
  <2>1. frame[f].job_start \in Nat
    BY <1>1, FrameFields
  <2> QED
    BY <1>5, <1>6, <2>1
<1>7. CASE f # g
  <2>1. /\ frame[f].job_start \in Nat /\ frame[f].ac \in Nat
        /\ frame[g].job_start \in Nat /\ frame[g].duration \in Nat
    BY <1>1, <1>4, FrameFields
  <2>2. f < g
    BY <1>1, <1>4, <1>7
  <2>3. frame[f].job_start <= AirtimeStart(g)
    BY <1>4, <2>1, <2>2 DEF NoOverlap
  <2>4. frame[f].job_start <= frame[g].job_start
    BY <2>1, <2>3 DEF AirtimeStart
  <2> QED
    BY <1>5, <2>4
<1> QED
  BY <1>6, <1>7

(***************************************************************************)
(* So the target of queue_frame() lies after all of them.                  *)
(***************************************************************************)
LEMMA TargetAfterAll ==
    ASSUME TypeOK, NoOverlap, NEW ac \in AC, NEW t \in Nat, IsTarget(t, ac),
           NEW f \in queued, frame[f].ac <= ac
    PROVE  frame[f].job_start <= t
<1>1. PICK g \in Tails(ac) : frame[f].job_start <= frame[g].job_start
  BY TailsSuffice
<1>2. frame[g].job_start <= t
  BY DEF IsTarget
<1>3. f \in 1..Len(frame) /\ g \in 1..Len(frame)
  BY DEF TypeOK, Tails
<1>4. frame[f].job_start \in Nat /\ frame[g].job_start \in Nat
  BY <1>3, FrameFields
<1> QED
  BY <1>1, <1>2, <1>4

(***************************************************************************)
(* What QueueFrame appends: a frame of src that starts at t.               *)
(***************************************************************************)
Appended(c, s, ac, d, t, src) ==
    /\ IsTarget(t, ac)
    /\ station_client' = [station_client EXCEPT ![s] = src]
    /\ src = c \/ src = station_client[s]
    /\ station_client[s] # None => src = station_client[s]
    /\ frame' \in Seq(FrameRecord)
    /\ Len(frame') = Len(frame) + 1
    /\ \A f \in 1..Len(frame) : frame'[f] = frame[f]
    /\ frame'[Len(frame) + 1] =
          [sender |-> s, ac |-> ac, src |-> src, duration |-> d,
           job_start |-> t + d]

LEMMA QueueFrameAppends ==
    ASSUME TypeOK, NEW c \in Client, NEW s \in Station, NEW ac \in AC,
           NEW d \in Duration, NEW notify \in BOOLEAN,
           QueueFrame(c, s, ac, d, notify)
    PROVE  \E t \in Time, src \in Client : Appended(c, s, ac, d, t, src)
<1> DEFINE src == IF station_client[s] = None THEN c ELSE station_client[s]
<1>1. src \in Client
  BY DEF TypeOK
<1>2. PICK t \in Time :
         /\ IsTarget(t, ac)
         /\ frame' = Append(frame,
               [sender |-> s, ac |-> ac, src |-> src, duration |-> d,
                job_start |-> t + d])
  BY DEF QueueFrame
<1> DEFINE rec == [sender |-> s, ac |-> ac, src |-> src, duration |-> d,
                   job_start |-> t + d]
<1>3. t \in Nat /\ d \in Nat /\ t + d \in Nat
  BY BoundAssumption, DurationAssumption DEF Time
<1>4. rec \in FrameRecord
  BY <1>1, <1>3 DEF FrameRecord
<1> HIDE DEF rec
<1>5. frame \in Seq(FrameRecord)
  BY DEF TypeOK
<1>6. /\ Append(frame, rec) \in Seq(FrameRecord)
      /\ Len(Append(frame, rec)) = Len(frame) + 1
      /\ \A f \in 1..Len(frame) : Append(frame, rec)[f] = frame[f]
      /\ Append(frame, rec)[Len(frame) + 1] = rec
  BY <1>4, <1>5, AppendProperties
<1>7. frame' = Append(frame, rec)
  BY <1>2 DEF rec
<1>8. station_client' = [station_client EXCEPT ![s] = src]
  BY DEF QueueFrame
<1> QED
  BY <1>1, <1>2, <1>6, <1>7, <1>8 DEF rec, Appended
-----------------------------------------------------------------------------
(* The invariant.                                                          *)

LEMMA InitIInv == Init => IInv
<1> SUFFICES ASSUME Init
             PROVE  IInv
  OBVIOUS
<1>1. frame \in Seq(FrameRecord) /\ Len(frame) = 0
  BY DEF Init
<1>2. station_client \in [Station -> Client \cup {None}]
  BY DEF Init
<1>3. TypeOK
  BY <1>1, <1>2 DEF Init, TypeOK
<1>4. NoOverlap
  BY DEF Init, NoOverlap
<1>5. QueuedFramesOwned
  BY <1>1 DEF Init, QueuedFramesOwned
<1>6. StationClientsConnected
  BY DEF Init, StationClientsConnected
<1> QED
  BY <1>3, <1>4, <1>5, <1>6 DEF IInv

LEMMA QueueFrameIInv ==
    ASSUME IInv, NEW c \in Client, NEW s \in Station, NEW ac \in AC,
           NEW d \in Duration, NEW notify \in BOOLEAN,
           QueueFrame(c, s, ac, d, notify)
    PROVE  IInv'
<1> USE DEF IInv
<1> DEFINE n == Len(frame) + 1
<1>0. PICK t \in Time, src \in Client : Appended(c, s, ac, d, t, src)
  BY QueueFrameAppends
<1>1. /\ IsTarget(t, ac)
      /\ station_client' = [station_client EXCEPT ![s] = src]
      /\ src = c \/ src = station_client[s]
      /\ station_client[s] # None => src = station_client[s]
      /\ frame' \in Seq(FrameRecord)
      /\ Len(frame') = Len(frame) + 1
      /\ \A f \in 1..Len(frame) : frame'[f] = frame[f]
      /\ frame'[Len(frame) + 1] =
            [sender |-> s, ac |-> ac, src |-> src, duration |-> d,
             job_start |-> t + d]
  BY <1>0 DEF Appended
<1>2. /\ queued' = queued \cup {n}
      /\ jobs' = jobs \cup {<<"deliver", n>>}
                      \cup (IF notify THEN {<<"start", n>>} ELSE {})
      /\ UNCHANGED <<current_time, callback, connected>>
      /\ c \in connected
  BY DEF QueueFrame
<1>3. /\ Len(frame) \in Nat /\ n \in Nat
      /\ queued \subseteq 1..Len(frame)
      /\ n \notin queued
      /\ t \in Nat /\ d \in Nat
  <2>1. Len(frame) \in Nat /\ queued \subseteq 1..Len(frame)
    BY LenProperties DEF TypeOK
  <2>2. t \in Nat /\ d \in Nat
    BY BoundAssumption, DurationAssumption DEF Time
  <2> QED
    BY <2>1, <2>2
<1>4. TypeOK'
  <2>1. station_client' \in [Station -> Client \cup {None}]
    BY <1>1 DEF TypeOK
  <2>2. 1..Len(frame) \subseteq 1..Len(frame') /\ n \in 1..Len(frame')
    BY <1>1, <1>3
  <2>3. queued' \subseteq 1..Len(frame')
    BY <1>2, <1>3, <2>2
  <2>4. jobs' \subseteq {"start", "deliver"} \X (1..Len(frame'))
    BY <1>2, <2>2 DEF TypeOK
  <2>5. callback' \in ({"start", "deliver"} \X (1..Len(frame'))) \cup {Idle}
    BY <1>2, <2>2 DEF TypeOK
  <2> QED
    BY <1>1, <1>2, <2>1, <2>3, <2>4, <2>5 DEF TypeOK, Idle
<1>5. NoOverlap'
  <2> SUFFICES ASSUME NEW f \in queued', NEW g \in queued',
                      f < g, frame'[f].ac <= frame'[g].ac
               PROVE  frame'[f].job_start
                         <= frame'[g].job_start - frame'[g].duration
    BY DEF NoOverlap, AirtimeStart
  <2>1. f \in queued
    BY <1>2, <1>3
  <2>2. f \in 1..Len(frame) /\ frame'[f] = frame[f] /\ frame[f].job_start \in Nat
    BY <2>1, <1>1, <1>3, FrameFields
  <2>3. CASE g \in queued
    <3>1. frame'[g] = frame[g]
      BY <2>3, <1>1, <1>3
    <3> QED
      BY <2>1, <2>2, <2>3, <3>1 DEF NoOverlap, AirtimeStart
  <2>4. CASE g = n
    <3>1. frame'[g].ac = ac /\ frame'[g].job_start = t + d /\ frame'[g].duration = d
      BY <2>4, <1>1
    <3>2. frame[f].job_start <= t
      BY <2>1, <2>2, <3>1, <1>1, <1>3, TargetAfterAll
    <3> QED
      BY <2>2, <3>1, <3>2, <1>3
  <2> QED
    BY <1>2, <2>3, <2>4
<1>6. QueuedFramesOwned'
  <2>1. ASSUME NEW f \in queued'
        PROVE  /\ <<"deliver", f>> \in jobs'
               /\ frame'[f].src = station_client'[frame'[f].sender]
               /\ frame'[f].src \in connected'
    <3>1. CASE f \in queued
      <4>1. /\ frame'[f] = frame[f]
            /\ frame[f].sender \in Station
            /\ frame[f].src = station_client[frame[f].sender]
            /\ frame[f].src \in connected
            /\ frame[f].src \in Client
            /\ <<"deliver", f>> \in jobs
        BY <3>1, <1>1, <1>3, FrameFields DEF QueuedFramesOwned
      <4>2. CASE frame[f].sender = s
        BY <4>1, <4>2, <1>1, <1>2, ClientAssumption DEF TypeOK
      <4>3. CASE frame[f].sender # s
        BY <4>1, <4>3, <1>1, <1>2 DEF TypeOK
      <4> QED
        BY <4>2, <4>3
    <3>2. CASE f = n
      <4>1. frame'[f].src = src /\ frame'[f].sender = s
        BY <3>2, <1>1
      <4>2. station_client'[s] = src
        BY <1>1 DEF TypeOK
      <4>3. src \in connected
        <5>1. CASE src = c
          BY <5>1, <1>2
        <5>2. CASE src # c
          <6>1. src = station_client[s]
            BY <1>1, <5>2
          <6> QED
            BY <6>1, <1>1, ClientAssumption DEF StationClientsConnected
        <5> QED
          BY <5>1, <5>2
      <4> QED
        BY <3>2, <4>1, <4>2, <4>3, <1>2
    <3> QED
      BY <3>1, <3>2, <1>2
  <2>2. ASSUME NEW f \in 1..Len(frame'), <<"deliver", f>> \in jobs'
        PROVE  f \in queued'
    <3>1. <<"deliver", f>> \in jobs \/ f = n
      BY <2>2, <1>2
    <3>2. CASE <<"deliver", f>> \in jobs
      <4>1. f \in 1..Len(frame)
        BY <3>2 DEF TypeOK
      <4> QED
        BY <4>1, <3>2, <1>2 DEF QueuedFramesOwned
    <3> QED
      BY <3>1, <3>2, <1>2
  <2> QED
    BY <2>1, <2>2 DEF QueuedFramesOwned
<1>7. StationClientsConnected'
  BY <1>1, <1>2 DEF StationClientsConnected, TypeOK
<1> QED
  BY <1>4, <1>5, <1>6, <1>7

(***************************************************************************)
(* The calls and returns of the two callbacks.                             *)
(***************************************************************************)
LEMMA CallIInv ==
    ASSUME IInv, CallNextJob \/ CallbackReturns \/ TimePasses
    PROVE  IInv'
<1> USE DEF IInv
<1>1. Time \subseteq Nat
  BY BoundAssumption DEF Time
<1>2. ASSUME NEW f \in queued, CallStart(f)
      PROVE  IInv'
  <2>1. TypeOK'
    BY <1>1, <1>2 DEF CallStart, IsNextJob, TypeOK
  <2>2. NoOverlap'
    BY <1>2 DEF CallStart, NoOverlap, AirtimeStart
  <2>3. QueuedFramesOwned'
    BY <1>2 DEF CallStart, QueuedFramesOwned
  <2>4. StationClientsConnected'
    BY <1>2 DEF CallStart, StationClientsConnected
  <2> QED
    BY <2>1, <2>2, <2>3, <2>4
<1>3. ASSUME NEW f \in queued, CallDeliver(f)
      PROVE  IInv'
  <2>1. TypeOK'
    BY <1>1, <1>3 DEF CallDeliver, IsNextJob, TypeOK
  <2>2. NoOverlap'
    BY <1>3 DEF CallDeliver, NoOverlap, AirtimeStart
  <2>3. QueuedFramesOwned'
    BY <1>3 DEF CallDeliver, QueuedFramesOwned
  <2>4. StationClientsConnected'
    BY <1>3 DEF CallDeliver, StationClientsConnected
  <2> QED
    BY <2>1, <2>2, <2>3, <2>4
<1>4. CASE CallbackReturns \/ TimePasses
  <2>1. TypeOK'
    BY <1>1, <1>4 DEF CallbackReturns, TimePasses, TypeOK
  <2>2. NoOverlap'
    BY <1>4 DEF CallbackReturns, TimePasses, NoOverlap, AirtimeStart
  <2>3. QueuedFramesOwned'
    BY <1>4 DEF CallbackReturns, TimePasses, QueuedFramesOwned
  <2>4. StationClientsConnected'
    BY <1>4 DEF CallbackReturns, TimePasses, StationClientsConnected
  <2> QED
    BY <2>1, <2>2, <2>3, <2>4
<1> QED
  BY <1>2, <1>3, <1>4 DEF CallNextJob

(***************************************************************************)
(* Clients come and go.                                                    *)
(***************************************************************************)
LEMMA ClientIInv ==
    ASSUME IInv, NEW c \in Client, Connect(c) \/ RemoveClient(c)
    PROVE  IInv'
<1> USE DEF IInv
<1>1. CASE Connect(c)
  <2>1. TypeOK'
    BY <1>1 DEF Connect, TypeOK
  <2>2. NoOverlap'
    BY <1>1 DEF Connect, NoOverlap, AirtimeStart
  <2>3. QueuedFramesOwned' /\ StationClientsConnected'
    BY <1>1 DEF Connect, QueuedFramesOwned, StationClientsConnected
  <2> QED
    BY <2>1, <2>2, <2>3
<1>2. CASE RemoveClient(c)
  <2> DEFINE gone == {f \in queued : frame[f].src = c}
  <2>1. /\ queued' = queued \ gone
        /\ jobs' = jobs \ ({"deliver"} \X gone)
        /\ connected' = connected \ {c}
        /\ station_client' = [s \in Station |->
              IF station_client[s] = c THEN None ELSE station_client[s]]
        /\ UNCHANGED <<current_time, frame, callback>>
    BY <1>2 DEF RemoveClient
  <2>2. TypeOK'
    <3>1. station_client' \in [Station -> Client \cup {None}]
      BY <2>1 DEF TypeOK
    <3>2. queued' \subseteq 1..Len(frame) /\ jobs' \subseteq jobs
      BY <2>1 DEF TypeOK
    <3> HIDE DEF gone
    <3> QED
      BY <2>1, <3>1, <3>2 DEF TypeOK
  <2>3. NoOverlap'
    BY <2>1 DEF NoOverlap, AirtimeStart
  <2>4. QueuedFramesOwned'
    <3>1. ASSUME NEW f \in queued'
          PROVE  /\ <<"deliver", f>> \in jobs'
                 /\ frame'[f].src = station_client'[frame'[f].sender]
                 /\ frame'[f].src \in connected'
      <4>1. f \in queued /\ f \notin gone /\ frame[f].src # c
        BY <2>1
      <4>2. <<"deliver", f>> \in jobs'
        BY <2>1, <4>1 DEF QueuedFramesOwned
      <4>3. /\ frame[f].sender \in Station
            /\ frame[f].src = station_client[frame[f].sender]
            /\ frame[f].src \in connected
        BY <4>1, FrameFields DEF QueuedFramesOwned, TypeOK
      <4>4. station_client'[frame[f].sender] = frame[f].src
        BY <2>1, <4>1, <4>3
      <4> QED
        BY <2>1, <4>1, <4>2, <4>3, <4>4
    <3>2. ASSUME NEW f \in 1..Len(frame'), <<"deliver", f>> \in jobs'
          PROVE  f \in queued'
      <4>1. <<"deliver", f>> \in jobs /\ f \notin gone
        BY <2>1, <3>2
      <4>2. f \in queued
        BY <2>1, <4>1 DEF QueuedFramesOwned
      <4> QED
        BY <2>1, <4>1, <4>2
    <3> QED
      BY <3>1, <3>2 DEF QueuedFramesOwned
  <2>5. StationClientsConnected'
    BY <2>1 DEF StationClientsConnected
  <2> QED
    BY <2>2, <2>3, <2>4, <2>5
<1> QED
  BY <1>1, <1>2

LEMMA NextIInv == IInv /\ [Next]_vars => IInv'
<1> SUFFICES ASSUME IInv, [Next]_vars
             PROVE  IInv'
  OBVIOUS
<1>1. CASE Next
  BY <1>1, QueueFrameIInv, CallIInv, ClientIInv DEF Next
<1>2. CASE UNCHANGED vars
  BY <1>2 DEF vars, IInv, TypeOK, NoOverlap, AirtimeStart, QueuedFramesOwned,
              StationClientsConnected
<1> QED
  BY <1>1, <1>2
-----------------------------------------------------------------------------
(***************************************************************************)
(* The invariant holds in every reachable state.                           *)
(***************************************************************************)
THEOREM Invariance == Spec => []IInv
BY InitIInv, NextIInv, PTL DEF Spec

(***************************************************************************)
(* The state of the medium keeps its type.                                 *)
(***************************************************************************)
THEOREM TypeCorrect == Spec => []TypeOK
<1>1. IInv => TypeOK
  BY DEF IInv
<1> QED
  BY Invariance, <1>1, PTL

(***************************************************************************)
(* queue_frame() never lets two queued frames overlap, except that a later *)
(* frame of higher priority may.                                           *)
(***************************************************************************)
THEOREM AirtimeExclusive == Spec => []NoOverlap
<1>1. IInv => NoOverlap
  BY DEF IInv
<1> QED
  BY Invariance, <1>1, PTL

(***************************************************************************)
(* Every queued frame has its delivery job and a connected source, through *)
(* any interleaving of arrivals, deliveries and disconnects.               *)
(***************************************************************************)
THEOREM FramesOwned == Spec => []QueuedFramesOwned
<1>1. IInv => QueuedFramesOwned
  BY DEF IInv
<1> QED
  BY Invariance, <1>1, PTL

(***************************************************************************)
(* A frame whose delivery job is the next one has no start job any more:   *)
(* the start job is due no later and was added before.                     *)
(***************************************************************************)
LEMMA AnnouncedFirst ==
    ASSUME TypeOK, NEW f \in queued, IsNextJob(<<"deliver", f>>)
    PROVE  <<"start", f>> \notin jobs
<1> SUFFICES ASSUME <<"start", f>> \in jobs
             PROVE  FALSE
  OBVIOUS
<1>1. f \in 1..Len(frame) /\ f \in Nat
  BY DEF TypeOK
<1>2. frame[f].job_start \in Nat /\ frame[f].duration \in Nat
  BY <1>1, FrameFields
<1>3. \/ JobTime(<<"deliver", f>>) < JobTime(<<"start", f>>)
      \/ Older(<<"deliver", f>>, <<"start", f>>)
  BY DEF IsNextJob
<1>4. ~Older(<<"deliver", f>>, <<"start", f>>)
  BY <1>1 DEF Older
<1> QED
  BY <1>2, <1>3, <1>4 DEF JobTime

(***************************************************************************)
(* Frames of one queue are delivered first in, first out, and announced    *)
(* before they are delivered.                                              *)
(***************************************************************************)
THEOREM DeliveryOrdered == Spec => DeliversInOrder
<1>1. IInv /\ [Next]_vars => [DeliveryOrder]_vars
  <2> SUFFICES ASSUME IInv, Next, NEW f \in queued,
                      callback' = <<"deliver", f>>, callback = Idle
               PROVE  /\ \A g \in Queue(frame[f].sender, frame[f].ac) : f <= g
                      /\ <<"start", f>> \notin jobs
    BY DEF DeliveryOrder
  <2> USE DEF IInv
  <2>1. CallDeliver(f)
    <3>1. callback' # callback /\ callback'[1] = "deliver" /\ callback'[2] = f
      BY DEF Idle
    <3>2. PICK h \in queued : CallDeliver(h)
      BY <3>1 DEF Next, QueueFrame, CallNextJob, CallStart, CallbackReturns,
                  Connect, RemoveClient, TimePasses
    <3>3. h = f
      BY <3>1, <3>2 DEF CallDeliver
    <3> QED
      BY <3>2, <3>3
  <2>2. f \in 1..Len(frame) /\ f \in Nat
    BY DEF TypeOK
  <2>3. frame[f].job_start \in Nat /\ frame[f].duration \in Nat
    BY <2>2, FrameFields
  <2>4. ASSUME NEW g \in Queue(frame[f].sender, frame[f].ac), ~(f <= g)
        PROVE  FALSE
    <3>1. g \in queued /\ g \in 1..Len(frame) /\ g < f /\ frame[g].ac = frame[f].ac
      <4>1. g \in queued /\ frame[g].ac = frame[f].ac
        BY <2>4 DEF Queue
      <4>2. g \in 1..Len(frame) /\ g \in Nat
        BY <4>1 DEF TypeOK
      <4> QED
        BY <4>1, <4>2, <2>2, <2>4
    <3>2. frame[g].job_start \in Nat /\ frame[g].ac \in Nat
      BY <3>1, FrameFields
    <3>3. frame[g].job_start <= frame[f].job_start
      BY <3>1, <3>2, <2>3 DEF NoOverlap, AirtimeStart
    <3>4. <<"deliver", g>> \in jobs \ {<<"deliver", f>>}
      <4>1. <<"deliver", g>> \in jobs
        BY <3>1 DEF QueuedFramesOwned
      <4>2. f # g
        BY <3>1, <2>2
      <4> QED
        BY <4>1, <4>2
    <3>5. \/ frame[f].job_start < frame[g].job_start
          \/ f < g
      BY <2>1, <3>4 DEF CallDeliver, IsNextJob, JobTime, Older
    <3> QED
      BY <3>1, <3>2, <3>3, <3>5, <2>2, <2>3
  <2>5. <<"start", f>> \notin jobs
    BY <2>1, AnnouncedFirst DEF CallDeliver
  <2> QED
    BY <2>4, <2>5
<1> QED
  BY Invariance, <1>1, PTL DEF Spec, DeliversInOrder

(***************************************************************************)
(* As long as no client leaves between the queueing of a frame of its and  *)
(* the end of the frame's start notification, wmediumd_remove_client()     *)
(* frees no frame that a job or a running notification refers to, however  *)
(* arrivals, deliveries and disconnects interleave.  Run MCMediumFreed     *)
(* shows that the condition is needed.                                     *)
(***************************************************************************)
THEOREM JobsLive == ~AnyTime => (Spec => []JobsOfLiveFrames)
<1> SUFFICES ASSUME ~AnyTime
             PROVE  Spec => []JobsOfLiveFrames
  OBVIOUS
<1>1. Init => JobsOfLiveFrames
  BY DEF Init, JobsOfLiveFrames, Idle
<1>2. IInv /\ JobsOfLiveFrames /\ [Next]_vars => JobsOfLiveFrames'
  <2> SUFFICES ASSUME IInv, JobsOfLiveFrames, [Next]_vars
               PROVE  JobsOfLiveFrames'
    OBVIOUS
  <2> USE DEF IInv
  <2>1. ASSUME NEW c \in Client, NEW s \in Station, NEW ac \in AC,
               NEW d \in Duration, NEW notify \in BOOLEAN,
               QueueFrame(c, s, ac, d, notify)
        PROVE  JobsOfLiveFrames'
    BY <2>1 DEF QueueFrame, JobsOfLiveFrames
  <2>2. ASSUME NEW f \in queued, CallStart(f)
        PROVE  JobsOfLiveFrames'
    BY <2>2 DEF CallStart, JobsOfLiveFrames
  <2>3. ASSUME NEW f \in queued, CallDeliver(f)
        PROVE  JobsOfLiveFrames'
    <3>1. <<"start", f>> \notin jobs
      BY <2>3, AnnouncedFirst DEF CallDeliver
    <3>2. /\ jobs' = jobs \ {<<"deliver", f>>}
          /\ queued' = queued \ {f}
          /\ callback' = <<"deliver", f>>
      BY <2>3 DEF CallDeliver
    <3>3. ASSUME NEW b \in jobs'
          PROVE  b[2] \in queued'
      <4>1. b \in jobs /\ b[2] \in queued
        BY <3>2 DEF JobsOfLiveFrames
      <4>2. b = <<b[1], b[2]>> /\ b[1] \in {"start", "deliver"}
        BY <4>1 DEF TypeOK
      <4>3. b[2] # f
        BY <3>1, <3>2, <4>1, <4>2
      <4> QED
        BY <3>2, <4>1, <4>3
    <3> QED
      BY <3>2, <3>3 DEF JobsOfLiveFrames
  <2>4. CASE CallbackReturns \/ TimePasses
    BY <2>4 DEF CallbackReturns, TimePasses, JobsOfLiveFrames, Idle
  <2>5. ASSUME NEW c \in Client, Connect(c)
        PROVE  JobsOfLiveFrames'
    BY <2>5 DEF Connect, JobsOfLiveFrames
  <2>6. ASSUME NEW c \in Client, RemoveClient(c)
        PROVE  JobsOfLiveFrames'
    <3> DEFINE gone == {f \in queued : frame[f].src = c}
    <3>1. /\ queued' = queued \ gone
          /\ jobs' = jobs \ ({"deliver"} \X gone)
          /\ callback' = callback
      BY <2>6 DEF RemoveClient
    <3>2. \A f \in gone : <<"start", f>> \notin jobs /\ callback # <<"start", f>>
      BY <2>6 DEF RemoveClient, MayLeave
    <3>3. ASSUME NEW b \in jobs'
          PROVE  b[2] \in queued'
      <4>1. b \in jobs /\ b[2] \in queued /\ b \notin {"deliver"} \X gone
        BY <3>1 DEF JobsOfLiveFrames
      <4>2. b = <<b[1], b[2]>> /\ b[1] \in {"start", "deliver"}
        BY <4>1 DEF TypeOK
      <4>3. b[2] \notin gone
        BY <3>2, <4>1, <4>2
      <4> QED
        BY <3>1, <4>1, <4>3
    <3>4. ASSUME callback[1] = "start"
          PROVE  callback[2] \in queued'
      <4>1. callback[2] \in queued
        BY <3>4 DEF JobsOfLiveFrames
      <4>2. callback = <<"start", callback[2]>>
        BY <3>4 DEF TypeOK, Idle
      <4> QED
        BY <3>1, <3>2, <4>1, <4>2
    <3> QED
      BY <3>1, <3>3, <3>4 DEF JobsOfLiveFrames
  <2>7. CASE UNCHANGED vars
    BY <2>7 DEF vars, JobsOfLiveFrames
  <2> QED
    BY <2>1, <2>2, <2>3, <2>4, <2>5, <2>6, <2>7 DEF Next, CallNextJob
<1> QED
  BY Invariance, <1>1, <1>2, PTL DEF Spec
-----------------------------------------------------------------------------
(* The medium implements the allocation of airtime.                        *)

(***************************************************************************)
(* The slots stay the same where frame and queued do; a frame that leaves  *)
(* its queue takes its slot along.                                         *)
(***************************************************************************)
Slot(f) ==
    [frame |-> f, ac |-> frame[f].ac, from |-> AirtimeStart(f),
     to |-> frame[f].job_start]

LEMMA SlotsShrink ==
    ASSUME frame' = frame, queued' \subseteq queued
    PROVE  Slots' \subseteq Slots
BY DEF Slots, AirtimeStart

(***************************************************************************)
(* A queued frame is a slot reserved at the abstract target: the tails of  *)
(* the queues end as late as all slots of the category or above.           *)
(***************************************************************************)
LEMMA QueueFrameReserves ==
    ASSUME IInv, NEW c \in Client, NEW s \in Station, NEW ac \in AC,
           NEW d \in Duration, NEW notify \in BOOLEAN,
           QueueFrame(c, s, ac, d, notify)
    PROVE  Air!Reserve(Len(frame) + 1, ac, d)
<1>1. TypeOK /\ NoOverlap
  BY DEF IInv
<1>n. PICK n : n = Len(frame) + 1
  OBVIOUS
<1>2. PICK t \in Time, src \in Client : Appended(c, s, ac, d, t, src)
  BY <1>1, QueueFrameAppends
<1>3. queued' = queued \cup {n} /\ current_time' = current_time
  BY <1>n DEF QueueFrame
<1>4. /\ queued \subseteq 1..Len(frame) /\ Len(frame) \in Nat /\ n \notin queued
      /\ t \in Nat /\ d \in Nat
  <2>1. queued \subseteq 1..Len(frame) /\ Len(frame) \in Nat
    BY <1>1, LenProperties DEF TypeOK
  <2>2. t \in Nat /\ d \in Nat
    BY BoundAssumption, DurationAssumption DEF Time
  <2> QED
    BY <2>1, <2>2, <1>n
<1> DEFINE new == [frame |-> n, ac |-> ac, from |-> t, to |-> t + d]
<1>5. Slots' = Slots \cup {new}
  <2>1. Slots' = {Slot(f)' : f \in queued'} /\ Slots = {Slot(f) : f \in queued}
    BY DEF Slots, Slot, AirtimeStart
  <2>2. ASSUME NEW f \in queued
        PROVE  Slot(f)' = Slot(f)
    <3>1. f \in 1..Len(frame) /\ frame'[f] = frame[f]
      BY <1>2, <1>4 DEF Appended
    <3> QED
      BY <3>1 DEF Slot, AirtimeStart
  <2>3. Slot(n)' = new
    <3>1. frame'[n].ac = ac /\ frame'[n].duration = d /\ frame'[n].job_start = t + d
      BY <1>2, <1>n DEF Appended
    <3>2. (t + d) - d = t
      BY <1>4
    <3> QED
      BY <3>1, <3>2 DEF Slot, AirtimeStart
  <2> HIDE DEF new
  <2>4. Slots' = {Slot(f)' : f \in queued} \cup {Slot(n)'}
    BY <2>1, <1>3
  <2>5. {Slot(f)' : f \in queued} = {Slot(f) : f \in queued}
    BY <2>2
  <2> QED
    BY <2>1, <2>3, <2>4, <2>5
<1>6. \A x \in Slots : x.frame # n
  BY <1>4 DEF Slots
<1>7. ASSUME NEW e \in Air!Ends(ac)
      PROVE  t >= e
  <2>1. PICK f \in queued : frame[f].ac <= ac /\ e = frame[f].job_start
    BY DEF Air!Ends, Slots
  <2>2. frame[f].job_start <= t
    BY <1>1, <1>2, <1>4, <2>1, TargetAfterAll DEF Appended
  <2>3. frame[f].job_start \in Nat
    BY <1>1, <1>4, FrameFields
  <2> QED
    BY <2>1, <2>2, <2>3, <1>4
<1>8. t >= current_time /\ t \in {current_time} \cup Air!Ends(ac)
  <2>1. t >= current_time
    BY <1>2 DEF Appended, IsTarget
  <2>2. CASE t # current_time
    <3>1. PICK f \in Tails(ac) : t = frame[f].job_start
      BY <1>2, <2>2 DEF Appended, IsTarget
    <3>2. f \in queued /\ frame[f].ac <= ac
      BY <3>1 DEF Tails
    <3>3. Slot(f) \in Slots /\ Slot(f).ac <= ac /\ Slot(f).to = t
      BY <3>1, <3>2 DEF Slots, Slot
    <3> QED
      BY <2>1, <3>3 DEF Air!Ends
  <2> QED
    BY <2>1, <2>2
<1> QED
  BY <1>n, <1>3, <1>5, <1>6, <1>7, <1>8 DEF Air!Reserve

(***************************************************************************)
(* The medium implements the abstract allocation of airtime: what the      *)
(* loop over the queue tails computes is the earliest time at which no     *)
(* queued frame of the same or a higher priority is on the air.            *)
(***************************************************************************)
THEOREM Refinement == Spec => ImplementsAirtime
<1>1. Init => Air!Init
  BY DEF Init, Air!Init, Slots
<1>2. IInv /\ [Next]_vars => [Air!Next]_<<current_time, Slots>>
  <2> SUFFICES ASSUME IInv, [Next]_vars
               PROVE  Air!Next \/ UNCHANGED <<current_time, Slots>>
    OBVIOUS
  <2>1. ASSUME NEW c \in Client, NEW s \in Station, NEW ac \in AC,
               NEW d \in Duration, NEW notify \in BOOLEAN,
               QueueFrame(c, s, ac, d, notify)
        PROVE  Air!Next
    <3>1. Len(frame) + 1 \in 1..MaxFrames
      <4>1. Len(frame) \in Nat /\ Len(frame) < MaxFrames
        BY <2>1, LenProperties DEF IInv, TypeOK, QueueFrame
      <4> QED
        BY <4>1, BoundAssumption
    <3>2. Air!Reserve(Len(frame) + 1, ac, d)
      BY <2>1, QueueFrameReserves
    <3> QED
      BY <3>1, <3>2 DEF Air!Next
  <2>2. ASSUME frame' = frame, queued' \subseteq queued,
               current_time' >= current_time
        PROVE  Air!Next
    BY <2>2, SlotsShrink DEF Air!Next, Air!Release
  <2>3. current_time \in Nat
    BY DEF IInv, TypeOK
  <2>4. CASE CallNextJob \/ CallbackReturns \/ TimePasses
    <3>1. frame' = frame /\ queued' \subseteq queued
      BY <2>4 DEF CallNextJob, CallStart, CallDeliver, CallbackReturns, TimePasses
    <3>2. current_time' >= current_time
      <4>1. \/ \E t \in Time : t >= current_time /\ current_time' = t
            \/ current_time' = current_time
            \/ \E t \in Time : t > current_time /\ current_time' = t
        BY <2>4 DEF CallNextJob, CallStart, CallDeliver, CallbackReturns,
                    TimePasses
      <4> QED
        BY <4>1, <2>3, BoundAssumption DEF Time
    <3> QED
      BY <3>1, <3>2, <2>2
  <2>5. ASSUME NEW c \in Client, Connect(c) \/ RemoveClient(c)
        PROVE  Air!Next
    <3>1. frame' = frame /\ queued' \subseteq queued /\ current_time' = current_time
      BY <2>5 DEF Connect, RemoveClient
    <3> QED
      BY <3>1, <2>2, <2>3
  <2>6. CASE UNCHANGED vars
    BY <2>6 DEF vars, Slots, AirtimeStart
  <2> QED
    BY <2>1, <2>4, <2>5, <2>6 DEF Next
<1> QED
  BY Invariance, <1>1, <1>2, PTL
     DEF Spec, ImplementsAirtime, Air!Spec, Air!vars
=============================================================================
