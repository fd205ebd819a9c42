---------------------------- MODULE VhostProofs ----------------------------
(***************************************************************************)
(* Proofs about the vhost-user device of module Vhost, for every number of *)
(* queues, every size of their rings, every width of the indices and any   *)
(* depth of nested callbacks.                                              *)
(***************************************************************************)
EXTENDS Vhost, TLAPS, FiniteSetTheorems, SequenceTheorems

(***************************************************************************)
(* The type invariant, with the domains that it leaves open.               *)
(***************************************************************************)
RingsTyped ==
    /\ avail_ring = [q \in Queue |-> avail_ring[q]]
    /\ used_ring = [q \in Queue |-> used_ring[q]]
    /\ free = [q \in Queue |-> free[q]]

(***************************************************************************)
(* Which function is at which point: only the callback scans and handles   *)
(* queues, only the kick waits for the time.                               *)
(***************************************************************************)
FramesKnown ==
    \A i \in 1..Len(stack) :
        /\ stack[i].at \in {"scan", "handle"} => stack[i].fn = "callback"
        /\ stack[i].at = "sync" <=> stack[i].fn = "kick"

(***************************************************************************)
(* The inductive invariant of the stack and the kicks.                     *)
(***************************************************************************)
IInv ==
    /\ TypeOK
    /\ RingsTyped
    /\ FramesKnown
    /\ RepliesCounted
    /\ KickNotLost

(***************************************************************************)
(* Under time control a driver that kicks with messages has at most one    *)
(* kick in progress, on its way or on the stack; and while one waits for   *)
(* the time the interrupt job is not scheduled.                            *)
(***************************************************************************)
OneKick ==
    /\ ~scheduler => ~irq_job /\ \A i \in 1..Len(stack) : stack[i].fn # "kick"
    /\ scheduler =>
         /\ ~fd_kicks
         /\ \A q, p \in Queue : kicked[q] /\ kicked[p] => q = p
         /\ \A i \in 1..Len(stack) : stack[i].fn = "kick" =>
               /\ ~irq_job
               /\ \A q \in Queue : ~kicked[q]
               /\ \A k \in 1..Len(stack) : stack[k].fn = "kick" => k = i
    /\ ~aborted
-----------------------------------------------------------------------------
(* The stack of the device's functions.                                    *)

(***************************************************************************)
(* The stack without its innermost function; with that function at another *)
(* point; and with one more.                                               *)
(***************************************************************************)
IsPop(s) ==
    /\ s \in Seq(Frame) /\ stack # <<>>
    /\ Len(s) = Len(stack) - 1
    /\ \A i \in 1..(Len(stack) - 1) : s[i] = stack[i]

IsSetTop(s, f) ==
    /\ s \in Seq(Frame) /\ stack # <<>>
    /\ Len(s) = Len(stack)
    /\ \A i \in 1..Len(stack) : s[i] = IF i = Len(stack) THEN f ELSE stack[i]

IsPush(s, f) ==
    /\ s \in Seq(Frame)
    /\ Len(s) = Len(stack) + 1
    /\ \A i \in 1..(Len(stack) + 1) :
          s[i] = IF i = Len(stack) + 1 THEN f ELSE stack[i]

LEMMA StackTop ==
    ASSUME TypeOK, stack # <<>>
    PROVE  /\ Len(stack) \in Nat /\ Len(stack) \in 1..Len(stack)
           /\ Top = stack[Len(stack)] /\ Top \in Frame
BY DEF TypeOK, Top

LEMMA PopIsPop ==
    ASSUME TypeOK, stack # <<>>
    PROVE  IsPop(Pop)
<1> DEFINE n == Len(stack)
<1>1. stack \in Seq(Frame) /\ n \in Nat \ {0} /\ n - 1 \in Int
  BY StackTop DEF TypeOK
<1>2. \A i \in 1..(n - 1) : stack[i] \in Frame
  BY <1>1
<1>3. /\ Pop \in Seq(Frame)
      /\ Len(Pop) = IF 1 <= n - 1 THEN (n - 1) - 1 + 1 ELSE 0
      /\ \A i \in 1..((n - 1) - 1 + 1) : Pop[i] = stack[1 + i - 1]
  BY <1>1, <1>2, SubSeqProperties DEF Pop
<1>4. Len(Pop) = n - 1
  <2>1. \A m \in Nat \ {0} : (IF 1 <= m - 1 THEN (m - 1) - 1 + 1 ELSE 0) = m - 1
    OBVIOUS
  <2> HIDE DEF n
  <2> QED
    BY <1>1, <1>3, <2>1, Zenon
<1>5. ASSUME NEW i \in 1..(n - 1)
      PROVE  Pop[i] = stack[i]
  <2>1. i \in 1..((n - 1) - 1 + 1) /\ 1 + i - 1 = i
    BY <1>1
  <2> QED
    BY <1>3, <2>1
<1> QED
  BY <1>3, <1>4, <1>5 DEF IsPop

LEMMA SetTopIsSetTop ==
    ASSUME TypeOK, stack # <<>>, NEW f \in Frame
    PROVE  IsSetTop(SetTop(f), f)
<1>1. stack \in Seq(Frame) /\ Len(stack) \in Nat /\ Len(stack) \in 1..Len(stack)
  BY StackTop DEF TypeOK
<1> DEFINE s == SetTop(f)
<1>2. DOMAIN s = 1..Len(stack)
  BY <1>1 DEF SetTop
<1>3. \A i \in 1..Len(stack) : s[i] = IF i = Len(stack) THEN f ELSE stack[i]
  BY <1>1 DEF SetTop
<1>4. \A i \in 1..Len(stack) : s[i] \in Frame
  BY <1>1, <1>3
<1>5. s \in [1..Len(stack) -> Frame]
  BY <1>1 DEF SetTop
<1>6. s \in Seq(Frame) /\ Len(s) = Len(stack)
  BY <1>1, <1>5
<1> QED
  BY <1>3, <1>6 DEF IsSetTop

LEMMA AppendIsPush ==
    ASSUME TypeOK, NEW f \in Frame
    PROVE  IsPush(Append(stack, f), f)
<1>1. stack \in Seq(Frame) /\ Len(stack) \in Nat
  BY DEF TypeOK
<1> QED
  BY <1>1 DEF IsPush

(***************************************************************************)
(* How many functions on a stack wait for a reply.                         *)
(***************************************************************************)
Waits(s) == {i \in 1..Len(s) : s[i].at = "wait"}

LEMMA WaitsFinite ==
    ASSUME NEW s \in Seq(Frame)
    PROVE  IsFiniteSet(Waits(s)) /\ Cardinality(Waits(s)) \in Nat
<1>1. Len(s) \in Nat
  OBVIOUS
<1>2. IsFiniteSet(1..Len(s)) /\ Waits(s) \subseteq 1..Len(s)
  BY <1>1, FS_Interval DEF Waits
<1>3. IsFiniteSet(Waits(s))
  BY <1>2, FS_Subset
<1> QED
  BY <1>3, FS_CardinalityType

LEMMA WaitsPop ==
    ASSUME TypeOK, NEW s, IsPop(s)
    PROVE  Cardinality(Waits(s)) =
             Cardinality(Waits(stack)) - (IF Top.at = "wait" THEN 1 ELSE 0)
<1>1. /\ stack \in Seq(Frame) /\ Len(stack) \in Nat
      /\ Len(stack) \in 1..Len(stack) /\ Top = stack[Len(stack)]
  BY StackTop DEF TypeOK, IsPop
<1>2. Waits(s) = Waits(stack) \ {Len(stack)}
  BY <1>1 DEF IsPop, Waits
<1>3. Len(stack) \in Waits(stack) <=> Top.at = "wait"
  BY <1>1 DEF Waits
<1>4. CASE Top.at = "wait"
  BY <1>1, <1>2, <1>3, <1>4, WaitsFinite, FS_RemoveElement
<1>5. CASE Top.at # "wait"
  <2>1. Waits(s) = Waits(stack)
    BY <1>2, <1>3, <1>5
  <2> QED
    BY <1>1, <1>5, <2>1, WaitsFinite
<1> QED
  BY <1>4, <1>5

LEMMA WaitsPush ==
    ASSUME TypeOK, NEW f \in Frame, NEW s, IsPush(s, f)
    PROVE  Cardinality(Waits(s)) =
             Cardinality(Waits(stack)) + (IF f.at = "wait" THEN 1 ELSE 0)
<1> DEFINE n == Len(stack) + 1
<1>1. stack \in Seq(Frame) /\ Len(stack) \in Nat /\ n \notin Waits(stack)
  BY DEF TypeOK, Waits
<1>2. CASE f.at = "wait"
  <2>1. Waits(s) = Waits(stack) \cup {n}
    BY <1>1, <1>2 DEF IsPush, Waits
  <2> QED
    BY <1>1, <1>2, <2>1, WaitsFinite, FS_AddElement
<1>3. CASE f.at # "wait"
  <2>1. Waits(s) = Waits(stack)
    BY <1>1, <1>3 DEF IsPush, Waits
  <2> QED
    BY <1>1, <1>3, <2>1, WaitsFinite
<1> QED
  BY <1>2, <1>3

LEMMA WaitsSetTop ==
    ASSUME TypeOK, NEW f \in Frame, NEW s, IsSetTop(s, f)
    PROVE  Cardinality(Waits(s)) =
             Cardinality(Waits(stack)) - (IF Top.at = "wait" THEN 1 ELSE 0)
                                       + (IF f.at = "wait" THEN 1 ELSE 0)
<1> DEFINE n == Len(stack)
<1>1. /\ stack \in Seq(Frame) /\ n \in Nat /\ n \in 1..n /\ Top = stack[n]
      /\ IsFiniteSet(Waits(stack)) /\ Cardinality(Waits(stack)) \in Nat
  BY StackTop, WaitsFinite DEF TypeOK, IsSetTop
<1>2. n \in Waits(stack) <=> Top.at = "wait"
  BY <1>1 DEF Waits
<1> DEFINE W == Waits(stack) \ {n}
<1>3. /\ IsFiniteSet(W) /\ n \notin W /\ Cardinality(W) \in Nat
      /\ Cardinality(W) =
           Cardinality(Waits(stack)) - (IF Top.at = "wait" THEN 1 ELSE 0)
  <2>1. CASE Top.at = "wait"
    BY <1>1, <1>2, <2>1, FS_RemoveElement, FS_CardinalityType
  <2>2. CASE Top.at # "wait"
    <3>1. W = Waits(stack) /\ n \notin W
      BY <1>2, <2>2
    <3> HIDE DEF W
    <3> QED
      BY <1>1, <2>2, <3>1
  <2> QED
    BY <2>1, <2>2
<1>4. Waits(s) = IF f.at = "wait" THEN W \cup {n} ELSE W
  BY <1>1 DEF IsSetTop, Waits
<1>5. Cardinality(Waits(s)) = Cardinality(W) + (IF f.at = "wait" THEN 1 ELSE 0)
  <2> HIDE DEF W
  <2>1. CASE f.at = "wait"
    BY <1>3, <1>4, <2>1, FS_AddElement
  <2>2. CASE f.at # "wait"
    BY <1>3, <1>4, <2>2
  <2> QED
    BY <2>1, <2>2
<1> HIDE DEF W
<1> QED
  BY <1>1, <1>3, <1>5
-----------------------------------------------------------------------------
(* Types.                                                                  *)

RingTypes ==
    /\ avail_idx \in [Queue -> Index] /\ used_idx \in [Queue -> Index]
    /\ last_used \in [Queue -> Index] /\ last_avail_idx \in [Queue -> Index]
    /\ \A q \in Queue : /\ avail_ring[q] \in [Desc(q) -> Desc(q)]
                        /\ used_ring[q] \in [Desc(q) -> Desc(q)]
                        /\ free[q] \subseteq Desc(q)
    /\ RingsTyped

FlagTypes ==
    /\ kicked \in [Queue -> BOOLEAN] /\ kick_due \in [Queue -> BOOLEAN]
    /\ enabled \in [Queue -> BOOLEAN] /\ triggered \in [Queue -> BOOLEAN]
    /\ irq_job \in BOOLEAN /\ freed \in BOOLEAN /\ scheduler \in BOOLEAN
    /\ fd_kicks \in BOOLEAN /\ aborted \in BOOLEAN

StackTypes ==
    /\ stack \in Seq(Frame) /\ calls \in Nat /\ replies \in Nat
    /\ \A i \in 1..Len(stack) : stack[i].at # "scan" => stack[i].virtq \in Queue

LEMMA TypeParts ==
    TypeOK /\ RingsTyped <=> RingTypes /\ FlagTypes /\ StackTypes
BY DEF TypeOK, RingTypes, FlagTypes, StackTypes

LEMMA ModRange ==
    ASSUME NEW n \in Nat \ {0}, NEW a \in Int
    PROVE  a % n \in 0..(n - 1)
OBVIOUS

LEMMA Sizes ==
    /\ Queue \subseteq Nat /\ InputQueues \subseteq Queue
    /\ \A q \in Queue : /\ Num[q] \in Nat \ {0} /\ IdxMod \in Nat \ {0}
                        /\ \A i \in Int : i % Num[q] \in Desc(q)
                        /\ 0 \in Desc(q) /\ 0 \in Index
                        /\ \A i \in Index : After(i) \in Index
<1>1. ASSUME NEW q \in Queue
      PROVE  /\ Num[q] \in Nat \ {0} /\ IdxMod \in Nat \ {0}
             /\ \A i \in Int : i % Num[q] \in Desc(q)
             /\ 0 \in Desc(q) /\ 0 \in Index
             /\ \A i \in Index : After(i) \in Index
  <2>1. Num[q] \in Nat \ {0} /\ IdxMod \in Nat \ {0}
    BY RingAssumption
  <2>2. \A i \in Int : i % Num[q] \in Desc(q)
    BY <2>1, ModRange DEF Desc
  <2>3. \A i \in Index : After(i) \in Index
    BY <2>1, ModRange DEF Index, After
  <2> QED
    BY <2>1, <2>2, <2>3 DEF Desc, Index
<1>2. Queue \subseteq Nat /\ InputQueues \subseteq Queue
  BY QueueAssumption DEF Queue
<1> QED
  BY <1>1, <1>2

(***************************************************************************)
(* An update of one ring of one queue.                                     *)
(***************************************************************************)
LEMMA RingUpdate ==
    ASSUME NEW r, r = [q \in Queue |-> r[q]],
           \A q \in Queue : r[q] \in [Desc(q) -> Desc(q)],
           NEW p \in Queue, NEW i \in Desc(p), NEW d \in Desc(p),
           NEW s, s = [r EXCEPT ![p][i] = d]
    PROVE  /\ s = [q \in Queue |-> s[q]]
           /\ \A q \in Queue : s[q] \in [Desc(q) -> Desc(q)]
           /\ s[p] = [r[p] EXCEPT ![i] = d]
           /\ \A q \in Queue : q # p => s[q] = r[q]
<1>1. s = [r EXCEPT ![p] = [r[p] EXCEPT ![i] = d]]
  OBVIOUS
<1>2. DOMAIN s = Queue /\ s = [q \in Queue |-> s[q]]
  BY <1>1
<1>3. s[p] = [r[p] EXCEPT ![i] = d] /\ \A q \in Queue : q # p => s[q] = r[q]
  BY <1>1
<1> QED
  BY <1>2, <1>3

(***************************************************************************)
(* The steps that change the rings.                                        *)
(***************************************************************************)
LEMMA RingSteps ==
    ASSUME StackTypes, Next
    PROVE  \/ \E q \in Queue :
                \/ HasBuffer(q) /\ UseBuffer(q)
                \/ SetVringAddr(q) \/ AddBuffer(q) \/ TakeUsed(q)
           \/ UNCHANGED <<rings, last_avail_idx>>
<1>1. CASE Device
  <2>1. CASE HandleBuffer
    <3>1. /\ stack # <<>> /\ Top.at = "handle"
          /\ HasBuffer(Top.virtq) /\ UseBuffer(Top.virtq)
      BY <2>1 DEF HandleBuffer
    <3>2. Top.virtq \in Queue
      BY <3>1 DEF StackTypes, Top
    <3> QED
      BY <3>1, <3>2
  <2> QED
    BY <1>1, <2>1 DEF Device, QueueHandled, ReadReply, SyncDone, IrqJob,
                      ScanQueue, virtqs
<1>2. CASE Driver
  BY <1>2 DEF Driver, SendKick, ReplyToCall, virtqs
<1>3. CASE Messages
  BY <1>3 DEF Messages, Kick, Notify, SetVringEnable, DevFree, virtqs
<1> QED
  BY <1>1, <1>2, <1>3 DEF Next

LEMMA RingTypesStep ==
    ASSUME RingTypes, StackTypes, Next
    PROVE  RingTypes'
<1> USE DEF RingTypes
<1>1. ASSUME NEW q \in Queue, UseBuffer(q)
      PROVE  RingTypes'
  <2>1. /\ used_idx[q] % Num[q] \in Desc(q)
        /\ last_avail_idx[q] % Num[q] \in Desc(q)
        /\ After(used_idx[q]) \in Index /\ After(last_avail_idx[q]) \in Index
    BY Sizes DEF Index
  <2>2. avail_ring[q][last_avail_idx[q] % Num[q]] \in Desc(q)
    BY <2>1
  <2>3. /\ used_ring' = [p \in Queue |-> used_ring'[p]]
        /\ \A p \in Queue : used_ring'[p] \in [Desc(p) -> Desc(p)]
    BY <1>1, <2>1, <2>2, RingUpdate DEF UseBuffer, RingsTyped
  <2> QED
    BY <1>1, <2>1, <2>3 DEF UseBuffer, RingsTyped
<1>2. ASSUME NEW q \in Queue, SetVringAddr(q)
      PROVE  RingTypes'
  <2>1. 0 \in Index
    BY Sizes
  <2>2. \A p \in Queue : free'[p] \subseteq Desc(p)
    BY <1>2 DEF SetVringAddr, RingsTyped
  <2>3. free' = [p \in Queue |-> free'[p]]
    BY <1>2 DEF SetVringAddr, RingsTyped
  <2> QED
    BY <1>2, <2>1, <2>2, <2>3 DEF SetVringAddr, RingsTyped
<1>3. ASSUME NEW q \in Queue, AddBuffer(q)
      PROVE  RingTypes'
  <2>1. avail_idx[q] % Num[q] \in Desc(q) /\ After(avail_idx[q]) \in Index
    BY Sizes DEF Index
  <2>2. PICK d \in free[q] :
          /\ avail_ring' = [avail_ring EXCEPT ![q][avail_idx[q] % Num[q]] = d]
          /\ free' = [free EXCEPT ![q] = @ \ {d}]
    BY <1>3 DEF AddBuffer
  <2>3. /\ avail_ring' = [p \in Queue |-> avail_ring'[p]]
        /\ \A p \in Queue : avail_ring'[p] \in [Desc(p) -> Desc(p)]
    BY <2>1, <2>2, RingUpdate DEF RingsTyped
  <2>4. /\ \A p \in Queue : free'[p] \subseteq Desc(p)
        /\ free' = [p \in Queue |-> free'[p]]
    BY <2>2 DEF RingsTyped
  <2> QED
    BY <1>3, <2>1, <2>3, <2>4 DEF AddBuffer, RingsTyped, virtqs
<1>4. ASSUME NEW q \in Queue, TakeUsed(q)
      PROVE  RingTypes'
  <2>1. last_used[q] % Num[q] \in Desc(q) /\ After(last_used[q]) \in Index
    BY Sizes DEF Index
  <2>2. /\ \A p \in Queue : free'[p] \subseteq Desc(p)
        /\ free' = [p \in Queue |-> free'[p]]
    BY <1>4, <2>1, ZenonT(40) DEF TakeUsed, RingsTyped
  <2> QED
    BY <1>4, <2>1, <2>2 DEF TakeUsed, RingsTyped, virtqs
<1>5. CASE UNCHANGED <<rings, last_avail_idx>>
  BY <1>5 DEF rings, RingsTyped
<1> QED
  BY <1>1, <1>2, <1>3, <1>4, <1>5, RingSteps

(***************************************************************************)
(* What StackTypes and FramesKnown say of one function on the stack.       *)
(***************************************************************************)
FrameOK(f) ==
    /\ f \in Frame
    /\ f.at # "scan" => f.virtq \in Queue
    /\ f.at \in {"scan", "handle"} => f.fn = "callback"
    /\ f.at = "sync" <=> f.fn = "kick"

StackInv ==
    /\ StackTypes
    /\ FramesKnown
    /\ RepliesCounted

(***************************************************************************)
(* The stack stays well-formed if the changed function is, and the replies *)
(* are counted if the calls change with the functions that wait.           *)
(***************************************************************************)
LEMMA StackInvKept ==
    ASSUME TypeOK, FramesKnown, RepliesCounted,
           stack' \in Seq(Frame), calls' \in Nat, replies' \in Nat,
           \A i \in 1..Len(stack') :
              FrameOK(stack'[i]) \/ (i \in 1..Len(stack) /\ stack'[i] = stack[i]),
           Cardinality(Waits(stack')) = calls' + replies'
    PROVE  StackInv'
<1>1. RepliesCounted'
  BY DEF RepliesCounted, Waits
<1>2. \A i \in 1..Len(stack) : FrameOK(stack[i])
  BY DEF TypeOK, FramesKnown, FrameOK
<1>3. \A i \in 1..Len(stack') : FrameOK(stack'[i])
  BY <1>2
<1>4. StackTypes' /\ FramesKnown'
  BY <1>3 DEF StackTypes, FramesKnown, FrameOK
<1> QED
  BY <1>1, <1>4 DEF StackInv

LEMMA PopKept ==
    ASSUME TypeOK, FramesKnown, RepliesCounted,
           stack # <<>>, stack' = Pop, calls' = calls, replies' \in Nat,
           replies' = replies - (IF Top.at = "wait" THEN 1 ELSE 0)
    PROVE  StackInv'
<1>1. IsPop(stack') /\ stack \in Seq(Frame) /\ Len(stack) \in Nat
      /\ calls \in Nat /\ replies \in Nat
  BY PopIsPop DEF TypeOK
<1>2. Cardinality(Waits(stack')) =
        Cardinality(Waits(stack)) - (IF Top.at = "wait" THEN 1 ELSE 0)
  BY <1>1, WaitsPop
<1>3. Cardinality(Waits(stack)) = calls + replies
  BY DEF RepliesCounted, Waits
<1>4. Cardinality(Waits(stack')) = calls' + replies'
  BY <1>1, <1>2, <1>3
<1>5. \A i \in 1..Len(stack') : i \in 1..Len(stack) /\ stack'[i] = stack[i]
  BY <1>1 DEF IsPop
<1>6. stack' \in Seq(Frame)
  BY <1>1 DEF IsPop
<1> QED
  BY <1>1, <1>4, <1>5, <1>6, StackInvKept

LEMMA SetTopKept ==
    ASSUME TypeOK, FramesKnown, RepliesCounted,
           NEW f, FrameOK(f), IsSetTop(stack', f),
           calls' \in Nat, replies' \in Nat,
           calls' + replies' = (calls + replies)
               - (IF Top.at = "wait" THEN 1 ELSE 0)
               + (IF f.at = "wait" THEN 1 ELSE 0)
    PROVE  StackInv'
<1>1. /\ f \in Frame /\ stack \in Seq(Frame)
      /\ Len(stack) \in Nat /\ calls \in Nat /\ replies \in Nat
  BY DEF TypeOK, FrameOK
<1>2. Cardinality(Waits(stack')) =
        Cardinality(Waits(stack)) - (IF Top.at = "wait" THEN 1 ELSE 0)
                                  + (IF f.at = "wait" THEN 1 ELSE 0)
  BY <1>1, WaitsSetTop
<1>3. Cardinality(Waits(stack)) = calls + replies
  BY DEF RepliesCounted, Waits
<1>4. Cardinality(Waits(stack')) = calls' + replies'
  BY <1>2, <1>3
<1>5. \A i \in 1..Len(stack') :
        FrameOK(stack'[i]) \/ (i \in 1..Len(stack) /\ stack'[i] = stack[i])
  BY <1>1 DEF IsSetTop
<1>6. stack' \in Seq(Frame)
  BY <1>1 DEF IsSetTop
<1> QED
  BY <1>4, <1>5, <1>6, StackInvKept

LEMMA PushKept ==
    ASSUME TypeOK, FramesKnown, RepliesCounted,
           NEW f, FrameOK(f), stack' = Append(stack, f),
           calls' \in Nat, replies' = replies,
           calls' = calls + (IF f.at = "wait" THEN 1 ELSE 0)
    PROVE  StackInv'
<1>1. /\ f \in Frame /\ IsPush(stack', f) /\ stack \in Seq(Frame)
      /\ Len(stack) \in Nat /\ calls \in Nat /\ replies \in Nat
  BY AppendIsPush, SMTT(30) DEF TypeOK, FrameOK
<1>2. Cardinality(Waits(stack')) =
        Cardinality(Waits(stack)) + (IF f.at = "wait" THEN 1 ELSE 0)
  BY <1>1, WaitsPush
<1>3. Cardinality(Waits(stack)) = calls + replies
  BY DEF RepliesCounted, Waits
<1>4. Cardinality(Waits(stack')) = calls' + replies'
  BY <1>1, <1>2, <1>3
<1>5. \A i \in 1..Len(stack') :
        FrameOK(stack'[i]) \/ (i \in 1..Len(stack) /\ stack'[i] = stack[i])
  BY <1>1 DEF IsPush
<1>6. stack' \in Seq(Frame)
  BY <1>1 DEF IsPush
<1> QED
  BY <1>1, <1>4, <1>5, <1>6, StackInvKept

(***************************************************************************)
(* Every step keeps the stack well-formed and the replies counted: a call  *)
(* is sent exactly when a function begins to wait, and a reply is read     *)
(* exactly when one stops.                                                 *)
(***************************************************************************)
LEMMA StackStep ==
    ASSUME TypeOK, FramesKnown, RepliesCounted, Next
    PROVE  StackInv'
<1> DEFINE n == Len(stack)
<1>0. ASSUME stack # <<>>, NEW f, FrameOK(f), stack' = SetTop(f)
      PROVE  IsSetTop(stack', f)
  BY <1>0, SetTopIsSetTop DEF FrameOK
<1>1. /\ stack \in Seq(Frame) /\ n \in Nat /\ calls \in Nat /\ replies \in Nat
      /\ \A i \in 1..n : FrameOK(stack[i])
  BY DEF TypeOK, FramesKnown, FrameOK
<1>2. stack # <<>> => FrameOK(Top)
  BY <1>1, StackTop
<1>3. 0 \in 0..MaxQueues /\ Queue \subseteq 0..MaxQueues
      /\ \A q \in Queue : q + 1 \in 0..MaxQueues
      /\ \A r \in 0..MaxQueues : r # MaxQueues => r \in Queue /\ r + 1 \in 0..MaxQueues
  BY QueueAssumption DEF Queue
<1>4. FrameOK(CallbackFrame) /\ CallbackFrame.at = "scan"
  BY <1>3 DEF FrameOK, CallbackFrame, Frame
<1>5. \A q \in Queue : FrameOK(SyncFrame(q)) /\ SyncFrame(q).at = "sync"
  BY <1>3 DEF FrameOK, SyncFrame, Frame
<1>6. CASE UNCHANGED <<stack, calls, replies>>
  BY <1>1, <1>6 DEF StackInv, StackTypes, FramesKnown, FrameOK, RepliesCounted
<1>7. CASE HandleBuffer
  <2>1. stack # <<>> /\ Top.at = "handle" /\ Call /\ replies' = replies
    BY <1>7 DEF HandleBuffer
  <2>2. CASE ~ReplyAck
    BY <1>6, <1>7, <2>2 DEF HandleBuffer, Call
  <2>3. CASE ReplyAck
    <3> DEFINE f == [Top EXCEPT !.at = "wait"]
    <3>1. FrameOK(f) /\ f.at = "wait"
      BY <1>2, <2>1 DEF FrameOK, Frame
    <3>2. stack' = SetTop(f) /\ calls' = calls + 1
      BY <1>7, <2>3 DEF HandleBuffer, Call
    <3> HIDE DEF f
    <3> QED
      BY <1>1, <2>1, <3>1, <3>2, <1>0, SetTopKept
  <2> QED
    BY <2>2, <2>3
<1>8. CASE QueueHandled
  <2> DEFINE f == [Top EXCEPT !.at = "scan", !.virtq = @ + 1]
  <2>1. /\ stack # <<>> /\ Top.at = "handle" /\ stack' = SetTop(f)
        /\ UNCHANGED <<calls, replies>>
    BY <1>8 DEF QueueHandled
  <2>2. FrameOK(f) /\ f.at = "scan"
    BY <1>2, <1>3, <2>1 DEF FrameOK, Frame
  <2> HIDE DEF f
  <2> QED
    BY <1>1, <2>1, <2>2, <1>0, SetTopKept
<1>9. CASE ReadReply
  <2>1. /\ stack # <<>> /\ Top.at = "wait" /\ replies > 0 /\ replies' = replies - 1
        /\ calls' = calls
    BY <1>9 DEF ReadReply
  <2>2. CASE Top.fn = "notify"
    <3>1. stack' = Pop
      BY <1>9, <2>2 DEF ReadReply
    <3> QED
      BY <1>1, <2>1, <3>1, PopKept
  <2>3. CASE Top.fn # "notify"
    <3> DEFINE f == [Top EXCEPT !.at = "handle"]
    <3>1. stack' = SetTop(f)
      BY <1>9, <2>3 DEF ReadReply
    <3>2. FrameOK(f) /\ f.at = "handle"
      BY <1>2, <2>1, <2>3 DEF FrameOK, Frame
    <3> HIDE DEF f
    <3> QED
      BY <1>1, <2>1, <3>1, <3>2, <1>0, SetTopKept
  <2> QED
    BY <2>2, <2>3
<1>10. CASE SyncDone
  BY <1>1, <1>10, PopKept DEF SyncDone
<1>11. CASE IrqJob
  <2>1. stack' = Append(stack, CallbackFrame)
    BY <1>11 DEF IrqJob
  <2> QED
    BY <1>1, <1>4, <1>11, <2>1, PushKept DEF IrqJob
<1>12. CASE ScanQueue
  <2>1. /\ stack # <<>> /\ Top.at = "scan" /\ UNCHANGED <<calls, replies>>
        /\ Top.virtq \in 0..MaxQueues
    BY <1>2, <1>12 DEF ScanQueue, FrameOK, Frame
  <2>2. CASE stack' = Pop
    BY <1>1, <2>1, <2>2, PopKept
  <2>3. CASE Top.virtq < MaxQueues /\ stack' = SetTop([Top EXCEPT !.virtq = @ + 1])
    <3> DEFINE f == [Top EXCEPT !.virtq = @ + 1]
    <3>1. FrameOK(f) /\ f.at = "scan" /\ stack' = SetTop(f)
      BY <1>2, <1>3, <2>1, <2>3, QueueAssumption DEF FrameOK, Frame
    <3> HIDE DEF f
    <3> QED
      BY <1>1, <2>1, <3>1, <1>0, SetTopKept
  <2>4. CASE Top.virtq < MaxQueues /\ stack' = SetTop([Top EXCEPT !.at = "handle"])
    <3> DEFINE f == [Top EXCEPT !.at = "handle"]
    <3>1. Top.virtq \in Queue
      BY <2>1, <2>4, QueueAssumption DEF Queue
    <3>2. FrameOK(f) /\ f.at = "handle" /\ stack' = SetTop(f)
      BY <1>2, <2>1, <2>4, <3>1 DEF FrameOK, Frame
    <3> HIDE DEF f
    <3> QED
      BY <1>1, <2>1, <3>2, <1>0, SetTopKept
  <2> QED
    BY <1>12, <2>2, <2>3, <2>4 DEF ScanQueue
<1>13. CASE ReplyToCall
  <2>1. calls > 0 /\ calls' = calls - 1 /\ replies' = replies + 1 /\ stack' = stack
    BY <1>13 DEF ReplyToCall
  <2>2. calls' \in Nat /\ replies' \in Nat /\ calls' + replies' = calls + replies
    BY <1>1, <2>1
  <2> QED
    BY <1>1, <2>1, <2>2, StackInvKept DEF RepliesCounted, Waits
<1>14. ASSUME NEW q \in Queue, Kick(q)
       PROVE  StackInv'
  <2>1. VirtqKick(q) /\ UNCHANGED <<calls, replies>>
    BY <1>14 DEF Kick
  <2>2. CASE stack' = Append(stack, CallbackFrame)
    BY <1>1, <1>4, <2>1, <2>2, PushKept
  <2>3. CASE stack' = Append(stack, SyncFrame(q))
    BY <1>1, <1>5, <2>1, <2>3, PushKept
  <2> QED
    BY <1>6, <2>1, <2>2, <2>3 DEF VirtqKick
<1>15. ASSUME NEW q \in Queue, Notify(q)
       PROVE  StackInv'
  <2>1. stack = <<>> /\ Call /\ replies' = replies
    BY <1>15 DEF Notify
  <2>2. CASE ~ReplyAck
    BY <1>6, <1>15, <2>1, <2>2 DEF Notify, Call
  <2>3. CASE ReplyAck
    <3> DEFINE f == [fn |-> "notify", virtq |-> q, at |-> "wait"]
    <3>1. FrameOK(f) /\ f.at = "wait"
      BY <1>3 DEF FrameOK, Frame
    <3>2. stack' = Append(stack, f) /\ calls' = calls + 1
      BY <1>15, <2>1, <2>3 DEF Notify, Call
    <3> HIDE DEF f
    <3> QED
      BY <1>1, <2>1, <3>1, <3>2, PushKept
  <2> QED
    BY <2>2, <2>3
<1>16. CASE Device
  BY <1>7, <1>8, <1>9, <1>10, <1>11, <1>12, <1>16 DEF Device
<1>17. CASE Driver
  BY <1>6, <1>13, <1>17 DEF Driver, AddBuffer, SendKick, TakeUsed
<1>18. CASE Messages
  BY <1>6, <1>14, <1>15, <1>18 DEF Messages, SetVringAddr, SetVringEnable, DevFree
<1> QED
  BY <1>16, <1>17, <1>18 DEF Next
-----------------------------------------------------------------------------
(* Kicks.                                                                  *)

LEMMA FlagTypesStep ==
    ASSUME FlagTypes, Next
    PROVE  FlagTypes'
<1> USE DEF FlagTypes
<1>1. CASE Device
  BY <1>1 DEF Device, HandleBuffer, QueueHandled, ReadReply, SyncDone, IrqJob,
              ScanQueue, driver, virtqs, life
<1>2. CASE Driver
  BY <1>2 DEF Driver, AddBuffer, SendKick, TakeUsed, ReplyToCall, driver,
              virtqs, life
<1>3. CASE Messages
  BY <1>3, ZenonT(40) DEF Messages, Kick, VirtqKick, Notify, SetVringAddr, SetVringEnable,
              DevFree, driver, virtqs, life
<1> QED
  BY <1>1, <1>2, <1>3 DEF Next

(***************************************************************************)
(* The buffers of queue q will be seen.                                    *)
(***************************************************************************)
WillBeScanned(q) ==
    \E i \in 1..Len(stack) : WillScan(i, q) \/ stack[i].at = "sync"

BeingHandled(q) == \E i \in 1..Len(stack) : Handles(i, q)

Covered(q) ==
    \/ kick_due[q] \/ kicked[q]
    \/ BeingHandled(q)
    \/ triggered[q] /\ (irq_job \/ WillBeScanned(q))

(***************************************************************************)
(* A new function on the stack, or one that goes on, leaves the others     *)
(* where they are.                                                         *)
(***************************************************************************)
LEMMA PushCovers ==
    ASSUME TypeOK, NEW f, IsPush(stack', f), NEW q \in Queue
    PROVE  /\ BeingHandled(q) => BeingHandled(q)'
           /\ WillBeScanned(q) => WillBeScanned(q)'
           /\ f.at = "sync" => WillBeScanned(q)'
           /\ f.fn = "callback" /\ f.virtq = 0 /\ f.at = "scan" => WillBeScanned(q)'
<1>1. Len(stack) \in Nat /\ Len(stack') = Len(stack) + 1 /\ q \in Nat
  BY Sizes DEF TypeOK, IsPush
<1>2. /\ \A i \in 1..Len(stack) : i \in 1..Len(stack') /\ stack'[i] = stack[i]
      /\ Len(stack') \in 1..Len(stack') /\ stack'[Len(stack')] = f
  BY <1>1 DEF IsPush
<1> QED
  BY <1>1, <1>2 DEF BeingHandled, WillBeScanned, Handles, WillScan

LEMMA SetTopCovers ==
    ASSUME TypeOK, NEW f, IsSetTop(stack', f), NEW q \in Queue
    PROVE  /\ (f.fn = Top.fn /\ f.virtq = Top.virtq /\ f.at # "scan")
                => (BeingHandled(q) => BeingHandled(q)')
           /\ (Top.fn # "callback" \/ Top.virtq # q \/ Top.at = "scan")
                => (BeingHandled(q) => BeingHandled(q)')
           /\ (f.fn = "callback" /\ f.virtq = q /\ f.at # "scan")
                => BeingHandled(q)'
           /\ Top.at # "sync" /\ ( WillScan(Len(stack), q) =>
                /\ f.fn = "callback"
                /\ f.virtq < q \/ (f.virtq = q /\ f.at = "scan") )
                => (WillBeScanned(q) => WillBeScanned(q)')
<1>1. Len(stack) \in Nat /\ Len(stack') = Len(stack) /\ stack # <<>>
  BY DEF TypeOK, IsSetTop
<1>2. Len(stack) \in 1..Len(stack) /\ stack[Len(stack)] = Top
  BY <1>1, StackTop
<1>3. /\ \A i \in 1..Len(stack) : i # Len(stack) => stack'[i] = stack[i]
      /\ stack'[Len(stack)] = f
  BY <1>1, <1>2 DEF IsSetTop
<1> QED
  BY <1>1, <1>2, <1>3 DEF BeingHandled, WillBeScanned, Handles, WillScan

LEMMA PopCovers ==
    ASSUME TypeOK, IsPop(stack'), NEW q \in Queue
    PROVE  /\ (Top.fn # "callback" \/ Top.virtq # q \/ Top.at = "scan")
                => (BeingHandled(q) => BeingHandled(q)')
           /\ Top.at # "sync" /\ ~WillScan(Len(stack), q)
                => (WillBeScanned(q) => WillBeScanned(q)')
<1>1. Len(stack) \in Nat /\ Len(stack') = Len(stack) - 1 /\ stack # <<>>
  BY DEF TypeOK, IsPop
<1>2. Len(stack) \in 1..Len(stack) /\ stack[Len(stack)] = Top
  BY <1>1, StackTop
<1>3. \A i \in 1..Len(stack) : i # Len(stack) =>
        i \in 1..Len(stack') /\ stack'[i] = stack[i]
  BY <1>1, <1>2 DEF IsPop
<1> QED
  BY <1>1, <1>2, <1>3 DEF BeingHandled, WillBeScanned, Handles, WillScan

(***************************************************************************)
(* No step loses a kick.                                                   *)
(***************************************************************************)
LEMMA KickStep ==
    ASSUME TypeOK, RingsTyped, FramesKnown, KickNotLost, Next
    PROVE  KickNotLost'
<1> SUFFICES ASSUME NEW q \in InputQueues, ~freed', HasBuffer(q)'
             PROVE  Covered(q)'
  BY DEF KickNotLost, Covered, BeingHandled, WillBeScanned
<1>1. /\ q \in Queue /\ q \in Nat /\ FlagTypes /\ StackTypes
      /\ last_avail_idx \in [Queue -> Index] /\ avail_idx \in [Queue -> Index]
  BY Sizes, TypeParts DEF RingTypes
<1>2. ~freed /\ HasBuffer(q) => Covered(q)
  BY DEF KickNotLost, Covered, BeingHandled, WillBeScanned
<1>3. ~freed
  BY <1>1 DEF Next, Device, HandleBuffer, QueueHandled, ReadReply, SyncDone,
         IrqJob, ScanQueue, Driver, AddBuffer, SendKick, TakeUsed, ReplyToCall,
         Messages, Kick, Notify, SetVringAddr, SetVringEnable, DevFree, life,
         FlagTypes
<1>4. CASE UNCHANGED <<stack, triggered, irq_job, kicked, kick_due, avail_idx,
                       last_avail_idx>>
  BY <1>2, <1>3, <1>4 DEF HasBuffer, Covered, BeingHandled, WillBeScanned,
                          Handles, WillScan
<1>5. CASE HandleBuffer
  <2>1. /\ stack # <<>> /\ Top.at = "handle" /\ HasBuffer(Top.virtq)
        /\ UseBuffer(Top.virtq)
        /\ UNCHANGED <<kicked, kick_due, triggered, irq_job>>
    BY <1>5 DEF HandleBuffer, driver
  <2>2. Top.fn = "callback" /\ Top.virtq \in Queue /\ Top \in Frame
    BY <2>1, StackTop DEF FramesKnown, TypeOK
  <2>3. HasBuffer(q)
    BY <1>1, <2>1, <2>2 DEF HasBuffer, UseBuffer
  <2>4. CASE stack' = stack
    BY <1>2, <1>3, <2>1, <2>3, <2>4 DEF Covered, BeingHandled, WillBeScanned,
                                        Handles, WillScan
  <2>5. CASE stack' # stack
    <3> DEFINE f == [Top EXCEPT !.at = "wait"]
    <3>1. /\ stack' = SetTop(f) /\ f \in Frame
          /\ f.fn = Top.fn /\ f.virtq = Top.virtq /\ f.at = "wait"
      BY <1>5, <2>2, <2>5 DEF HandleBuffer, Frame
    <3>2. IsSetTop(stack', f)
      BY <2>1, <3>1, SetTopIsSetTop
    <3> HIDE DEF f
    <3>3. /\ BeingHandled(q) => BeingHandled(q)'
          /\ Top.at # "sync"
          /\ WillScan(Len(stack), q) => f.virtq < q
      BY <1>1, <2>1, <2>2, <3>1, <3>2, SetTopCovers DEF WillScan, Top
    <3>4. WillBeScanned(q) => WillBeScanned(q)'
      BY <1>1, <2>2, <3>1, <3>2, <3>3, SetTopCovers
    <3> QED
      BY <1>2, <1>3, <2>1, <2>3, <3>3, <3>4 DEF Covered
  <2> QED
    BY <2>4, <2>5
<1>6. CASE QueueHandled
  <2> DEFINE f == [Top EXCEPT !.at = "scan", !.virtq = @ + 1]
  <2>1. /\ stack # <<>> /\ Top.at = "handle" /\ ~HasBuffer(Top.virtq)
        /\ stack' = SetTop(f)
        /\ UNCHANGED <<kicked, kick_due, triggered, irq_job, avail_idx,
                       last_avail_idx>>
    BY <1>6 DEF QueueHandled, driver, virtqs, rings
  <2>2. Top.fn = "callback" /\ Top.virtq \in Queue /\ Top \in Frame
    BY <2>1, StackTop DEF FramesKnown, TypeOK
  <2>3. /\ f \in Frame /\ f.fn = "callback" /\ f.virtq = Top.virtq + 1
        /\ f.at = "scan" /\ Top.virtq \in Nat
    <3>1. Top.virtq + 1 \in 0..MaxQueues /\ Top.virtq \in Nat
      BY <2>2, QueueAssumption DEF Queue
    <3> QED
      BY <2>2, <3>1 DEF Frame
  <2>4. HasBuffer(q) /\ Top.virtq # q
    BY <2>1 DEF HasBuffer
  <2>5. IsSetTop(stack', f)
    BY <2>1, <2>3, SetTopIsSetTop
  <2> HIDE DEF f
  <2>6. Top.virtq < q => f.virtq < q \/ f.virtq = q
    BY <1>1, <2>3
  <2>7. WillScan(Len(stack), q) => Top.virtq < q
    BY <2>1, <2>4 DEF WillScan, Top
  <2>8. /\ BeingHandled(q) => BeingHandled(q)'
        /\ WillBeScanned(q) => WillBeScanned(q)'
    BY <1>1, <2>1, <2>3, <2>4, <2>5, <2>6, <2>7, SetTopCovers
  <2> QED
    BY <1>2, <1>3, <2>1, <2>4, <2>8 DEF Covered
<1>7. CASE ReadReply
  <2>1. /\ stack # <<>> /\ Top.at = "wait"
        /\ UNCHANGED <<kicked, kick_due, triggered, irq_job, avail_idx,
                       last_avail_idx>>
    BY <1>7 DEF ReadReply, driver, virtqs, rings
  <2>2. Top \in Frame /\ Top.virtq \in Queue /\ Top.fn # "kick"
    BY <2>1, StackTop DEF FramesKnown, TypeOK
  <2>3. /\ BeingHandled(q) => BeingHandled(q)'
        /\ WillBeScanned(q) => WillBeScanned(q)'
    <3>1. CASE Top.fn = "notify"
      <4>1. IsPop(stack')
        BY <1>7, <2>1, <3>1, PopIsPop DEF ReadReply
      <4>2. ~WillScan(Len(stack), q)
        BY <3>1 DEF WillScan, Top
      <4> QED
        BY <1>1, <2>1, <3>1, <4>1, <4>2, PopCovers
    <3>2. CASE Top.fn # "notify"
      <4> DEFINE f == [Top EXCEPT !.at = "handle"]
      <4>1. /\ stack' = SetTop(f) /\ f \in Frame
            /\ f.fn = Top.fn /\ f.virtq = Top.virtq /\ f.at = "handle"
        BY <1>7, <2>2, <3>2 DEF ReadReply, Frame
      <4>2. IsSetTop(stack', f)
        BY <2>1, <4>1, SetTopIsSetTop
      <4> HIDE DEF f
      <4>3. WillScan(Len(stack), q) => f.virtq < q /\ f.fn = "callback"
        BY <2>1, <4>1 DEF WillScan, Top
      <4> QED
        BY <1>1, <2>1, <4>1, <4>2, <4>3, SetTopCovers
    <3> QED
      BY <3>1, <3>2
  <2> QED
    BY <1>2, <1>3, <2>1, <2>3 DEF Covered, HasBuffer
<1>8. CASE SyncDone
  <2>1. /\ stack # <<>> /\ Top.at = "sync" /\ IsPop(stack') /\ irq_job' = TRUE
        /\ UNCHANGED <<kicked, kick_due, triggered, avail_idx, last_avail_idx>>
    BY <1>8, PopIsPop DEF SyncDone, driver, rings
  <2>2. Top.fn = "kick"
    BY <2>1, StackTop DEF FramesKnown
  <2>3. BeingHandled(q) => BeingHandled(q)'
    BY <1>1, <2>1, <2>2, PopCovers
  <2> QED
    BY <1>2, <1>3, <2>1, <2>3 DEF Covered, HasBuffer
<1>9. CASE IrqJob
  <2>1. /\ stack = <<>> /\ stack' = Append(stack, CallbackFrame)
        /\ UNCHANGED <<kicked, kick_due, triggered, avail_idx, last_avail_idx>>
    BY <1>9 DEF IrqJob, driver, rings
  <2>2. /\ CallbackFrame \in Frame /\ CallbackFrame.fn = "callback"
        /\ CallbackFrame.virtq = 0 /\ CallbackFrame.at = "scan"
    BY QueueAssumption DEF CallbackFrame, Frame
  <2>3. IsPush(stack', CallbackFrame)
    BY <2>1, <2>2, AppendIsPush
  <2>4. WillBeScanned(q)' /\ (BeingHandled(q) => BeingHandled(q)')
    BY <1>1, <2>2, <2>3, PushCovers
  <2> QED
    BY <1>2, <1>3, <2>1, <2>4 DEF Covered, HasBuffer
<1>10. CASE ScanQueue
  <2>1. /\ stack # <<>> /\ Top.at = "scan"
        /\ UNCHANGED <<kicked, kick_due, irq_job, avail_idx, last_avail_idx>>
    BY <1>10 DEF ScanQueue, driver, rings
  <2>2. Top \in Frame /\ Top.virtq \in 0..MaxQueues /\ Top.fn = "callback"
    BY <2>1, StackTop DEF FramesKnown, TypeOK, Frame
  <2>3. CASE Top.virtq = MaxQueues /\ stack' = Pop /\ triggered' = triggered
    <3>1. ~WillScan(Len(stack), q)
      BY <1>1, <2>3, QueueAssumption DEF WillScan, Queue, Top
    <3>2. IsPop(stack')
      BY <2>1, <2>3, PopIsPop
    <3>3. /\ BeingHandled(q) => BeingHandled(q)'
          /\ WillBeScanned(q) => WillBeScanned(q)'
      BY <1>1, <2>1, <3>1, <3>2, PopCovers
    <3> QED
      BY <1>2, <1>3, <2>1, <2>3, <3>3 DEF Covered, HasBuffer
  <2>4. CASE /\ Top.virtq < MaxQueues /\ ~triggered[Top.virtq]
             /\ stack' = SetTop([Top EXCEPT !.virtq = @ + 1])
             /\ triggered' = triggered
    <3> DEFINE f == [Top EXCEPT !.virtq = @ + 1]
    <3>1. /\ stack' = SetTop(f) /\ f \in Frame
          /\ f.fn = "callback" /\ f.virtq = Top.virtq + 1 /\ f.at = "scan"
      BY <2>1, <2>2, <2>4, QueueAssumption DEF Frame
    <3>2. IsSetTop(stack', f)
      BY <2>1, <3>1, SetTopIsSetTop
    <3> HIDE DEF f
    <3>3. BeingHandled(q) => BeingHandled(q)'
      BY <1>1, <2>1, <3>1, <3>2, SetTopCovers
    <3>4. CASE q = Top.virtq
      BY <1>2, <1>3, <2>1, <2>4, <3>3, <3>4 DEF Covered, HasBuffer
    <3>5. CASE q # Top.virtq
      <4>1. WillScan(Len(stack), q) => f.virtq < q \/ f.virtq = q
        BY <1>1, <2>2, <3>1, <3>5, QueueAssumption DEF WillScan, Top
      <4>2. WillBeScanned(q) => WillBeScanned(q)'
        BY <1>1, <2>1, <3>1, <3>2, <4>1, SetTopCovers
      <4> QED
        BY <1>2, <1>3, <2>1, <2>4, <3>3, <4>2 DEF Covered, HasBuffer
    <3> QED
      BY <3>4, <3>5
  <2>5. CASE /\ Top.virtq < MaxQueues /\ triggered[Top.virtq]
             /\ stack' = SetTop([Top EXCEPT !.at = "handle"])
             /\ triggered' = [triggered EXCEPT ![Top.virtq] = FALSE]
    <3> DEFINE f == [Top EXCEPT !.at = "handle"]
    <3>1. /\ stack' = SetTop(f) /\ f \in Frame
          /\ f.fn = "callback" /\ f.virtq = Top.virtq /\ f.at = "handle"
      BY <2>2, <2>5 DEF Frame
    <3>2. IsSetTop(stack', f)
      BY <2>1, <3>1, SetTopIsSetTop
    <3> HIDE DEF f
    <3>3. BeingHandled(q) => BeingHandled(q)'
      BY <1>1, <2>1, <3>1, <3>2, SetTopCovers
    <3>4. CASE q = Top.virtq
      <4>1. BeingHandled(q)'
        BY <1>1, <3>1, <3>2, <3>4, SetTopCovers
      <4> QED
        BY <4>1 DEF Covered
    <3>5. CASE q # Top.virtq
      <4>1. WillScan(Len(stack), q) => f.virtq < q
        BY <3>1, <3>5 DEF WillScan, Top
      <4>2. WillBeScanned(q) => WillBeScanned(q)'
        BY <1>1, <2>1, <3>1, <3>2, <4>1, SetTopCovers
      <4>3. triggered'[q] = triggered[q]
        BY <1>1, <2>5, <3>5 DEF FlagTypes
      <4> QED
        BY <1>2, <1>3, <2>1, <3>3, <4>2, <4>3 DEF Covered, HasBuffer
    <3> QED
      BY <3>4, <3>5
  <2> QED
    BY <1>10, <2>3, <2>4, <2>5 DEF ScanQueue
<1>11. ASSUME NEW p \in Queue, Kick(p)
       PROVE  Covered(q)'
  <2>1. /\ VirtqKick(p) /\ kicked' = [kicked EXCEPT ![p] = FALSE]
        /\ UNCHANGED <<kick_due, irq_job, avail_idx, last_avail_idx>>
    BY <1>11 DEF Kick, rings
  <2>2. \/ stack' = stack
        \/ \E f \in {CallbackFrame, SyncFrame(p)} : IsPush(stack', f)
    <3>1. CallbackFrame \in Frame /\ SyncFrame(p) \in Frame
      BY QueueAssumption DEF CallbackFrame, SyncFrame, Frame, Queue
    <3> QED
      BY <2>1, <3>1, AppendIsPush DEF VirtqKick
  <2>3. /\ BeingHandled(q) => BeingHandled(q)'
        /\ WillBeScanned(q) => WillBeScanned(q)'
    <3>1. CASE stack' = stack
      BY <3>1 DEF BeingHandled, WillBeScanned, Handles, WillScan
    <3> QED
      BY <1>1, <2>2, <3>1, PushCovers
  <2>4. CASE p # q
    <3>1. kicked'[q] = kicked[q] /\ triggered'[q] = triggered[q]
      BY <1>1, <2>1, <2>4 DEF VirtqKick, FlagTypes
    <3> QED
      BY <1>2, <1>3, <2>1, <2>3, <3>1 DEF Covered, HasBuffer
  <2>5. CASE p = q
    <3>1. triggered'[q]
      BY <1>1, <2>1, <2>5 DEF VirtqKick, FlagTypes
    <3>2. CASE irq_job
      BY <2>1, <3>1, <3>2 DEF Covered
    <3>3. CASE ~irq_job
      <4>1. PICK f \in {CallbackFrame, SyncFrame(p)} : stack' = Append(stack, f)
        BY <2>1, <2>5, <3>3 DEF VirtqKick
      <4>2. /\ f \in Frame
            /\ \/ f.at = "sync"
               \/ f.fn = "callback" /\ f.virtq = 0 /\ f.at = "scan"
        BY <4>1, QueueAssumption DEF CallbackFrame, SyncFrame, Frame, Queue
      <4>3. IsPush(stack', f)
        BY <4>1, <4>2, AppendIsPush
      <4>4. WillBeScanned(q)'
        BY <1>1, <4>2, <4>3, PushCovers
      <4> QED
        BY <3>1, <4>4 DEF Covered
    <3> QED
      BY <3>2, <3>3
  <2> QED
    BY <2>4, <2>5
<1>12. ASSUME NEW p \in Queue, Notify(p)
       PROVE  Covered(q)'
  <2>1. /\ p \notin InputQueues /\ UseBuffer(p) /\ stack = <<>>
        /\ UNCHANGED <<kicked, kick_due, triggered, irq_job>>
    BY <1>12 DEF Notify, driver
  <2>2. HasBuffer(q)
    BY <1>1, <2>1 DEF HasBuffer, UseBuffer
  <2>3. ~BeingHandled(q) /\ ~WillBeScanned(q)
    BY <2>1 DEF BeingHandled, WillBeScanned
  <2> QED
    BY <1>2, <1>3, <2>1, <2>2, <2>3 DEF Covered
<1>13. ASSUME NEW p \in Queue, SetVringAddr(p)
       PROVE  Covered(q)'
  <2>1. /\ UNCHANGED <<kicked, triggered, irq_job, stack>>
        /\ last_avail_idx' = [last_avail_idx EXCEPT ![p] = 0]
        /\ avail_idx' = [avail_idx EXCEPT ![p] = 0]
        /\ kick_due' = [kick_due EXCEPT ![p] = FALSE]
    BY <1>13 DEF SetVringAddr
  <2>2. p # q
    BY <1>1, <2>1 DEF HasBuffer
  <2>3. HasBuffer(q) /\ kick_due'[q] = kick_due[q]
    BY <1>1, <2>1, <2>2 DEF HasBuffer, FlagTypes
  <2> QED
    BY <1>2, <1>3, <2>1, <2>3 DEF Covered, BeingHandled, WillBeScanned,
                                  Handles, WillScan
<1>14. ASSUME NEW p \in Queue, AddBuffer(p)
       PROVE  Covered(q)'
  <2>1. /\ UNCHANGED <<kicked, triggered, irq_job, stack, last_avail_idx>>
        /\ avail_idx' = [avail_idx EXCEPT ![p] = After(@)]
        /\ kick_due' = [kick_due EXCEPT ![p] = TRUE]
    BY <1>14 DEF AddBuffer, virtqs
  <2>2. CASE p = q
    BY <1>1, <2>1, <2>2 DEF Covered, FlagTypes
  <2>3. CASE p # q
    <3>1. HasBuffer(q) /\ kick_due'[q] = kick_due[q]
      BY <1>1, <2>1, <2>3 DEF HasBuffer, FlagTypes
    <3> QED
      BY <1>2, <1>3, <2>1, <3>1 DEF Covered, BeingHandled, WillBeScanned,
                                    Handles, WillScan
  <2> QED
    BY <2>2, <2>3
<1>15. ASSUME NEW p \in Queue, SendKick(p)
       PROVE  Covered(q)'
  <2>1. /\ UNCHANGED <<triggered, irq_job, stack, last_avail_idx, avail_idx>>
        /\ kick_due' = [kick_due EXCEPT ![p] = FALSE]
        /\ kicked' = [kicked EXCEPT ![p] = TRUE]
    BY <1>15 DEF SendKick, virtqs, rings
  <2>2. CASE p = q
    BY <1>1, <2>1, <2>2 DEF Covered, FlagTypes
  <2>3. CASE p # q
    <3>1. kick_due'[q] = kick_due[q] /\ kicked'[q] = kicked[q]
      BY <1>1, <2>1, <2>3 DEF FlagTypes
    <3> QED
      BY <1>2, <1>3, <2>1, <3>1 DEF Covered, HasBuffer, BeingHandled,
                                    WillBeScanned, Handles, WillScan
  <2> QED
    BY <2>2, <2>3
<1>16. CASE Device
  BY <1>5, <1>6, <1>7, <1>8, <1>9, <1>10, <1>16 DEF Device
<1>17. CASE Driver
  <2>1. ASSUME NEW p \in Queue, TakeUsed(p) \/ ReplyToCall
        PROVE  Covered(q)'
    BY <1>4, <2>1 DEF TakeUsed, ReplyToCall, driver, virtqs, rings
  <2> QED
    BY <1>1, <1>14, <1>15, <1>17, <2>1 DEF Driver
<1>18. CASE Messages
  <2>1. ASSUME NEW p \in Queue, NEW on \in BOOLEAN, SetVringEnable(p, on)
        PROVE  Covered(q)'
    BY <1>4, <2>1 DEF SetVringEnable, driver, rings
  <2>2. ~DevFree
    BY DEF DevFree
  <2> QED
    BY <1>11, <1>12, <1>13, <1>18, <2>1, <2>2 DEF Messages
<1> QED
  BY <1>16, <1>17, <1>18 DEF Next
-----------------------------------------------------------------------------
(* The theorems about calls, replies and kicks.                            *)

LEMMA InitIInv == Init => IInv
<1> SUFFICES ASSUME Init
             PROVE  IInv
  OBVIOUS
<1>1. \A q \in Queue : /\ 0 \in Index /\ 0 \in Desc(q)
                       /\ [i \in Desc(q) |-> 0] \in [Desc(q) -> Desc(q)]
  BY Sizes
<1>2. RingTypes
  BY <1>1 DEF Init, RingTypes, RingsTyped
<1>3. FlagTypes
  BY SwitchAssumption DEF Init, FlagTypes
<1>4. stack = <<>> /\ stack \in Seq(Frame) /\ Len(stack) = 0
  BY DEF Init
<1>5. StackTypes /\ FramesKnown
  BY <1>4 DEF Init, StackTypes, FramesKnown
<1>6. RepliesCounted
  <2>1. {i \in 1..Len(stack) : stack[i].at = "wait"} = {}
    BY <1>4
  <2> QED
    BY <2>1, FS_EmptySet DEF Init, RepliesCounted
<1>7. KickNotLost
  <2>1. \A q \in InputQueues : ~HasBuffer(q)
    BY Sizes DEF Init, HasBuffer
  <2> QED
    BY <2>1 DEF KickNotLost
<1> QED
  BY <1>2, <1>3, <1>5, <1>6, <1>7, TypeParts DEF IInv

LEMMA NextIInv == IInv /\ [Next]_vars => IInv'
<1> SUFFICES ASSUME IInv, [Next]_vars
             PROVE  IInv'
  OBVIOUS
<1>1. CASE Next
  <2>1. RingTypes /\ FlagTypes /\ StackTypes
    BY TypeParts DEF IInv
  <2>2. StackInv'
    BY <1>1, StackStep DEF IInv
  <2>3. RingTypes' /\ FlagTypes'
    BY <1>1, <2>1, RingTypesStep, FlagTypesStep
  <2>4. KickNotLost'
    BY <1>1, KickStep DEF IInv
  <2>5. TypeOK' /\ RingsTyped'
    BY <2>2, <2>3 DEF StackInv, StackTypes, RingTypes, FlagTypes, TypeOK
  <2> QED
    BY <2>2, <2>4, <2>5 DEF StackInv, IInv
<1>2. CASE UNCHANGED vars
  <2>1. /\ RingTypes /\ FlagTypes /\ StackTypes /\ FramesKnown /\ RepliesCounted
        /\ KickNotLost
    BY TypeParts DEF IInv
  <2>2. RingTypes'
    BY <1>2, <2>1 DEF RingTypes, RingsTyped, vars, rings, virtqs
  <2>3. FlagTypes'
    BY <1>2, <2>1 DEF FlagTypes, vars, driver, virtqs, life
  <2>4. StackTypes' /\ FramesKnown' /\ RepliesCounted'
    BY <1>2, <2>1 DEF StackTypes, FramesKnown, RepliesCounted, vars
  <2>5. KickNotLost'
    BY <1>2, <2>1 DEF KickNotLost, HasBuffer, Handles, WillScan, vars, rings,
                      driver, virtqs, life
  <2>6. TypeOK' /\ RingsTyped'
    BY <2>2, <2>3, <2>4 DEF StackTypes, RingTypes, FlagTypes, TypeOK
  <2> QED
    BY <2>4, <2>5, <2>6 DEF IInv
<1> QED
  BY <1>1, <1>2

(***************************************************************************)
(* The invariant holds, whatever the driver does.                          *)
(***************************************************************************)
THEOREM Invariance == Spec => []IInv
BY InitIInv, NextIInv, PTL DEF Spec

(***************************************************************************)
(* At any depth of nesting in usfstl_vhost_user_send_msg(), as many        *)
(* replies are coming as functions wait for one.                           *)
(***************************************************************************)
THEOREM RepliesMatch == Spec => []RepliesCounted
<1>1. IInv => RepliesCounted
  BY DEF IInv
<1> QED
  BY <1>1, Invariance, PTL

(***************************************************************************)
(* No step of the driver starts a second kick under time control, and no   *)
(* step of the device schedules the job while a kick waits for the time.   *)
(***************************************************************************)
LEMMA OneKickStep == IInv /\ OneKick /\ [Next]_vars => OneKick'
<1> SUFFICES ASSUME IInv, OneKick, [Next]_vars
             PROVE  OneKick'
  OBVIOUS
<1>1. /\ TypeOK /\ FlagTypes /\ StackTypes /\ FramesKnown
      /\ stack \in Seq(Frame) /\ Len(stack) \in Nat
  BY TypeParts DEF IInv, StackTypes
<1>2. ASSUME IsPop(stack')
      PROVE  \A i \in 1..Len(stack') : i \in 1..Len(stack) /\ stack'[i] = stack[i]
  BY <1>1, <1>2 DEF IsPop
<1>3. ASSUME NEW f, IsSetTop(stack', f), f.fn = Top.fn
      PROVE  \A i \in 1..Len(stack') :
                i \in 1..Len(stack) /\ stack'[i].fn = stack[i].fn
  BY <1>1, <1>3, StackTop DEF IsSetTop
<1>4. ASSUME UNCHANGED <<scheduler, fd_kicks, aborted, kicked>>,
             irq_job' => irq_job,
             \A i \in 1..Len(stack') :
                i \in 1..Len(stack) /\ stack'[i].fn = stack[i].fn
      PROVE  OneKick'
  BY <1>4 DEF OneKick
<1>5. CASE UNCHANGED <<stack, scheduler, fd_kicks, aborted, kicked, irq_job>>
  BY <1>4, <1>5
<1>6. CASE HandleBuffer
  <2>1. CASE stack' = stack
    BY <1>5, <1>6, <2>1 DEF HandleBuffer, driver, life
  <2>2. CASE stack' # stack
    <3> DEFINE f == [Top EXCEPT !.at = "wait"]
    <3>1. stack # <<>> /\ stack' = SetTop(f) /\ f \in Frame /\ f.fn = Top.fn
      BY <1>1, <1>6, <2>2, StackTop DEF HandleBuffer, Frame, FramesKnown, TypeOK
    <3>2. IsSetTop(stack', f)
      BY <1>1, <3>1, SetTopIsSetTop
    <3> HIDE DEF f
    <3> QED
      BY <1>3, <1>4, <1>6, <3>1, <3>2 DEF HandleBuffer, driver, life
  <2> QED
    BY <2>1, <2>2
<1>7. CASE QueueHandled
  <2> DEFINE f == [Top EXCEPT !.at = "scan", !.virtq = @ + 1]
  <2>1. /\ stack # <<>> /\ Top.at = "handle" /\ stack' = SetTop(f)
        /\ Top \in Frame /\ Top.virtq \in Queue
    BY <1>1, <1>7, StackTop DEF QueueHandled, TypeOK
  <2>2. Top.virtq + 1 \in 0..MaxQueues
    BY <2>1, QueueAssumption DEF Queue
  <2>3. f \in Frame /\ f.fn = Top.fn
    BY <2>1, <2>2 DEF Frame
  <2>4. IsSetTop(stack', f)
    BY <1>1, <2>1, <2>3, SetTopIsSetTop
  <2> HIDE DEF f
  <2> QED
    BY <1>3, <1>4, <1>7, <2>3, <2>4 DEF QueueHandled, driver, virtqs, life
<1>8. CASE ReadReply
  <2>1. stack # <<>> /\ UNCHANGED <<scheduler, fd_kicks, aborted, kicked, irq_job>>
    BY <1>8 DEF ReadReply, driver, virtqs, life
  <2>2. CASE stack' = Pop
    BY <1>1, <1>2, <1>4, <2>1, <2>2, PopIsPop
  <2>3. CASE stack' = SetTop([Top EXCEPT !.at = "handle"])
    <3> DEFINE f == [Top EXCEPT !.at = "handle"]
    <3>1. stack' = SetTop(f) /\ f \in Frame /\ f.fn = Top.fn
      BY <1>1, <2>1, <2>3, StackTop DEF Frame
    <3>2. IsSetTop(stack', f)
      BY <1>1, <2>1, <3>1, SetTopIsSetTop
    <3> HIDE DEF f
    <3> QED
      BY <1>3, <1>4, <2>1, <3>1, <3>2
  <2> QED
    BY <1>8, <2>2, <2>3 DEF ReadReply
<1>9. CASE SyncDone
  <2>1. /\ stack # <<>> /\ Top.at = "sync" /\ stack' = Pop /\ irq_job' = TRUE
        /\ aborted' = (aborted \/ irq_job)
        /\ UNCHANGED <<scheduler, fd_kicks, kicked>>
    BY <1>9 DEF SyncDone, driver
  <2>2. Len(stack) \in 1..Len(stack) /\ stack[Len(stack)].fn = "kick"
    BY <1>1, <2>1, StackTop DEF FramesKnown
  <2>3. /\ scheduler /\ ~irq_job /\ ~aborted
        /\ \A k \in 1..Len(stack) : stack[k].fn = "kick" => k = Len(stack)
    BY <2>2 DEF OneKick
  <2>4. IsPop(stack') /\ \A i \in 1..Len(stack') : stack'[i].fn # "kick"
    BY <1>1, <1>2, <2>1, <2>3, PopIsPop DEF IsPop
  <2> QED
    BY <2>1, <2>3, <2>4 DEF OneKick
<1>10. CASE IrqJob
  <2>1. /\ stack = <<>> /\ stack' = <<CallbackFrame>> /\ irq_job' = FALSE
        /\ UNCHANGED <<scheduler, fd_kicks, aborted, kicked>>
    BY <1>10 DEF IrqJob, driver, life
  <2>2. \A i \in 1..Len(stack') : stack'[i].fn # "kick"
    BY <2>1 DEF CallbackFrame
  <2> QED
    BY <2>1, <2>2 DEF OneKick
<1>11. CASE ScanQueue
  <2>1. /\ stack # <<>> /\ UNCHANGED <<scheduler, fd_kicks, aborted, kicked, irq_job>>
        /\ Top \in Frame /\ Top.virtq \in 0..MaxQueues
    BY <1>1, <1>11, StackTop DEF ScanQueue, driver, life, Frame
  <2>2. CASE stack' = Pop
    BY <1>1, <1>2, <1>4, <2>1, <2>2, PopIsPop
  <2>3. CASE \E f \in Frame : stack' = SetTop(f) /\ f.fn = Top.fn
    BY <1>1, <1>3, <1>4, <2>1, <2>3, SetTopIsSetTop
  <2>4. [Top EXCEPT !.at = "handle"] \in Frame
        /\ [Top EXCEPT !.at = "handle"].fn = Top.fn
    BY <2>1 DEF Frame
  <2>5. Top.virtq < MaxQueues =>
           /\ [Top EXCEPT !.virtq = Top.virtq + 1] \in Frame
           /\ [Top EXCEPT !.virtq = Top.virtq + 1].fn = Top.fn
    BY <2>1, QueueAssumption DEF Frame
  <2> QED
    BY <1>11, <2>2, <2>3, <2>4, <2>5 DEF ScanQueue
<1>12. ASSUME NEW q \in Queue, Kick(q)
       PROVE  OneKick'
  <2>1. /\ kicked[q] /\ kicked' = [kicked EXCEPT ![q] = FALSE] /\ VirtqKick(q)
        /\ UNCHANGED <<scheduler, fd_kicks, aborted, irq_job>>
    BY <1>12 DEF Kick, life
  <2>2. \A p \in Queue : kicked'[p] <=> kicked[p] /\ p # q
    BY <1>1, <2>1 DEF FlagTypes
  <2>3. CASE stack' = stack
    BY <2>1, <2>2, <2>3 DEF OneKick
  <2>4. CASE ~irq_job /\ ~scheduler /\ stack' = Append(stack, CallbackFrame)
    <3>1. \A i \in 1..Len(stack') : stack'[i] = CallbackFrame
             \/ (i \in 1..Len(stack) /\ stack'[i] = stack[i])
      BY <1>1, <2>4
    <3>2. CallbackFrame.fn # "kick"
      BY DEF CallbackFrame
    <3> QED
      BY <2>1, <2>4, <3>1, <3>2 DEF OneKick
  <2>5. CASE ~irq_job /\ scheduler /\ stack' = Append(stack, SyncFrame(q))
    <3>1. \A i \in 1..Len(stack) : stack[i].fn # "kick"
      BY <2>1, <2>5 DEF OneKick
    <3>2. /\ Len(stack') = Len(stack) + 1
          /\ \A i \in 1..Len(stack) : stack'[i] = stack[i]
      BY <1>1, <2>5
    <3>3. \A i \in 1..Len(stack') : stack'[i].fn = "kick" => i = Len(stack) + 1
      BY <1>1, <3>1, <3>2
    <3>4. \A p \in Queue : ~kicked'[p]
      BY <2>1, <2>2, <2>5 DEF OneKick
    <3> QED
      BY <2>1, <2>5, <3>3, <3>4 DEF OneKick
  <2> QED
    BY <2>1, <2>3, <2>4, <2>5 DEF VirtqKick
<1>13. ASSUME NEW q \in Queue, Notify(q)
       PROVE  OneKick'
  <2>1. /\ stack = <<>> /\ UNCHANGED <<scheduler, fd_kicks, aborted, kicked, irq_job>>
    BY <1>13 DEF Notify, driver, life
  <2>2. \A i \in 1..Len(stack') : stack'[i].fn = "notify"
    BY <1>13, <2>1 DEF Notify
  <2> QED
    BY <2>1, <2>2 DEF OneKick
<1>14. ASSUME NEW q \in Queue, SendKick(q)
       PROVE  OneKick'
  <2>1. /\ kicked' = [kicked EXCEPT ![q] = TRUE]
        /\ ~fd_kicks => ~KickInProgress
        /\ UNCHANGED <<scheduler, fd_kicks, aborted, irq_job, stack>>
    BY <1>14 DEF SendKick, life, virtqs
  <2>2. scheduler => /\ \A p \in Queue : ~kicked[p]
                     /\ \A i \in 1..Len(stack) : stack[i].fn # "kick"
    BY <2>1 DEF OneKick, KickInProgress
  <2>3. \A p \in Queue : kicked'[p] <=> kicked[p] \/ p = q
    BY <1>1, <2>1 DEF FlagTypes
  <2> QED
    BY <2>1, <2>2, <2>3 DEF OneKick
<1>15. CASE DevFree
  BY <1>1, <1>4, <1>15 DEF DevFree, driver
<1>16. CASE Device
  BY <1>6, <1>7, <1>8, <1>9, <1>10, <1>11, <1>16 DEF Device
<1>17. CASE Driver
  BY <1>5, <1>14, <1>17
     DEF Driver, AddBuffer, TakeUsed, ReplyToCall, driver, virtqs, life
<1>18. CASE Messages
  BY <1>5, <1>12, <1>13, <1>15, <1>18
     DEF Messages, SetVringAddr, SetVringEnable, driver, life
<1>19. CASE UNCHANGED vars
  BY <1>5, <1>19 DEF vars, driver, virtqs, life
<1> QED
  BY <1>16, <1>17, <1>18, <1>19 DEF Next

(***************************************************************************)
(* With a driver that waits for the reply to its kick when it is under     *)
(* time control, no kick is lost between the flag, the interrupt job and   *)
(* the callbacks in progress, and the job is never added twice: for any    *)
(* number of queues and any depth of nesting.                              *)
(***************************************************************************)
THEOREM KicksKept == ~KickFds => (Spec => []KicksInv)
<1> SUFFICES ASSUME ~KickFds
             PROVE  Spec => []KicksInv
  OBVIOUS
<1>1. Init => OneKick
  <2> SUFFICES ASSUME Init
               PROVE  OneKick
    OBVIOUS
  <2>1. stack = <<>> /\ Len(stack) = 0 /\ ~irq_job /\ ~aborted
        /\ \A q \in Queue : ~kicked[q]
    BY DEF Init
  <2>2. scheduler => ~fd_kicks
    BY DEF Init
  <2> QED
    BY <2>1, <2>2 DEF OneKick
<1>2. IInv /\ OneKick => KicksInv
  BY DEF IInv, OneKick, KicksInv, JobAddedOnce
<1> QED
  BY <1>1, <1>2, Invariance, OneKickStep, PTL DEF Spec
-----------------------------------------------------------------------------
(* Indices that wrap, and the entries of a ring between two of them.       *)

LEMMA ModSmall ==
    ASSUME NEW m \in Nat, m > 0, NEW a \in Int
    PROVE  /\ 0 <= a /\ a < m => a % m = a
           /\ m <= a /\ a < 2 * m => a % m = a - m
           /\ -m <= a /\ a < 0 => a % m = a + m
OBVIOUS

LEMMA ModDecompose ==
    ASSUME NEW n \in Nat, n > 0, NEW a \in Int
    PROVE  \E k \in Int : a = n * k + (a % n)
OBVIOUS

LEMMA ModUnique ==
    ASSUME NEW n \in Nat, n > 0, NEW k \in Int, NEW r \in 0..(n - 1)
    PROVE  (n * k + r) % n = r
OBVIOUS

(***************************************************************************)
(* Two numbers less than n apart have different remainders.                *)
(***************************************************************************)
LEMMA ModDistinct ==
    ASSUME NEW n \in Nat, n > 0, NEW a \in Nat, NEW b \in Nat,
           a < b, b < a + n
    PROVE  a % n # b % n
<1> SUFFICES ASSUME a % n = b % n
             PROVE  FALSE
  OBVIOUS
<1>0. a \in Int /\ b \in Int
  OBVIOUS
<1>1. PICK k \in Int : a = n * k + (a % n)
  BY <1>0, ModDecompose, Zenon
<1>2. PICK l \in Int : b = n * l + (b % n)
  BY <1>0, ModDecompose, Zenon
<1>3. a % n \in Int
  BY ModRange
<1>4. b - a = n * (l - k)
  BY <1>1, <1>2, <1>3
<1>5. l - k >= 1
  BY <1>4
<1>6. n * (l - k) >= n
  BY <1>5
<1> QED
  BY <1>4, <1>6

(***************************************************************************)
(* Adding a multiple of n keeps the remainder.                             *)
(***************************************************************************)
LEMMA ModShift ==
    ASSUME NEW n \in Nat, n > 0, NEW a \in Nat, NEW m \in Nat, m % n = 0
    PROVE  (a + m) % n = a % n
<1>0. a \in Int
  OBVIOUS
<1>1. PICK k \in Int : a = n * k + (a % n)
  BY <1>0, ModDecompose, Zenon
<1>2. PICK l \in Int : m = n * l
  BY ModDecompose
<1>3. a % n \in 0..(n - 1)
  BY ModRange
<1>4. a + m = n * (k + l) + (a % n) /\ k + l \in Int
  BY <1>1, <1>2, <1>3
<1>5. (n * (k + l) + (a % n)) % n = a % n
  BY <1>3, <1>4, ModUnique, Zenon
<1> QED
  BY <1>4, <1>5, Zenon

(***************************************************************************)
(* The position in a ring of n entries of the k-th entry from index i on.  *)
(***************************************************************************)
Pos(n, i, k) == ((i + k) % IdxMod) % n

RingSize(n) == n \in Nat /\ n > 0 /\ IdxMod \in Nat /\ IdxMod > n /\ IdxMod % n = 0

LEMMA AfterIs ==
    ASSUME IdxMod \in Nat, IdxMod > 1, NEW i \in Index
    PROVE  /\ i \in Nat /\ i < IdxMod
           /\ After(i) = IF i + 1 = IdxMod THEN 0 ELSE i + 1
           /\ After(i) \in Index
BY ModSmall DEF After, Index

LEMMA BetweenIs ==
    ASSUME IdxMod \in Nat, IdxMod > 1, NEW i \in Index, NEW j \in Index
    PROVE  /\ Between(i, j) = IF i <= j THEN j - i ELSE j - i + IdxMod
           /\ Between(i, j) \in Nat /\ Between(i, j) < IdxMod
BY ModSmall DEF Between, Index

LEMMA PosIs ==
    ASSUME NEW n, RingSize(n), NEW i \in Index, NEW k \in Nat, k < IdxMod
    PROVE  /\ Pos(n, i, k) =
                (IF i + k < IdxMod THEN i + k ELSE i + k - IdxMod) % n
           /\ Pos(n, i, k) \in 0..(n - 1)
<1>1. (i + k) % IdxMod = IF i + k < IdxMod THEN i + k ELSE i + k - IdxMod
  BY ModSmall DEF Index, RingSize
<1>2. (i + k) % IdxMod \in Int /\ n \in Nat \ {0}
  BY <1>1 DEF Index, RingSize
<1>3. ((i + k) % IdxMod) % n \in 0..(n - 1)
  BY <1>2, ModRange, Zenon
<1> QED
  BY <1>1, <1>3, Zenon DEF Pos

(***************************************************************************)
(* Up to n entries in a row are at different positions.                    *)
(***************************************************************************)
LEMMA PosDistinct ==
    ASSUME NEW n, RingSize(n), NEW i \in Index, NEW k \in Nat, NEW l \in Nat,
           k < l, l < n
    PROVE  Pos(n, i, k) # Pos(n, i, l)
<1> DEFINE a == IF i + k < IdxMod THEN i + k ELSE i + k - IdxMod
           b == IF i + l < IdxMod THEN i + l ELSE i + l - IdxMod
<1>1. /\ n \in Nat /\ n > 0 /\ IdxMod \in Nat /\ IdxMod > n /\ IdxMod % n = 0
      /\ i \in Nat /\ i < IdxMod
  BY DEF RingSize, Index
<1>2. a \in Nat /\ b \in Nat
  BY <1>1
<1>3. Pos(n, i, k) = a % n /\ Pos(n, i, l) = b % n
  BY <1>1, PosIs
<1>4. CASE a < b /\ b < a + n
  <2> HIDE DEF a, b
  <2> QED
    BY <1>1, <1>2, <1>3, <1>4, ModDistinct
<1>5. CASE a < b + IdxMod /\ b + IdxMod < a + n
  <2> HIDE DEF a, b
  <2>1. (b + IdxMod) % n = b % n
    BY <1>1, <1>2, ModShift
  <2>2. b + IdxMod \in Nat
    BY <1>1, <1>2
  <2>3. a % n # (b + IdxMod) % n
    BY <1>1, <1>2, <1>5, <2>2, ModDistinct
  <2> QED
    BY <1>3, <2>1, <2>3
<1> QED
  BY <1>1, <1>4, <1>5

(***************************************************************************)
(* The k-th entry from index i on.                                         *)
(***************************************************************************)
Entry(ring, n, i, k) == ring[Pos(n, i, k)]

IsPut(ring, n, i, j, d, new) ==
    /\ Between(i, After(j)) = Between(i, j) + 1
    /\ Entry(new, n, i, Between(i, j)) = d
    /\ \A k \in 0..(Between(i, j) - 1) :
          Entry(new, n, i, k) = Entry(ring, n, i, k)

(***************************************************************************)
(* Writing at index j and incrementing it adds one entry at the end, as    *)
(* long as the ring is not full: usfstl_vhost_user_send_virtq_buf() on the *)
(* used ring, the driver on the other.                                     *)
(***************************************************************************)
LEMMA PutEntry ==
    ASSUME NEW n, RingSize(n), NEW i \in Index, NEW j \in Index,
           NEW ring, DOMAIN ring = 0..(n - 1), NEW d, NEW new,
           new = [ring EXCEPT ![j % n] = d], Between(i, j) < n
    PROVE  IsPut(ring, n, i, j, d, new)
<1> DEFINE b == Between(i, j)
<1>1. /\ n \in Nat /\ n > 0 /\ IdxMod \in Nat /\ IdxMod > n /\ IdxMod > 1
      /\ i \in Nat /\ j \in Nat /\ i < IdxMod /\ j < IdxMod
  BY DEF RingSize, Index
<1>2. /\ b = IF i <= j THEN j - i ELSE j - i + IdxMod
      /\ b \in Nat /\ b < n
  BY <1>1, BetweenIs
<1>3. Between(i, After(j)) = b + 1
  <2>1. /\ After(j) = IF j + 1 = IdxMod THEN 0 ELSE j + 1
        /\ After(j) \in Index
    BY <1>1, AfterIs
  <2>2. Between(i, After(j)) =
          IF i <= After(j) THEN After(j) - i ELSE After(j) - i + IdxMod
    BY <1>1, <2>1, BetweenIs
  <2> HIDE DEF b
  <2> QED
    BY <1>1, <1>2, <2>1, <2>2
<1>4. Pos(n, i, b) = j % n
  <2>1. (IF i + b < IdxMod THEN i + b ELSE i + b - IdxMod) = j
    BY <1>1, <1>2
  <2>2. b < IdxMod
    BY <1>1, <1>2
  <2> HIDE DEF b
  <2> QED
    BY <1>2, <2>1, <2>2, PosIs
<1>5. j % n \in 0..(n - 1)
  BY <1>1, ModRange
<1>6. Entry(new, n, i, b) = d
  BY <1>4, <1>5 DEF Entry
<1>7. ASSUME NEW k \in 0..(b - 1)
      PROVE  Entry(new, n, i, k) = Entry(ring, n, i, k)
  <2> HIDE DEF b
  <2>1. k \in Nat /\ k < b
    BY <1>2
  <2>2. Pos(n, i, k) # j % n
    BY <1>2, <1>4, <2>1, PosDistinct
  <2>3. k < IdxMod
    BY <1>1, <1>2, <2>1
  <2>4. Pos(n, i, k) \in 0..(n - 1)
    BY <2>1, <2>3, PosIs
  <2> QED
    BY <2>2, <2>4 DEF Entry
<1> QED
  BY <1>3, <1>6, <1>7 DEF IsPut

IsTake(ring, n, i, j) ==
    /\ Between(i, j) >= 1
    /\ Between(After(i), j) = Between(i, j) - 1
    /\ Entry(ring, n, i, 0) = ring[i % n]
    /\ \A k \in 0..(Between(i, j) - 2) :
          Entry(ring, n, After(i), k) = Entry(ring, n, i, k + 1)

(***************************************************************************)
(* Incrementing index i takes the first entry off:                         *)
(* usfstl_vhost_user_get_virtq_buf() on the available ring, the driver on  *)
(* the other.                                                              *)
(***************************************************************************)
LEMMA TakeEntry ==
    ASSUME NEW n, RingSize(n), NEW i \in Index, NEW j \in Index, i # j,
           NEW ring
    PROVE  IsTake(ring, n, i, j)
<1> DEFINE b == Between(i, j)
<1>1. /\ n \in Nat /\ n > 0 /\ IdxMod \in Nat /\ IdxMod > n /\ IdxMod > 1
      /\ i \in Nat /\ j \in Nat /\ i < IdxMod /\ j < IdxMod
  BY DEF RingSize, Index
<1>2. /\ b = IF i <= j THEN j - i ELSE j - i + IdxMod
      /\ b \in Nat /\ b < IdxMod
  BY <1>1, BetweenIs
<1>3. /\ After(i) = IF i + 1 = IdxMod THEN 0 ELSE i + 1
      /\ After(i) \in Index
  BY <1>1, AfterIs
<1>4. Between(After(i), j) =
        IF After(i) <= j THEN j - After(i) ELSE j - After(i) + IdxMod
  BY <1>1, <1>3, BetweenIs
<1>5. Pos(n, i, 0) = i % n
  BY <1>1, PosIs
<1> HIDE DEF b
<1>6. b >= 1 /\ Between(After(i), j) = b - 1
  BY <1>1, <1>2, <1>3, <1>4
<1>7. ASSUME NEW k \in 0..(b - 2)
      PROVE  Pos(n, After(i), k) = Pos(n, i, k + 1)
  <2>1. k \in Nat /\ k < IdxMod /\ k + 1 \in Nat /\ k + 1 < IdxMod
    BY <1>1, <1>2
  <2>2. /\ Pos(n, After(i), k) =
             (IF After(i) + k < IdxMod THEN After(i) + k
              ELSE After(i) + k - IdxMod) % n
        /\ Pos(n, i, k + 1) =
             (IF i + (k + 1) < IdxMod THEN i + (k + 1)
              ELSE i + (k + 1) - IdxMod) % n
    BY <1>3, <2>1, PosIs
  <2>3. (IF After(i) + k < IdxMod THEN After(i) + k
              ELSE After(i) + k - IdxMod)
        = (IF i + (k + 1) < IdxMod THEN i + (k + 1)
              ELSE i + (k + 1) - IdxMod)
    BY <1>1, <1>3, <2>1
  <2> QED
    BY <2>2, <2>3
<1> QED
  BY <1>5, <1>6, <1>7 DEF Entry, b, IsTake
-----------------------------------------------------------------------------
(* Where the buffers of a queue are.                                       *)

(***************************************************************************)
(* Every descriptor below n is at one place: one of the a entries of A,    *)
(* one of the u entries of U, or in F.                                     *)
(***************************************************************************)
EachOnce(A, a, U, u, F, n) ==
    /\ a \in Nat /\ u \in Nat /\ F \subseteq 0..(n - 1)
    /\ \A k \in 0..(a - 1) : A[k] \in 0..(n - 1) /\ A[k] \notin F
    /\ \A k \in 0..(u - 1) : U[k] \in 0..(n - 1) /\ U[k] \notin F
    /\ \A k, l \in 0..(a - 1) : A[k] = A[l] => k = l
    /\ \A k, l \in 0..(u - 1) : U[k] = U[l] => k = l
    /\ \A k \in 0..(a - 1), l \in 0..(u - 1) : A[k] # U[l]
    /\ \A d \in 0..(n - 1) : \/ d \in F
                             \/ \E k \in 0..(a - 1) : A[k] = d
                             \/ \E k \in 0..(u - 1) : U[k] = d
    /\ a + u + Cardinality(F) = n

LEMMA FreeSize ==
    ASSUME NEW n \in Nat, NEW F, F \subseteq 0..(n - 1)
    PROVE  IsFiniteSet(F) /\ Cardinality(F) \in Nat
<1>1. IsFiniteSet(0..(n - 1))
  BY FS_Interval
<1> QED
  BY <1>1, FS_Subset, FS_CardinalityType

(***************************************************************************)
(* The first entry of A becomes the last one of U.                         *)
(***************************************************************************)
LEMMA MoveToUsed ==
    ASSUME NEW n \in Nat, NEW A, NEW a, NEW U, NEW u, NEW F,
           EachOnce(A, a, U, u, F, n), a >= 1, NEW B, NEW V,
           \A k \in 0..(a - 2) : B[k] = A[k + 1],
           \A k \in 0..(u - 1) : V[k] = U[k], V[u] = A[0]
    PROVE  EachOnce(B, a - 1, V, u + 1, F, n)
<1>0. a \in Nat /\ u \in Nat /\ a - 1 \in Nat /\ u + 1 \in Nat
  BY DEF EachOnce
<1>1. \A k \in 0..((a - 1) - 1) :
         k \in 0..(a - 2) /\ k + 1 \in 0..(a - 1) /\ B[k] = A[k + 1]
  BY <1>0
<1>2. \A k \in 0..((u + 1) - 1) : \/ k = u /\ V[k] = A[0]
                                  \/ k \in 0..(u - 1) /\ V[k] = U[k]
  BY <1>0
<1>3. 0 \in 0..(a - 1)
  BY <1>0
<1>4. \A k \in 0..((a - 1) - 1) : B[k] \in 0..(n - 1) /\ B[k] \notin F
  BY <1>1 DEF EachOnce
<1>5. \A k \in 0..((u + 1) - 1) : V[k] \in 0..(n - 1) /\ V[k] \notin F
  BY <1>2, <1>3 DEF EachOnce
<1>6. \A k, l \in 0..((a - 1) - 1) : B[k] = B[l] => k = l
  BY <1>0, <1>1 DEF EachOnce
<1>7. \A k, l \in 0..((u + 1) - 1) : V[k] = V[l] => k = l
  BY <1>2, <1>3 DEF EachOnce
<1>8. \A k \in 0..((a - 1) - 1), l \in 0..((u + 1) - 1) : B[k] # V[l]
  <2> SUFFICES ASSUME NEW k \in 0..((a - 1) - 1), NEW l \in 0..((u + 1) - 1)
               PROVE  B[k] # V[l]
    OBVIOUS
  <2>1. k + 1 \in 0..(a - 1) /\ B[k] = A[k + 1] /\ k + 1 # 0
    BY <1>1
  <2>2. A[k + 1] # A[0]
    BY <1>3, <2>1 DEF EachOnce
  <2> QED
    BY <1>2, <2>1, <2>2 DEF EachOnce
<1>9. ASSUME NEW d \in 0..(n - 1)
      PROVE  \/ d \in F
             \/ \E k \in 0..((a - 1) - 1) : B[k] = d
             \/ \E k \in 0..((u + 1) - 1) : V[k] = d
  <2>1. CASE \E k \in 0..(a - 1) : A[k] = d
    <3>1. PICK k \in 0..(a - 1) : A[k] = d
      BY <2>1
    <3>2. CASE k = 0
      BY <1>0, <3>1, <3>2
    <3>3. CASE k # 0
      <4>1. k - 1 \in 0..((a - 1) - 1) /\ k - 1 \in 0..(a - 2) /\ (k - 1) + 1 = k
        BY <1>0, <3>3
      <4>2. B[k - 1] = A[(k - 1) + 1]
        BY <4>1
      <4> QED
        BY <3>1, <4>1, <4>2
    <3> QED
      BY <3>2, <3>3
  <2>2. CASE \E k \in 0..(u - 1) : U[k] = d
    <3>1. PICK k \in 0..(u - 1) : U[k] = d
      BY <2>2
    <3>2. k \in 0..((u + 1) - 1) /\ V[k] = d
      BY <1>0, <3>1
    <3> QED
      BY <3>2
  <2> QED
    BY <2>1, <2>2 DEF EachOnce
<1>10. (a - 1) + (u + 1) + Cardinality(F) = n
  <2>1. Cardinality(F) \in Nat
    BY FreeSize DEF EachOnce
  <2> QED
    BY <1>0, <2>1 DEF EachOnce
<1>11. F \subseteq 0..(n - 1)
  BY DEF EachOnce
<1> QED
  BY <1>0, <1>4, <1>5, <1>6, <1>7, <1>8, <1>9, <1>10, <1>11 DEF EachOnce

(***************************************************************************)
(* A free descriptor becomes the last entry of A.                          *)
(***************************************************************************)
LEMMA FreeToAvailable ==
    ASSUME NEW n \in Nat, NEW A, NEW a, NEW U, NEW u, NEW F,
           EachOnce(A, a, U, u, F, n), NEW f \in F, NEW B,
           \A k \in 0..(a - 1) : B[k] = A[k], B[a] = f
    PROVE  EachOnce(B, a + 1, U, u, F \ {f}, n)
<1>0. a \in Nat /\ u \in Nat /\ a + 1 \in Nat
  BY DEF EachOnce
<1>1. \A k \in 0..((a + 1) - 1) : \/ k = a /\ B[k] = f
                                  \/ k \in 0..(a - 1) /\ B[k] = A[k]
  BY <1>0
<1>2. \A k \in 0..((a + 1) - 1) : B[k] \in 0..(n - 1) /\ B[k] \notin F \ {f}
  BY <1>1 DEF EachOnce
<1>3. \A k, l \in 0..((a + 1) - 1) : B[k] = B[l] => k = l
  BY <1>1 DEF EachOnce
<1>4. \A k \in 0..((a + 1) - 1), l \in 0..(u - 1) : B[k] # U[l]
  BY <1>1 DEF EachOnce
<1>5. ASSUME NEW d \in 0..(n - 1)
      PROVE  \/ d \in F \ {f}
             \/ \E k \in 0..((a + 1) - 1) : B[k] = d
             \/ \E k \in 0..(u - 1) : U[k] = d
  <2>1. CASE d = f
    BY <1>0, <2>1
  <2>2. CASE \E k \in 0..(a - 1) : A[k] = d
    <3>1. PICK k \in 0..(a - 1) : A[k] = d
      BY <2>2
    <3>2. k \in 0..((a + 1) - 1) /\ B[k] = d
      BY <1>0, <3>1
    <3> QED
      BY <3>2
  <2> QED
    BY <2>1, <2>2 DEF EachOnce
<1>6. (a + 1) + u + Cardinality(F \ {f}) = n
  <2>1. IsFiniteSet(F) /\ Cardinality(F) \in Nat
    BY FreeSize DEF EachOnce
  <2>2. Cardinality(F \ {f}) = Cardinality(F) - 1
    BY <2>1, FS_RemoveElement
  <2> QED
    BY <1>0, <2>1, <2>2 DEF EachOnce
<1>7. /\ F \ {f} \subseteq 0..(n - 1)
      /\ \A k \in 0..(u - 1) : U[k] \in 0..(n - 1) /\ U[k] \notin F \ {f}
      /\ \A k, l \in 0..(u - 1) : U[k] = U[l] => k = l
  BY DEF EachOnce
<1> QED
  BY <1>0, <1>2, <1>3, <1>4, <1>5, <1>6, <1>7 DEF EachOnce

(***************************************************************************)
(* The first entry of U becomes free.                                      *)
(***************************************************************************)
LEMMA UsedToFree ==
    ASSUME NEW n \in Nat, NEW A, NEW a, NEW U, NEW u, NEW F,
           EachOnce(A, a, U, u, F, n), u >= 1, NEW V,
           \A k \in 0..(u - 2) : V[k] = U[k + 1]
    PROVE  EachOnce(A, a, V, u - 1, F \cup {U[0]}, n)
<1>0. a \in Nat /\ u \in Nat /\ u - 1 \in Nat /\ 0 \in 0..(u - 1)
  BY DEF EachOnce
<1>1. \A k \in 0..((u - 1) - 1) :
         k + 1 # 0 /\ k + 1 \in 0..(u - 1) /\ V[k] = U[k + 1]
  BY <1>0
<1>2. /\ F \cup {U[0]} \subseteq 0..(n - 1)
      /\ \A k \in 0..(a - 1) : A[k] \in 0..(n - 1) /\ A[k] \notin F \cup {U[0]}
      /\ \A k, l \in 0..(a - 1) : A[k] = A[l] => k = l
  BY <1>0 DEF EachOnce
<1>3. \A k \in 0..((u - 1) - 1) : V[k] \in 0..(n - 1) /\ V[k] \notin F \cup {U[0]}
  <2> SUFFICES ASSUME NEW k \in 0..((u - 1) - 1)
               PROVE  V[k] \in 0..(n - 1) /\ V[k] \notin F \cup {U[0]}
    OBVIOUS
  <2>1. U[k + 1] # U[0]
    BY <1>0, <1>1 DEF EachOnce
  <2> QED
    BY <1>1, <2>1 DEF EachOnce
<1>4. \A k, l \in 0..((u - 1) - 1) : V[k] = V[l] => k = l
  BY <1>0, <1>1 DEF EachOnce
<1>5. \A k \in 0..(a - 1), l \in 0..((u - 1) - 1) : A[k] # V[l]
  BY <1>1 DEF EachOnce
<1>6. ASSUME NEW d \in 0..(n - 1)
      PROVE  \/ d \in F \cup {U[0]}
             \/ \E k \in 0..(a - 1) : A[k] = d
             \/ \E k \in 0..((u - 1) - 1) : V[k] = d
  <2>1. CASE \E k \in 0..(u - 1) : U[k] = d
    <3>1. PICK k \in 0..(u - 1) : U[k] = d
      BY <2>1
    <3>2. CASE k = 0
      BY <3>1, <3>2
    <3>3. CASE k # 0
      <4>1. k - 1 \in 0..((u - 1) - 1) /\ k - 1 \in 0..(u - 2) /\ (k - 1) + 1 = k
        BY <1>0, <3>3
      <4>2. V[k - 1] = U[(k - 1) + 1]
        BY <4>1
      <4> QED
        BY <3>1, <4>1, <4>2
    <3> QED
      BY <3>2, <3>3
  <2> QED
    BY <2>1 DEF EachOnce
<1>7. a + (u - 1) + Cardinality(F \cup {U[0]}) = n
  <2>1. IsFiniteSet(F) /\ Cardinality(F) \in Nat
    BY FreeSize DEF EachOnce
  <2>2. Cardinality(F \cup {U[0]}) = Cardinality(F) + 1
    BY <1>0, <2>1, FS_AddElement DEF EachOnce
  <2> QED
    BY <1>0, <2>1, <2>2 DEF EachOnce
<1> QED
  BY <1>0, <1>2, <1>3, <1>4, <1>5, <1>6, <1>7 DEF EachOnce

Row(ring, n, i, j) == [k \in 0..(Between(i, j) - 1) |-> Entry(ring, n, i, k)]

(***************************************************************************)
(* The buffers of queue q: this is inductive where BuffersConserved alone  *)
(* is not, since it also says that no descriptor is in two places.         *)
(***************************************************************************)
Placed(q) ==
    EachOnce(Row(avail_ring[q], Num[q], last_avail_idx[q], avail_idx[q]),
             Between(last_avail_idx[q], avail_idx[q]),
             Row(used_ring[q], Num[q], last_used[q], used_idx[q]),
             Between(last_used[q], used_idx[q]),
             free[q], Num[q])

BuffersPlaced == \A q \in Queue : Placed(q)

LEMMA QueueTypes ==
    ASSUME RingTypes, NEW q \in Queue
    PROVE  /\ RingSize(Num[q]) /\ Num[q] \in Nat
           /\ avail_idx[q] \in Index /\ last_avail_idx[q] \in Index
           /\ used_idx[q] \in Index /\ last_used[q] \in Index
           /\ DOMAIN avail_ring[q] = 0..(Num[q] - 1)
           /\ DOMAIN used_ring[q] = 0..(Num[q] - 1)
           /\ Between(last_avail_idx[q], avail_idx[q]) \in Nat
           /\ Between(last_used[q], used_idx[q]) \in Nat
           /\ IsFiniteSet(free[q]) /\ Cardinality(free[q]) \in Nat
<1>1. RingSize(Num[q]) /\ Num[q] \in Nat /\ IdxMod \in Nat /\ IdxMod > 1
  BY RingAssumption DEF RingSize
<1>2. /\ avail_idx[q] \in Index /\ last_avail_idx[q] \in Index
      /\ used_idx[q] \in Index /\ last_used[q] \in Index
  BY DEF RingTypes
<1>3. /\ DOMAIN avail_ring[q] = 0..(Num[q] - 1)
      /\ DOMAIN used_ring[q] = 0..(Num[q] - 1)
      /\ free[q] \subseteq 0..(Num[q] - 1)
  BY DEF RingTypes, Desc
<1>4. /\ Between(last_avail_idx[q], avail_idx[q]) \in Nat
      /\ Between(last_used[q], used_idx[q]) \in Nat
  BY <1>1, <1>2, BetweenIs
<1>5. IsFiniteSet(free[q]) /\ Cardinality(free[q]) \in Nat
  BY <1>1, <1>3, FreeSize
<1> QED
  BY <1>1, <1>2, <1>3, <1>4, <1>5

LEMMA UsePlaces ==
    ASSUME RingTypes, NEW q \in Queue, Placed(q), HasBuffer(q), UseBuffer(q)
    PROVE  Placed(q)'
<1> DEFINE n == Num[q]
           a == Between(last_avail_idx[q], avail_idx[q])
           u == Between(last_used[q], used_idx[q])
           A == Row(avail_ring[q], n, last_avail_idx[q], avail_idx[q])
           U == Row(used_ring[q], n, last_used[q], used_idx[q])
           B == Row(avail_ring[q], n, After(last_avail_idx[q]), avail_idx[q])
           d == avail_ring[q][last_avail_idx[q] % n]
           new == [used_ring[q] EXCEPT ![used_idx[q] % n] = d]
           V == Row(new, n, last_used[q], After(used_idx[q]))
<1>1. EachOnce(A, a, U, u, free[q], n)
  BY DEF Placed
<1>2. /\ RingSize(n) /\ n \in Nat /\ a \in Nat /\ u \in Nat
      /\ avail_idx[q] \in Index /\ last_avail_idx[q] \in Index
      /\ used_idx[q] \in Index /\ last_used[q] \in Index
      /\ DOMAIN used_ring[q] = 0..(n - 1) /\ Cardinality(free[q]) \in Nat
  BY QueueTypes
<1>3. /\ a >= 1 /\ Between(After(last_avail_idx[q]), avail_idx[q]) = a - 1
      /\ Entry(avail_ring[q], n, last_avail_idx[q], 0) = d
      /\ \A k \in 0..(a - 2) :
            Entry(avail_ring[q], n, After(last_avail_idx[q]), k)
              = Entry(avail_ring[q], n, last_avail_idx[q], k + 1)
  <2>1. last_avail_idx[q] # avail_idx[q]
    BY DEF HasBuffer
  <2>2. IsTake(avail_ring[q], n, last_avail_idx[q], avail_idx[q])
    <3> HIDE DEF n
    <3> QED
      BY <1>2, <2>1, TakeEntry
  <2> QED
    BY <2>2 DEF IsTake
<1>4. u < n
  BY <1>1, <1>2, <1>3 DEF EachOnce
<1>5. /\ Between(last_used[q], After(used_idx[q])) = u + 1
      /\ Entry(new, n, last_used[q], u) = d
      /\ \A k \in 0..(u - 1) :
            Entry(new, n, last_used[q], k) = Entry(used_ring[q], n, last_used[q], k)
  <2>1. IsPut(used_ring[q], n, last_used[q], used_idx[q], d, new)
    <3>1. Between(last_used[q], used_idx[q]) < n
      BY <1>4
    <3> DEFINE ring == used_ring[q]
    <3>2. new = [ring EXCEPT ![used_idx[q] % n] = d] /\ DOMAIN ring = 0..(n - 1)
      BY <1>2
    <3> HIDE DEF n, d, new, ring
    <3>3. IsPut(ring, n, last_used[q], used_idx[q], d, new)
      BY <1>2, <3>1, <3>2, PutEntry
    <3> QED
      BY <3>3 DEF ring
  <2> QED
    BY <2>1 DEF IsPut
<1>6. /\ \A k \in 0..(a - 2) : B[k] = A[k + 1]
      /\ A[0] = d
  BY <1>2, <1>3 DEF Row
<1>7. /\ \A k \in 0..(u - 1) : V[k] = U[k]
      /\ V[u] = d
  BY <1>2, <1>5 DEF Row
<1>8. EachOnce(B, a - 1, V, u + 1, free[q], n)
  <2> HIDE DEF n, a, u, A, U, B, d, V
  <2> QED
    BY <1>1, <1>2, <1>3, <1>6, <1>7, MoveToUsed
<1>9. /\ last_avail_idx'[q] = After(last_avail_idx[q])
      /\ used_idx'[q] = After(used_idx[q])
      /\ used_ring'[q] = new
      /\ avail_idx' = avail_idx /\ avail_ring' = avail_ring
      /\ last_used' = last_used /\ free' = free
  BY DEF UseBuffer, RingTypes, RingsTyped
<1> QED
  BY <1>3, <1>5, <1>8, <1>9 DEF Placed

LEMMA AddPlaces ==
    ASSUME RingTypes, NEW q \in Queue, Placed(q), AddBuffer(q)
    PROVE  Placed(q)'
<1> DEFINE n == Num[q]
           a == Between(last_avail_idx[q], avail_idx[q])
           u == Between(last_used[q], used_idx[q])
           A == Row(avail_ring[q], n, last_avail_idx[q], avail_idx[q])
           U == Row(used_ring[q], n, last_used[q], used_idx[q])
<1>1. EachOnce(A, a, U, u, free[q], n)
  BY DEF Placed
<1>2. /\ RingSize(n) /\ n \in Nat /\ a \in Nat /\ u \in Nat
      /\ avail_idx[q] \in Index /\ last_avail_idx[q] \in Index
      /\ used_idx[q] \in Index /\ last_used[q] \in Index
      /\ DOMAIN avail_ring[q] = 0..(n - 1)
      /\ IsFiniteSet(free[q]) /\ Cardinality(free[q]) \in Nat
  BY QueueTypes
<1>3. PICK d \in free[q] :
        /\ avail_ring' = [avail_ring EXCEPT ![q][avail_idx[q] % n] = d]
        /\ free' = [free EXCEPT ![q] = @ \ {d}]
  BY DEF AddBuffer
<1> DEFINE new == [avail_ring[q] EXCEPT ![avail_idx[q] % n] = d]
           B == Row(new, n, last_avail_idx[q], After(avail_idx[q]))
<1>4. a < n
  <2>1. Cardinality(free[q]) # 0
    BY <1>2, <1>3, FS_EmptySet
  <2> QED
    BY <1>1, <1>2, <2>1 DEF EachOnce
<1>5. /\ Between(last_avail_idx[q], After(avail_idx[q])) = a + 1
      /\ Entry(new, n, last_avail_idx[q], a) = d
      /\ \A k \in 0..(a - 1) :
            Entry(new, n, last_avail_idx[q], k)
              = Entry(avail_ring[q], n, last_avail_idx[q], k)
  <2>1. IsPut(avail_ring[q], n, last_avail_idx[q], avail_idx[q], d, new)
    <3>1. Between(last_avail_idx[q], avail_idx[q]) < n
      BY <1>4
    <3> DEFINE ring == avail_ring[q]
    <3>2. new = [ring EXCEPT ![avail_idx[q] % n] = d] /\ DOMAIN ring = 0..(n - 1)
      BY <1>2
    <3> HIDE DEF n, new, ring
    <3>3. IsPut(ring, n, last_avail_idx[q], avail_idx[q], d, new)
      BY <1>2, <3>1, <3>2, PutEntry
    <3> QED
      BY <3>3 DEF ring
  <2> QED
    BY <2>1 DEF IsPut
<1>6. /\ \A k \in 0..(a - 1) : B[k] = A[k]
      /\ B[a] = d
  <2>1. /\ \A k \in 0..(a - 1) : k \in 0..((a + 1) - 1)
        /\ a \in 0..((a + 1) - 1)
    <3> HIDE DEF a
    <3> QED
      BY <1>2
  <2>2. B = [k \in 0..((a + 1) - 1) |-> Entry(new, n, last_avail_idx[q], k)]
    BY <1>5 DEF Row
  <2>3. A = [k \in 0..(a - 1) |-> Entry(avail_ring[q], n, last_avail_idx[q], k)]
    BY DEF Row
  <2> HIDE DEF a, A, B, n, new
  <2> QED
    BY <1>5, <2>1, <2>2, <2>3
<1>7. EachOnce(B, a + 1, U, u, free[q] \ {d}, n)
  <2> HIDE DEF n, a, u, A, U, B
  <2> QED
    BY <1>1, <1>2, <1>3, <1>6, FreeToAvailable
<1>8. /\ avail_idx'[q] = After(avail_idx[q])
      /\ avail_ring'[q] = new
      /\ free'[q] = free[q] \ {d}
      /\ used_idx' = used_idx /\ used_ring' = used_ring
      /\ last_used' = last_used /\ last_avail_idx' = last_avail_idx
  BY <1>3 DEF AddBuffer, RingTypes, RingsTyped, virtqs
<1> QED
  BY <1>5, <1>7, <1>8 DEF Placed

LEMMA TakePlaces ==
    ASSUME RingTypes, NEW q \in Queue, Placed(q), TakeUsed(q)
    PROVE  Placed(q)'
<1> DEFINE n == Num[q]
           a == Between(last_avail_idx[q], avail_idx[q])
           u == Between(last_used[q], used_idx[q])
           A == Row(avail_ring[q], n, last_avail_idx[q], avail_idx[q])
           U == Row(used_ring[q], n, last_used[q], used_idx[q])
           d == used_ring[q][last_used[q] % n]
           V == Row(used_ring[q], n, After(last_used[q]), used_idx[q])
<1>1. EachOnce(A, a, U, u, free[q], n)
  BY DEF Placed
<1>2. /\ RingSize(n) /\ n \in Nat /\ a \in Nat /\ u \in Nat
      /\ used_idx[q] \in Index /\ last_used[q] \in Index
  BY QueueTypes
<1>3. /\ u >= 1 /\ Between(After(last_used[q]), used_idx[q]) = u - 1
      /\ Entry(used_ring[q], n, last_used[q], 0) = d
      /\ \A k \in 0..(u - 2) :
            Entry(used_ring[q], n, After(last_used[q]), k)
              = Entry(used_ring[q], n, last_used[q], k + 1)
  <2>1. IsTake(used_ring[q], n, last_used[q], used_idx[q])
    <3> HIDE DEF n
    <3> QED
      BY <1>2, TakeEntry DEF TakeUsed
  <2> QED
    BY <2>1 DEF IsTake
<1>4. /\ \A k \in 0..(u - 2) : V[k] = U[k + 1]
      /\ U[0] = d
  BY <1>2, <1>3 DEF Row
<1>5. EachOnce(A, a, V, u - 1, free[q] \cup {d}, n)
  <2>1. EachOnce(A, a, V, u - 1, free[q] \cup {U[0]}, n)
    <3> HIDE DEF n, a, u, A, U, V
    <3> QED
      BY <1>1, <1>2, <1>3, <1>4, UsedToFree
  <2> HIDE DEF n, a, u, A, U, V, d
  <2> QED
    BY <1>4, <2>1
<1>6. /\ last_used'[q] = After(last_used[q])
      /\ free'[q] = free[q] \cup {d}
      /\ used_idx' = used_idx /\ used_ring' = used_ring
      /\ avail_idx' = avail_idx /\ avail_ring' = avail_ring
      /\ last_avail_idx' = last_avail_idx
  BY DEF TakeUsed, RingTypes, RingsTyped, virtqs
<1> QED
  BY <1>3, <1>5, <1>6 DEF Placed

LEMMA EmptyRings ==
    ASSUME NEW n \in Nat, NEW A, NEW U
    PROVE  EachOnce(A, 0, U, 0, 0..(n - 1), n)
<1>1. Cardinality(0..(n - 1)) = n
  BY FS_Interval
<1> QED
  BY <1>1 DEF EachOnce

LEMMA ResetPlaces ==
    ASSUME RingTypes, NEW q \in Queue, SetVringAddr(q)
    PROVE  Placed(q)'
<1>1. Num[q] \in Nat /\ IdxMod \in Nat /\ IdxMod > 1 /\ 0 \in Index
  BY RingAssumption, Sizes
<1>2. Between(0, 0) = 0
  BY <1>1, BetweenIs
<1>3. /\ last_avail_idx'[q] = 0 /\ avail_idx'[q] = 0
      /\ last_used'[q] = 0 /\ used_idx'[q] = 0
      /\ free'[q] = 0..(Num[q] - 1)
  BY DEF SetVringAddr, RingTypes, RingsTyped, Desc
<1> QED
  BY <1>1, <1>2, <1>3, EmptyRings DEF Placed

LEMMA InitPlaces == Init => BuffersPlaced
<1> SUFFICES ASSUME Init, NEW q \in Queue
             PROVE  Placed(q)
  BY DEF BuffersPlaced
<1>1. Num[q] \in Nat /\ IdxMod \in Nat /\ IdxMod > 1 /\ 0 \in Index
  BY RingAssumption, Sizes
<1>2. Between(0, 0) = 0
  BY <1>1, BetweenIs
<1>3. /\ last_avail_idx[q] = 0 /\ avail_idx[q] = 0
      /\ last_used[q] = 0 /\ used_idx[q] = 0
      /\ free[q] = 0..(Num[q] - 1)
  BY DEF Init, Desc
<1> QED
  BY <1>1, <1>2, <1>3, EmptyRings DEF Placed

(***************************************************************************)
(* What an operation on one queue does to another.                         *)
(***************************************************************************)
LEMMA OthersPlaced ==
    ASSUME RingTypes, NEW p \in Queue, NEW q \in Queue, p # q, Placed(p),
           UseBuffer(q) \/ SetVringAddr(q) \/ AddBuffer(q) \/ TakeUsed(q)
    PROVE  Placed(p)'
<1>1. /\ avail_idx'[p] = avail_idx[p] /\ avail_ring'[p] = avail_ring[p]
      /\ used_idx'[p] = used_idx[p] /\ used_ring'[p] = used_ring[p]
      /\ last_used'[p] = last_used[p] /\ free'[p] = free[p]
      /\ last_avail_idx'[p] = last_avail_idx[p]
  <2>1. CASE UseBuffer(q)
    BY <2>1 DEF UseBuffer, RingTypes, RingsTyped
  <2>2. CASE SetVringAddr(q)
    BY <2>2 DEF SetVringAddr, RingTypes, RingsTyped
  <2>3. CASE AddBuffer(q)
    BY <2>3 DEF AddBuffer, RingTypes, RingsTyped, virtqs
  <2>4. CASE TakeUsed(q)
    BY <2>4 DEF TakeUsed, RingTypes, RingsTyped, virtqs
  <2> QED
    BY <2>1, <2>2, <2>3, <2>4
<1> QED
  BY <1>1 DEF Placed

LEMMA NextPlaces == IInv /\ BuffersPlaced /\ [Next]_vars => BuffersPlaced'
<1> SUFFICES ASSUME IInv, BuffersPlaced, [Next]_vars, NEW p \in Queue
             PROVE  Placed(p)'
  BY DEF BuffersPlaced
<1>1. RingTypes /\ StackTypes /\ Placed(p)
  BY TypeParts DEF IInv, BuffersPlaced
<1>2. CASE UNCHANGED <<rings, last_avail_idx>>
  BY <1>1, <1>2 DEF rings, Placed
<1>3. ASSUME NEW q \in Queue,
             \/ HasBuffer(q) /\ UseBuffer(q)
             \/ SetVringAddr(q) \/ AddBuffer(q) \/ TakeUsed(q)
      PROVE  Placed(p)'
  <2>1. CASE p # q
    BY <1>1, <1>3, <2>1, OthersPlaced
  <2>2. CASE p = q
    BY <1>1, <1>3, <2>2, UsePlaces, ResetPlaces, AddPlaces, TakePlaces
  <2> QED
    BY <2>1, <2>2
<1>4. CASE Next
  BY <1>1, <1>2, <1>3, <1>4, RingSteps
<1>5. CASE UNCHANGED vars
  BY <1>2, <1>5 DEF vars, virtqs
<1> QED
  BY <1>4, <1>5

(***************************************************************************)
(* No buffer is lost or returned twice, whatever the sizes of the rings    *)
(* and the width of the indices that wrap, and however the handling of     *)
(* queues is nested: the descriptors in the available ring, those in the   *)
(* used ring and the driver's free ones are all of them, each once.        *)
(***************************************************************************)
THEOREM BuffersKept == Spec => []BuffersConserved
<1>1. IInv /\ BuffersPlaced => BuffersConserved
  <2> SUFFICES ASSUME IInv, NEW q \in Queue, Placed(q)
               PROVE  /\ Available(q) \cup Used(q) \cup free[q] = Desc(q)
                      /\ Between(last_avail_idx[q], avail_idx[q])
                           + Between(last_used[q], used_idx[q])
                           + Cardinality(free[q]) = Num[q]
    BY DEF BuffersConserved, BuffersPlaced
  <2> DEFINE a == Between(last_avail_idx[q], avail_idx[q])
             u == Between(last_used[q], used_idx[q])
             A == Row(avail_ring[q], Num[q], last_avail_idx[q], avail_idx[q])
             U == Row(used_ring[q], Num[q], last_used[q], used_idx[q])
  <2>1. EachOnce(A, a, U, u, free[q], Num[q])
    BY DEF Placed
  <2>2. /\ Available(q) = {A[k] : k \in 0..(a - 1)}
        /\ Used(q) = {U[k] : k \in 0..(u - 1)}
    BY DEF Available, Used, Entries, Row, Entry, Pos
  <2> HIDE DEF a, u, A, U
  <2>3. Available(q) \cup Used(q) \cup free[q] = 0..(Num[q] - 1)
    BY <2>1, <2>2 DEF EachOnce
  <2>4. a + u + Cardinality(free[q]) = Num[q]
    BY <2>1 DEF EachOnce
  <2> QED
    BY <2>3, <2>4 DEF Desc, a, u
<1> QED
  BY <1>1, InitPlaces, NextPlaces, Invariance, PTL DEF Spec
=============================================================================
