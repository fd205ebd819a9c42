---------------------------- MODULE SchedProofs ----------------------------
(***************************************************************************)
(* Proofs about the scheduler of module Sched, for every set of jobs,      *)
(* every assignment of priorities and all bounds, and about the scheduler  *)
(* driven by the wall clock: under the invariant of the timer every step   *)
(* of the daemon is a step of Sched, which keeps the scheduler's           *)
(* invariant.                                                              *)
(***************************************************************************)
EXTENDS Wallclock, SequenceTheorems, WellFoundedInduction, TLAPS

(***************************************************************************)
(* usfstl_list_insert_before(): the element lands at position i and the    *)
(* later ones move up by one.                                              *)
(***************************************************************************)
IsInsertion(S, s, i, e, new) ==
    /\ new \in Seq(S)
    /\ Len(new) = Len(s) + 1
    /\ \A k \in 1..(Len(s) + 1) :
          new[k] = IF k < i THEN s[k] ELSE IF k = i THEN e ELSE s[k - 1]

LEMMA InsertAtProperties ==
    ASSUME NEW S, NEW s \in Seq(S), NEW e \in S, NEW i \in 1..(Len(s) + 1)
    PROVE  IsInsertion(S, s, i, e, InsertAt(s, i, e))
<1> DEFINE front == SubSeq(s, 1, i - 1)
           back  == SubSeq(s, i, Len(s))
<1>1. Len(s) \in Nat /\ \A k \in 1..Len(s) : s[k] \in S
  BY LenProperties, ElementOfSeq
<1>2. /\ front \in Seq(S)
      /\ Len(front) = i - 1
      /\ \A k \in 1..(i - 1) : front[k] = s[k]
  <2>1. \A k \in 1..(i - 1) : s[k] \in S
    BY <1>1
  <2>2. /\ front \in Seq(S)
        /\ Len(front) = IF 1 <= i - 1 THEN (i - 1) - 1 + 1 ELSE 0
        /\ \A k \in 1..((i - 1) - 1 + 1) : front[k] = s[1 + k - 1]
    BY <2>1, SubSeqProperties, <1>1
  <2> QED
    BY <2>2, <1>1
<1>3. /\ back \in Seq(S)
      /\ Len(back) = Len(s) - i + 1
      /\ \A k \in 1..(Len(s) - i + 1) : back[k] = s[i + k - 1]
  <2>1. \A k \in i..Len(s) : s[k] \in S
    BY <1>1
  <2>2. /\ back \in Seq(S)
        /\ Len(back) = IF i <= Len(s) THEN Len(s) - i + 1 ELSE 0
        /\ \A k \in 1..(Len(s) - i + 1) : back[k] = s[i + k - 1]
    BY <2>1, SubSeqProperties, <1>1
  <2> QED
    BY <2>2, <1>1
<1> DEFINE left == front \o <<e>>
<1>4. <<e>> \in Seq(S) /\ Len(<<e>>) = 1 /\ <<e>>[1] = e
  OBVIOUS
<1>5. /\ left \in Seq(S)
      /\ Len(left) = i
      /\ \A k \in 1..i : left[k] = IF k <= i - 1 THEN s[k] ELSE e
  <2> HIDE DEF front
  <2>1. /\ left \in Seq(S)
        /\ Len(left) = Len(front) + Len(<<e>>)
        /\ \A k \in 1..(Len(front) + Len(<<e>>)) :
              left[k] = IF k <= Len(front) THEN front[k]
                        ELSE <<e>>[k - Len(front)]
    BY <1>2, <1>4, ConcatProperties
  <2> QED
    BY <2>1, <1>2, <1>4, <1>1
<1>6. InsertAt(s, i, e) = left \o back
  BY DEF InsertAt
<1> HIDE DEF left, back, front
<1>7. /\ left \o back \in Seq(S)
      /\ Len(left \o back) = Len(left) + Len(back)
      /\ \A k \in 1..(Len(left) + Len(back)) :
            (left \o back)[k] = IF k <= Len(left) THEN left[k]
                                ELSE back[k - Len(left)]
  BY <1>3, <1>5, ConcatProperties
<1> QED
  BY <1>1, <1>3, <1>5, <1>6, <1>7 DEF IsInsertion

(***************************************************************************)
(* usfstl_list_item_remove() and list_del(): the element at position i     *)
(* goes and the later ones move down by one.                               *)
(***************************************************************************)
IsRemoval(S, s, i, new) ==
    /\ new \in Seq(S)
    /\ Len(new) = Len(s) - 1
    /\ \A k \in 1..(Len(s) - 1) : new[k] = IF k < i THEN s[k] ELSE s[k + 1]

LEMMA RemoveAtProperties ==
    ASSUME NEW S, NEW s \in Seq(S), NEW i \in 1..Len(s)
    PROVE  IsRemoval(S, s, i, RemoveAt(s, i))
<1> DEFINE front == SubSeq(s, 1, i - 1)
           back  == SubSeq(s, i + 1, Len(s))
<1>1. Len(s) \in Nat /\ \A k \in 1..Len(s) : s[k] \in S
  BY LenProperties, ElementOfSeq
<1>2. /\ front \in Seq(S)
      /\ Len(front) = i - 1
      /\ \A k \in 1..(i - 1) : front[k] = s[k]
  <2>1. \A k \in 1..(i - 1) : s[k] \in S
    BY <1>1
  <2>2. /\ front \in Seq(S)
        /\ Len(front) = IF 1 <= i - 1 THEN (i - 1) - 1 + 1 ELSE 0
        /\ \A k \in 1..((i - 1) - 1 + 1) : front[k] = s[1 + k - 1]
    BY <2>1, SubSeqProperties, <1>1
  <2> QED
    BY <2>2, <1>1
<1>3. /\ back \in Seq(S)
      /\ Len(back) = Len(s) - i
      /\ \A k \in 1..(Len(s) - i) : back[k] = s[i + k]
  <2>1. \A k \in (i + 1)..Len(s) : s[k] \in S
    BY <1>1
  <2>2. /\ back \in Seq(S)
        /\ Len(back) = IF i + 1 <= Len(s) THEN Len(s) - (i + 1) + 1 ELSE 0
        /\ \A k \in 1..(Len(s) - (i + 1) + 1) : back[k] = s[i + 1 + k - 1]
    BY <2>1, SubSeqProperties, <1>1
  <2> QED
    BY <2>2, <1>1
<1>4. RemoveAt(s, i) = front \o back
  BY DEF RemoveAt
<1> HIDE DEF front, back
<1>5. /\ front \o back \in Seq(S)
      /\ Len(front \o back) = Len(front) + Len(back)
      /\ \A k \in 1..(Len(front) + Len(back)) :
            (front \o back)[k] = IF k <= Len(front) THEN front[k]
                                 ELSE back[k - Len(front)]
  BY <1>2, <1>3, ConcatProperties
<1> QED
  BY <1>1, <1>2, <1>3, <1>4, <1>5 DEF IsRemoval

(***************************************************************************)
(* A search from the front of a list ends: a non-empty set of positions    *)
(* has a first one.                                                        *)
(***************************************************************************)
LEMMA FirstPosition ==
    ASSUME NEW T, T \subseteq Nat, T # {}
    PROVE  \E x \in T : \A y \in T : x <= y
<1>1. PICK x \in T : \A y \in T : ~(<<y, x>> \in OpToRel(<, Nat))
  BY NatLessThanWellFounded, WFMin
<1>2. \A y \in T : ~(y < x)
  BY <1>1 DEF OpToRel
<1> QED
  BY <1>2

(***************************************************************************)
(* What is known of the requests sent to the external scheduler: it holds  *)
(* at most the last time asked for, and as long as the flag says that this *)
(* time need not be asked for again, it does hold it (or time got there).  *)
(***************************************************************************)
RequestsKnown ==
    /\ waiting => attached
    /\ ext_request # None => ext_request = prev_external_sync
    /\ prev_external_sync_set /\ (waiting \/ prev_external_sync > current_time)
         => ext_request = prev_external_sync

(***************************************************************************)
(* While usfstl_sched_next() waits for a job and nothing was deleted, the  *)
(* time asked for last is the start of some queued job.                    *)
(***************************************************************************)
RequestIsForQueuedJob ==
    waiting /\ job # NoJob /\ ~cancelled =>
        \E i \in 1..Len(joblist) : start[joblist[i]] = prev_external_sync

(***************************************************************************)
(* The inductive invariant.                                                *)
(***************************************************************************)
IInv ==
    /\ TypeOK
    /\ JoblistOrdered
    /\ RequestsKnown
    /\ WakeupPending
    /\ RequestIsForQueuedJob
-----------------------------------------------------------------------------
(* The list operations.                                                    *)

(***************************************************************************)
(* The search loop of usfstl_sched_add_job() always finds the position it  *)
(* inserts at: before the first job that must run after the new one.       *)
(***************************************************************************)
LEMMA InsertPosExists ==
    ASSUME NEW list \in Seq(Job), NEW st \in [Job -> Nat],
           NEW time \in Nat, NEW prio \in Nat
    PROVE  LET i == InsertPos(list, st, time, prio)
           IN  /\ i \in 1..(Len(list) + 1)
               /\ \A k \in 1..(i - 1) : ~RunsAfter(list[k], st, time, prio)
               /\ i <= Len(list) => RunsAfter(list[i], st, time, prio)
<1> DEFINE T == {k \in 1..Len(list) : RunsAfter(list[k], st, time, prio)}
           P(i) == /\ \A k \in 1..(i - 1) : ~RunsAfter(list[k], st, time, prio)
                   /\ i <= Len(list) => RunsAfter(list[i], st, time, prio)
<1>1. Len(list) \in Nat
  BY LenProperties
<1>2. \E i \in 1..(Len(list) + 1) : P(i)
  <2>1. CASE T = {}
    <3>1. P(Len(list) + 1)
      BY <1>1, <2>1
    <3> QED
      BY <3>1, <1>1
  <2>2. CASE T # {}
    <3>1. T \subseteq Nat
      BY <1>1
    <3>2. PICK x \in T : \A y \in T : x <= y
      BY <3>1, <2>2, FirstPosition
    <3>3. P(x)
      BY <3>2, <1>1
    <3> QED
      BY <3>2, <3>3, <1>1
  <2> QED
    BY <2>1, <2>2
<1>3. InsertPos(list, st, time, prio) = CHOOSE i \in 1..(Len(list) + 1) : P(i)
  BY DEF InsertPos
<1> HIDE DEF P
<1>4. /\ InsertPos(list, st, time, prio) \in 1..(Len(list) + 1)
      /\ P(InsertPos(list, st, time, prio))
  BY <1>2, <1>3
<1> QED
  BY <1>4 DEF P

(***************************************************************************)
(* It splits an ordered list: the jobs before the position do not have to  *)
(* run after the new job, all jobs from the position on do.                *)
(***************************************************************************)
LEMMA InsertSplits ==
    ASSUME TypeOK, JoblistOrdered, NEW j \in Job, NEW t \in Nat,
           NEW new, new = InsertJob(joblist, start, j, t)
    PROVE  \E p \in 1..(Len(joblist) + 1) :
              /\ IsInsertion(Job, joblist, p, j, new)
              /\ \A k \in 1..(p - 1) :
                    ~RunsAfter(joblist[k], start, t, Priority[j])
              /\ \A k \in p..Len(joblist) :
                    RunsAfter(joblist[k], start, t, Priority[j])
<1> DEFINE n == Len(joblist)
<1>1. /\ joblist \in Seq(Job) /\ start \in [Job -> Nat] /\ n \in Nat
      /\ Priority[j] \in Nat
  BY PriorityAssumption, LenProperties DEF TypeOK
<1>2. PICK p \in 1..(n + 1) :
         /\ new = InsertAt(joblist, p, j)
         /\ \A k \in 1..(p - 1) : ~RunsAfter(joblist[k], start, t, Priority[j])
         /\ p <= n => RunsAfter(joblist[p], start, t, Priority[j])
  BY <1>1, InsertPosExists DEF InsertJob
<1>3. p \in 1..(n + 1)
  BY <1>2
<1>4. IsInsertion(Job, joblist, p, j, new)
  BY <1>1, <1>2, <1>3, InsertAtProperties
<1>5. \A k \in 1..n : start[joblist[k]] \in Nat /\ Priority[joblist[k]] \in Nat
  BY <1>1, ElementOfSeq, PriorityAssumption
<1>6. \A k \in p..n : RunsAfter(joblist[k], start, t, Priority[j])
  <2> SUFFICES ASSUME NEW k \in p..n, k # p
               PROVE  RunsAfter(joblist[k], start, t, Priority[j])
    BY <1>1, <1>2
  <2>1. ~Behind(joblist[p], joblist[k])
    BY <1>1, <1>2 DEF JoblistOrdered
  <2>2. p \in 1..n /\ k \in 1..n
    BY <1>1, <1>2
  <2> DEFINE a == joblist[p]
             b == joblist[k]
  <2>3. /\ start[a] \in Nat /\ Priority[a] \in Nat
        /\ start[b] \in Nat /\ Priority[b] \in Nat
    BY <1>5, <2>2
  <2>4. RunsAfter(a, start, t, Priority[j]) /\ ~Behind(a, b)
    BY <1>2, <2>1, <2>2
  <2> HIDE DEF a, b
  <2>5. RunsAfter(b, start, t, Priority[j])
    BY <1>1, <2>3, <2>4, SMTT(30) DEF Behind, RunsAfter
  <2> QED
    BY <2>5 DEF b
<1> QED
  BY <1>2, <1>3, <1>4, <1>6

(***************************************************************************)
(* Inserting an unscheduled job keeps the list ordered, keeps what was in  *)
(* it and adds the new job.                                                *)
(***************************************************************************)
LEMMA InsertKeepsOrder ==
    ASSUME TypeOK, JoblistOrdered, NEW j \in Job, NEW t \in Nat,
           ~Scheduled(j),
           start' = [start EXCEPT ![j] = t],
           joblist' = InsertJob(joblist, start, j, t)
    PROVE  /\ joblist' \in Seq(Job)
           /\ JoblistOrdered'
           /\ joblist' # <<>>
           /\ \E k \in 1..Len(joblist') : joblist'[k] = j
           /\ \A i \in 1..Len(joblist) : \E k \in 1..Len(joblist') :
                 joblist'[k] = joblist[i]
<1> DEFINE n == Len(joblist)
<1>1. /\ joblist \in Seq(Job) /\ start \in [Job -> Nat] /\ n \in Nat
      /\ Priority[j] \in Nat
  BY PriorityAssumption, LenProperties DEF TypeOK
<1>2. PICK p \in 1..(n + 1) :
         /\ IsInsertion(Job, joblist, p, j, joblist')
         /\ \A k \in 1..(p - 1) : ~RunsAfter(joblist[k], start, t, Priority[j])
         /\ \A k \in p..n : RunsAfter(joblist[k], start, t, Priority[j])
  BY InsertSplits
<1>3. p \in 1..(n + 1)
  BY <1>2
<1>4. /\ joblist' \in Seq(Job)
      /\ Len(joblist') = n + 1
      /\ \A k \in 1..(n + 1) :
            joblist'[k] = IF k < p THEN joblist[k]
                          ELSE IF k = p THEN j ELSE joblist[k - 1]
  BY <1>2 DEF IsInsertion
<1>5. \A k \in 1..n : joblist[k] \in Job /\ joblist[k] # j
  BY <1>1, ElementOfSeq DEF Scheduled
<1>6. \A k \in 1..n : start'[joblist[k]] = start[joblist[k]]
  BY <1>1, <1>5
<1>7. start'[j] = t
  BY <1>1
<1>8. \A k \in 1..n : start[joblist[k]] \in Nat /\ Priority[joblist[k]] \in Nat
  BY <1>1, <1>5, PriorityAssumption
<1>9. \A k \in p..n : RunsAfter(joblist[k], start, t, Priority[j])
  BY <1>2
<1>10. JoblistOrdered'
  <2> SUFFICES ASSUME NEW i \in 1..(n + 1), NEW k \in 1..(n + 1), i < k
               PROVE  /\ joblist'[i] # joblist'[k]
                      /\ ~ \/ start'[joblist'[i]] > start'[joblist'[k]]
                           \/ /\ start'[joblist'[i]] = start'[joblist'[k]]
                              /\ Priority[joblist'[i]] < Priority[joblist'[k]]
    BY <1>4 DEF JoblistOrdered, Behind
  <2>1. CASE i # p /\ k # p
    <3> DEFINE a == IF i < p THEN i ELSE i - 1
               b == IF k < p THEN k ELSE k - 1
    <3>1. a \in 1..n /\ b \in 1..n /\ a < b
      BY <2>1, <1>1, <1>2
    <3>2. joblist'[i] = joblist[a] /\ joblist'[k] = joblist[b]
      BY <2>1, <1>4, <1>1, <1>2
    <3> HIDE DEF a, b
    <3>3. joblist[a] # joblist[b] /\ ~Behind(joblist[a], joblist[b])
      BY <3>1 DEF JoblistOrdered
    <3> QED
      BY <3>1, <3>2, <3>3, <1>6 DEF Behind
  <2>2. CASE i = p
    <3>1. joblist'[i] = j /\ joblist'[k] = joblist[k - 1] /\ k - 1 \in p..n
      BY <2>2, <1>4, <1>1, <1>2
    <3>2. k - 1 \in 1..n /\ RunsAfter(joblist[k - 1], start, t, Priority[j])
      BY <3>1, <1>9, <1>1, <1>2
    <3> DEFINE b == joblist[k - 1]
    <3>3. /\ b # j /\ start'[b] = start[b]
          /\ start[b] \in Nat /\ Priority[b] \in Nat
      BY <3>2, <1>5, <1>6, <1>8
    <3>4. joblist'[k] = b /\ RunsAfter(b, start, t, Priority[j])
      BY <3>1, <3>2
    <3> HIDE DEF b
    <3> QED
      BY <3>1, <3>3, <3>4, <1>7, <1>1, SMTT(30) DEF RunsAfter
  <2>3. CASE k = p
    <3>3. i \in 1..(p - 1) /\ i < p /\ ~(k < p)
      BY <2>3, <1>3, <1>1
    <3>4. joblist'[k] = j
      BY <2>3, <3>3, <1>4
    <3>5. joblist'[i] = joblist[i]
      BY <3>3, <1>4
    <3>1. joblist'[k] = j /\ joblist'[i] = joblist[i] /\ i \in 1..(p - 1)
      BY <3>3, <3>4, <3>5
    <3>2. i \in 1..n /\ ~RunsAfter(joblist[i], start, t, Priority[j])
      BY <3>1, <1>1, <1>2
    <3> QED
      BY <3>1, <3>2, <1>5, <1>6, <1>7, <1>8, <1>1 DEF RunsAfter
  <2> QED
    BY <2>1, <2>2, <2>3
<1>11. joblist'[p] = j /\ p \in 1..Len(joblist')
  BY <1>2, <1>4, <1>1
<1>12. ASSUME NEW i \in 1..n
       PROVE  \E k \in 1..Len(joblist') : joblist'[k] = joblist[i]
  <2>1. CASE i < p
    <3>1. i \in 1..(n + 1)
      BY <1>1
    <3>2. joblist'[i] = joblist[i]
      BY <3>1, <2>1, <1>4
    <3> QED
      BY <3>1, <3>2, <1>4
  <2>2. CASE ~(i < p)
    <3>1. i + 1 \in 1..(n + 1) /\ ~(i + 1 < p) /\ i + 1 # p /\ i + 1 - 1 = i
      BY <2>2, <1>3, <1>1
    <3>2. joblist'[i + 1] = joblist[i]
      BY <3>1, <1>4
    <3> QED
      BY <3>1, <3>2, <1>4
  <2> QED
    BY <2>1, <2>2
<1>13. joblist' # <<>>
  BY <1>11, <1>4, <1>1
<1> QED
  BY <1>4, <1>10, <1>11, <1>12, <1>13

(***************************************************************************)
(* Unlinking the job at position p keeps the order of the others.          *)
(***************************************************************************)
LEMMA RemoveKeepsOrder ==
    ASSUME TypeOK, JoblistOrdered, NEW p \in 1..Len(joblist),
           start' = start, joblist' = RemoveAt(joblist, p)
    PROVE  joblist' \in Seq(Job) /\ JoblistOrdered'
<1> DEFINE n == Len(joblist)
<1>1. joblist \in Seq(Job) /\ n \in Nat
  BY LenProperties DEF TypeOK
<1>2. /\ joblist' \in Seq(Job)
      /\ Len(joblist') = n - 1
      /\ \A k \in 1..(n - 1) :
            joblist'[k] = IF k < p THEN joblist[k] ELSE joblist[k + 1]
  <2>1. IsRemoval(Job, joblist, p, RemoveAt(joblist, p))
    BY <1>1, RemoveAtProperties
  <2> QED
    BY <2>1 DEF IsRemoval
<1>3. JoblistOrdered'
  <2> SUFFICES ASSUME NEW i \in 1..(n - 1), NEW k \in 1..(n - 1), i < k
               PROVE  joblist'[i] # joblist'[k]
                      /\ ~Behind(joblist'[i], joblist'[k])
    BY <1>2 DEF JoblistOrdered, Behind
  <2> DEFINE a == IF i < p THEN i ELSE i + 1
             b == IF k < p THEN k ELSE k + 1
  <2>1. a \in 1..n /\ b \in 1..n /\ a < b
    BY <1>1
  <2>2. joblist'[i] = joblist[a] /\ joblist'[k] = joblist[b]
    BY <1>2
  <2> HIDE DEF a, b
  <2> QED
    BY <2>1, <2>2 DEF JoblistOrdered
<1> QED
  BY <1>2, <1>3

(***************************************************************************)
(* Taking the first job off the list, as usfstl_sched_next() does before   *)
(* it calls the job.                                                       *)
(***************************************************************************)
LEMMA TailKeepsOrder ==
    ASSUME TypeOK, JoblistOrdered, joblist # <<>>,
           start' = start, joblist' = Tail(joblist)
    PROVE  joblist' \in Seq(Job) /\ JoblistOrdered' /\ Head(joblist) \in Job
<1>1. joblist \in Seq(Job) /\ Len(joblist) \in Nat
  BY LenProperties DEF TypeOK
<1>2. /\ joblist' \in Seq(Job)
      /\ Len(joblist') = Len(joblist) - 1
      /\ \A i \in 1..Len(joblist') : joblist'[i] = joblist[i + 1]
      /\ Head(joblist) \in Job
  BY <1>1, HeadTailProperties
<1>3. JoblistOrdered'
  BY <1>1, <1>2 DEF JoblistOrdered, Behind
<1> QED
  BY <1>2, <1>3
-----------------------------------------------------------------------------
(* The invariant.                                                          *)

LEMMA InitIInv == Init => IInv
<1> SUFFICES ASSUME Init
             PROVE  IInv
  OBVIOUS
<1>1. joblist \in Seq(Job) /\ Len(joblist) = 0
  BY DEF Init
<1>2. start \in [Job -> Nat]
  BY DEF Init
<1>3. TypeOK
  BY <1>1, <1>2 DEF Init, TypeOK
<1>4. JoblistOrdered
  BY <1>1 DEF JoblistOrdered
<1>5. RequestsKnown /\ WakeupPending /\ RequestIsForQueuedJob
  BY DEF Init, RequestsKnown, WakeupPending, RequestIsForQueuedJob
<1> QED
  BY <1>3, <1>4, <1>5 DEF IInv

LEMMA AddJobIInv ==
    ASSUME IInv, NEW j \in Job, NEW t \in Time, AddJob(j, t)
    PROVE  IInv'
<1> USE DEF IInv
<1>1. TypeOK /\ t \in Nat /\ ~Scheduled(j)
  BY BoundAssumption DEF Time, AddJob
<1>2. /\ joblist' \in Seq(Job)
      /\ JoblistOrdered'
      /\ joblist' # <<>>
      /\ \E k \in 1..Len(joblist') : joblist'[k] = j
      /\ \A i \in 1..Len(joblist) : \E k \in 1..Len(joblist') :
            joblist'[k] = joblist[i]
  BY <1>1, InsertKeepsOrder DEF AddJob
<1>3. start'[j] = t /\ \A k \in Job \ {j} : start'[k] = start[k]
  BY <1>1 DEF AddJob, TypeOK
<1>4. TypeOK'
  <2>1. start' \in [Job -> Nat]
    BY <1>1 DEF AddJob, TypeOK
  <2>2. /\ prev_external_sync' \in Nat
        /\ prev_external_sync_set' \in BOOLEAN
        /\ ext_request' \in Nat \cup {None}
    BY <1>1 DEF AddJob, TypeOK, ExternalRequest, sync
  <2> QED
    BY <1>1, <1>2, <2>1, <2>2 DEF AddJob, TypeOK, free, wait
<1>5. RequestsKnown'
  BY <1>1, BoundAssumption
     DEF AddJob, TypeOK, RequestsKnown, ExternalRequest, AskedAlready,
         NeedsGrant, sync, free, wait, None
<1>6. WakeupPending'
  BY <1>1 DEF AddJob, TypeOK, RequestsKnown, WakeupPending, ExternalRequest,
              AskedAlready, NeedsGrant, sync, free, wait, None
<1>7. RequestIsForQueuedJob'
  <2>1. waiting /\ waiting' => prev_external_sync' = t
    BY DEF AddJob, RequestsKnown, ExternalRequest, AskedAlready, NeedsGrant,
           sync, free, wait
  <2> QED
    BY <2>1, <1>2, <1>3 DEF RequestIsForQueuedJob, AddJob, wait
<1> QED
  BY <1>2, <1>4, <1>5, <1>6, <1>7

LEMMA DelJobIInv ==
    ASSUME IInv, NEW j \in Job, DelJob(j)
    PROVE  IInv'
<1> USE DEF IInv
<1>1. PosOf(joblist, j) \in 1..Len(joblist)
  BY DEF DelJob, Scheduled, PosOf
<1>2. joblist' \in Seq(Job) /\ JoblistOrdered'
  BY <1>1, RemoveKeepsOrder DEF DelJob, RemoveJob
<1>3. joblist # <<>>
  BY <1>1 DEF TypeOK
<1>4. TypeOK'
  BY <1>2 DEF DelJob, TypeOK, sync, free
<1>5. RequestsKnown' /\ WakeupPending'
  BY <1>3 DEF DelJob, RequestsKnown, WakeupPending, sync, free
<1>6. RequestIsForQueuedJob'
  BY DEF DelJob, RequestIsForQueuedJob
<1> QED
  BY <1>2, <1>4, <1>5, <1>6

(***************************************************************************)
(* Every step of usfstl_sched_next().                                      *)
(***************************************************************************)
LEMMA SchedNextIInv ==
    ASSUME IInv, SchedNext
    PROVE  IInv'
<1> USE DEF IInv
<1>1. CASE NextWaitForJob
  <2>1. TypeOK'
    BY <1>1 DEF NextWaitForJob, TypeOK, free
  <2>3. JoblistOrdered'
    BY <1>1 DEF NextWaitForJob, JoblistOrdered, Behind
  <2>2. RequestsKnown' /\ WakeupPending' /\ RequestIsForQueuedJob'
    BY <1>1 DEF NextWaitForJob, Idle, TypeOK, RequestsKnown, WakeupPending,
                RequestIsForQueuedJob
  <2> QED
    BY <2>1, <2>2, <2>3
<1>2. CASE NextForwardWait
  <2> DEFINE h == Head(joblist)
  <2>1. h \in Job /\ start[h] \in Nat /\ h = joblist[1] /\ 1 \in 1..Len(joblist)
    BY <1>2 DEF NextForwardWait, TypeOK
  <2>2. TypeOK' /\ JoblistOrdered'
    BY <1>2, <2>1 DEF NextForwardWait, RequestAndWait, TypeOK, JoblistOrdered,
                      Behind, free
  <2>3. RequestsKnown' /\ WakeupPending'
    BY <1>2, <2>1 DEF NextForwardWait, RequestAndWait, Idle, TypeOK,
                      RequestsKnown, WakeupPending, AskedAlready, None
  <2>4. RequestIsForQueuedJob'
    BY <1>2, <2>1 DEF NextForwardWait, RequestAndWait, AskedAlready,
                      RequestIsForQueuedJob
  <2> QED
    BY <2>2, <2>3, <2>4
<1>3. CASE NextForwardFree \/ NextDue
  <2> DEFINE h == Head(joblist)
  <2>1. /\ joblist' \in Seq(Job)
        /\ JoblistOrdered'
        /\ h \in Job
    BY <1>3, TailKeepsOrder DEF NextForwardFree, NextDue, Call
  <2>2. start[h] \in Nat
    BY <2>1 DEF TypeOK
  <2>3. TypeOK'
    BY <1>3, <2>1, <2>2 DEF NextForwardFree, NextDue, Call, TypeOK, sync, free,
                            wait
  <2>4. RequestsKnown' /\ WakeupPending' /\ RequestIsForQueuedJob'
    BY <1>3, <2>2 DEF NextForwardFree, NextDue, Idle, TypeOK, RequestsKnown,
                      WakeupPending, RequestIsForQueuedJob, sync, free, wait
  <2> QED
    BY <2>1, <2>3, <2>4
<1> QED
  BY <1>1, <1>2, <1>3 DEF SchedNext

(***************************************************************************)
(* The steps of the external scheduler and the return of a callback.       *)
(***************************************************************************)
LEMMA ExternalIInv ==
    ASSUME IInv,
           \/ CallbackReturns \/ AttachExternal \/ GrantCall \/ GrantRetry
           \/ \E t \in Time : SetTime(t) \/ SetSyncTime(t)
    PROVE  IInv'
<1> USE DEF IInv
<1>1. CASE CallbackReturns \/ AttachExternal
  <2>1. TypeOK' /\ JoblistOrdered'
    BY <1>1 DEF CallbackReturns, AttachExternal, TypeOK, JoblistOrdered,
                Behind, sync, free, wait
  <2>2. RequestsKnown' /\ WakeupPending' /\ RequestIsForQueuedJob'
    BY <1>1 DEF CallbackReturns, AttachExternal, TypeOK, RequestsKnown,
                WakeupPending, RequestIsForQueuedJob, sync, free, wait
  <2> QED
    BY <2>1, <2>2
<1>2. CASE GrantCall
  <2>1. joblist # <<>> /\ start' = start /\ joblist' = Tail(joblist)
    BY <1>2 DEF GrantCall, JobReached, Call
  <2>2. /\ joblist' \in Seq(Job)
        /\ JoblistOrdered'
        /\ job \in Job
    BY <1>2, <2>1, TailKeepsOrder DEF GrantCall, JobReached
  <2>3. TypeOK'
    BY <1>2, <2>2 DEF GrantCall, GrantTime, Call, TypeOK, free, None
  <2>4. RequestsKnown' /\ WakeupPending' /\ RequestIsForQueuedJob'
    BY <1>2 DEF GrantCall, GrantTime, TypeOK, RequestsKnown, WakeupPending,
                RequestIsForQueuedJob, None
  <2> QED
    BY <2>2, <2>3, <2>4
<1>3. CASE GrantRetry
  <2>1. TypeOK' /\ JoblistOrdered'
    BY <1>3 DEF GrantRetry, GrantTime, TypeOK, JoblistOrdered, Behind, free,
                None
  <2>2. RequestsKnown' /\ WakeupPending' /\ RequestIsForQueuedJob'
    BY <1>3 DEF GrantRetry, GrantTime, TypeOK, RequestsKnown, WakeupPending,
                RequestIsForQueuedJob, None
  <2> QED
    BY <2>1, <2>2
<1>4. ASSUME NEW t \in Time, SetTime(t)
      PROVE  IInv'
  <2>1. t \in Nat
    BY BoundAssumption DEF Time
  <2>2. TypeOK' /\ JoblistOrdered'
    BY <1>4, <2>1 DEF SetTime, TypeOK, JoblistOrdered, Behind, sync, free, wait
  <2>3. RequestsKnown' /\ WakeupPending' /\ RequestIsForQueuedJob'
    BY <1>4, <2>1 DEF SetTime, TypeOK, RequestsKnown, WakeupPending,
                      RequestIsForQueuedJob, sync, free, wait, None
  <2> QED
    BY <2>2, <2>3
<1>5. ASSUME NEW t \in Time, SetSyncTime(t)
      PROVE  IInv'
  <2>1. t \in Nat
    BY BoundAssumption DEF Time
  <2>2. TypeOK' /\ JoblistOrdered'
    BY <1>5, <2>1 DEF SetSyncTime, TypeOK, JoblistOrdered, Behind, sync, wait
  <2>3. RequestsKnown' /\ WakeupPending' /\ RequestIsForQueuedJob'
    BY <1>5 DEF SetSyncTime, RequestsKnown, WakeupPending,
                RequestIsForQueuedJob, sync, wait
  <2> QED
    BY <2>2, <2>3
<1> QED
  BY <1>1, <1>2, <1>3, <1>4, <1>5

LEMMA NextIInv == IInv /\ [Next]_vars => IInv'
<1> SUFFICES ASSUME IInv, [Next]_vars
             PROVE  IInv'
  OBVIOUS
<1>1. CASE Next
  BY <1>1, AddJobIInv, DelJobIInv, SchedNextIInv, ExternalIInv DEF Next
<1>2. CASE UNCHANGED vars
  BY <1>2 DEF vars, sync, free, wait, IInv, TypeOK, JoblistOrdered, Behind,
              RequestsKnown, WakeupPending, RequestIsForQueuedJob
<1> QED
  BY <1>1, <1>2
-----------------------------------------------------------------------------
(***************************************************************************)
(* The invariant holds in every reachable state.                           *)
(***************************************************************************)
THEOREM Invariance == Spec => []IInv
BY InitIInv, NextIInv, PTL DEF Spec

(***************************************************************************)
(* Every field of the scheduler keeps its type.                            *)
(***************************************************************************)
THEOREM TypeCorrect == Spec => []TypeOK
<1>1. IInv => TypeOK
  BY DEF IInv
<1> QED
  BY Invariance, <1>1, PTL

(***************************************************************************)
(* usfstl_sched_add_job() and usfstl_sched_del_job() keep the job list     *)
(* ordered and free of duplicates, for any number of jobs.                 *)
(***************************************************************************)
THEOREM OrderKept == Spec => []JoblistOrdered
<1>1. IInv => JoblistOrdered
  BY DEF IInv
<1> QED
  BY Invariance, <1>1, PTL

(***************************************************************************)
(* A waiting scheduler with a queued job always has a request outstanding  *)
(* that can be granted.                                                    *)
(***************************************************************************)
THEOREM NoLostWakeup == Spec => []WakeupPending
<1>1. IInv => WakeupPending
  BY DEF IInv
<1> QED
  BY Invariance, <1>1, PTL

(***************************************************************************)
(* The first job of an ordered list comes before all others in it.         *)
(***************************************************************************)
LEMMA HeadIsFirst ==
    ASSUME TypeOK, JoblistOrdered, joblist # <<>>
    PROVE  /\ Head(joblist) \in Job
           /\ Scheduled(Head(joblist))
           /\ \A k \in Job : Scheduled(k) => ~Behind(Head(joblist), k)
<1>1. joblist \in Seq(Job) /\ Len(joblist) \in Nat
  BY LenProperties DEF TypeOK
<1>2. Head(joblist) \in Job /\ Head(joblist) = joblist[1] /\ 1 \in 1..Len(joblist)
  BY <1>1
<1>3. ~Behind(joblist[1], joblist[1])
  BY <1>2, PriorityAssumption DEF TypeOK, Behind
<1>4. \A i \in 1..Len(joblist) : ~Behind(joblist[1], joblist[i])
  BY <1>1, <1>2, <1>3 DEF JoblistOrdered
<1> QED
  BY <1>2, <1>4 DEF Scheduled

(***************************************************************************)
(* usfstl_sched_next() calls the jobs in order and, unless a job was       *)
(* deleted during the wait, none before its time.                          *)
(***************************************************************************)
THEOREM CallsOrdered == Spec => CallsInOrder
<1>1. IInv /\ [Next]_vars => [CallOrder]_vars
  <2> SUFFICES ASSUME IInv, Next, NEW j \in Job, Calls(j)
               PROVE  /\ Scheduled(j)
                      /\ \A k \in Job : Scheduled(k) => ~Behind(j, k)
                      /\ start[j] <= current_time' \/ cancelled
    BY DEF CallOrder
  <2> USE DEF IInv
  <2>1. running' # running /\ running' \in Job
    BY DEF Calls
  <2>2. NextForwardFree \/ NextDue \/ GrantCall
    BY <2>1, JobAssumption
       DEF Next, SchedNext, AddJob, DelJob, NextWaitForJob, NextForwardWait,
           CallbackReturns, AttachExternal, GrantRetry, SetTime, SetSyncTime
  <2>3. joblist # <<>> /\ j = Head(joblist)
    BY <2>2 DEF NextForwardFree, NextDue, GrantCall, JobReached, Call, Calls
  <2>4. /\ Scheduled(j)
        /\ \A k \in Job : Scheduled(k) => ~Behind(j, k)
    BY <2>3, HeadIsFirst
  <2>5. CASE NextForwardFree \/ NextDue
    <3>1. start[j] \in Nat
      BY DEF TypeOK
    <3> QED
      BY <2>3, <2>4, <2>5, <3>1 DEF NextForwardFree, NextDue, TypeOK
  <2>6. CASE GrantCall
    <3> SUFFICES ASSUME ~cancelled
                 PROVE  start[j] <= current_time'
      BY <2>4
    <3>1. waiting /\ job = j /\ current_time' = prev_external_sync
      BY <2>3, <2>6 DEF GrantCall, GrantTime, JobReached, RequestsKnown
    <3>2. PICK i \in 1..Len(joblist) : start[joblist[i]] = prev_external_sync
      BY <3>1, JobAssumption DEF RequestIsForQueuedJob
    <3>3. joblist[i] \in Job /\ Scheduled(joblist[i])
      BY ElementOfSeq DEF TypeOK, Scheduled
    <3>4. ~Behind(j, joblist[i])
      BY <2>4, <3>3
    <3> QED
      BY <3>1, <3>2, <3>3, <3>4 DEF Behind, TypeOK
  <2> QED
    BY <2>2, <2>5, <2>6
<1> QED
  BY Invariance, <1>1, PTL DEF Spec, CallsInOrder

(***************************************************************************)
(* Inserting keeps the order of any two jobs, and puts the new job behind  *)
(* the jobs that do not have to run after it.                              *)
(***************************************************************************)
LEMMA InsertKeepsBefore ==
    ASSUME NEW list \in Seq(Job), NEW new, NEW j \in Job,
           NEW p \in 1..(Len(list) + 1), IsInsertion(Job, list, p, j, new)
    PROVE  /\ \A a, b \in Job : Before(list, a, b) => Before(new, a, b)
           /\ \A k \in 1..(p - 1) : Before(new, list[k], j)
           /\ \A k \in 1..Len(new) :
                 new[k] = j \/ \E i \in 1..Len(list) : new[k] = list[i]
<1> DEFINE n == Len(list)
<1>1. /\ n \in Nat
      /\ Len(new) = n + 1
      /\ \A k \in 1..(n + 1) :
            new[k] = IF k < p THEN list[k] ELSE IF k = p THEN j ELSE list[k - 1]
  BY LenProperties DEF IsInsertion
<1>2. ASSUME NEW a \in Job, NEW b \in Job, Before(list, a, b)
      PROVE  Before(new, a, b)
  <2>1. PICK i \in 1..n, k \in 1..n : i < k /\ list[i] = a /\ list[k] = b
    BY <1>2 DEF Before
  <2> DEFINE x == IF i < p THEN i ELSE i + 1
             y == IF k < p THEN k ELSE k + 1
  <2>2. x \in 1..(n + 1) /\ y \in 1..(n + 1) /\ x < y
    BY <2>1, <1>1
  <2>3. new[x] = list[i]
    <3>1. CASE i < p
      BY <3>1, <2>2, <1>1
    <3>2. CASE ~(i < p)
      <4>1. ~(i + 1 < p) /\ i + 1 # p /\ (i + 1) - 1 = i
        BY <3>2, <1>1
      <4> QED
        BY <3>2, <4>1, <2>2, <1>1
    <3> QED
      BY <3>1, <3>2
  <2>4. new[y] = list[k]
    <3>1. CASE k < p
      BY <3>1, <2>2, <1>1
    <3>2. CASE ~(k < p)
      <4>1. ~(k + 1 < p) /\ k + 1 # p /\ (k + 1) - 1 = k
        BY <3>2, <1>1
      <4> QED
        BY <3>2, <4>1, <2>2, <1>1
    <3> QED
      BY <3>1, <3>2
  <2> HIDE DEF x, y
  <2> QED
    BY <2>1, <2>2, <2>3, <2>4, <1>1 DEF Before
<1>3. ASSUME NEW k \in 1..(p - 1)
      PROVE  Before(new, list[k], j)
  <2>1. k \in 1..(n + 1) /\ p \in 1..(n + 1) /\ k < p
    BY <1>1
  <2>2. new[k] = list[k] /\ new[p] = j
    BY <2>1, <1>1
  <2> QED
    BY <2>1, <2>2, <1>1 DEF Before
<1>4. ASSUME NEW k \in 1..Len(new), new[k] # j
      PROVE  \E i \in 1..n : new[k] = list[i]
  <2> DEFINE x == IF k < p THEN k ELSE k - 1
  <2>1. k # p
    BY <1>1, <1>4
  <2>2. x \in 1..n /\ new[k] = list[x]
    BY <2>1, <1>1
  <2> QED
    BY <2>2
<1> QED
  BY <1>2, <1>3, <1>4

(***************************************************************************)
(* What is left after a removal was in the list before, in that order.     *)
(***************************************************************************)
LEMMA RemovalKeepsBefore ==
    ASSUME NEW list \in Seq(Job), NEW new,
           NEW p \in 1..Len(list), IsRemoval(Job, list, p, new)
    PROVE  /\ \A a, b \in Job : Before(new, a, b) => Before(list, a, b)
           /\ \A k \in 1..Len(new) : \E i \in 1..Len(list) : new[k] = list[i]
<1> DEFINE n == Len(list)
<1>1. /\ n \in Nat
      /\ Len(new) = n - 1
      /\ \A k \in 1..(n - 1) :
            new[k] = IF k < p THEN list[k] ELSE list[k + 1]
  BY LenProperties DEF IsRemoval
<1>2. ASSUME NEW a \in Job, NEW b \in Job, Before(new, a, b)
      PROVE  Before(list, a, b)
  <2>1. PICK i \in 1..(n - 1), k \in 1..(n - 1) :
           i < k /\ new[i] = a /\ new[k] = b
    BY <1>1, <1>2 DEF Before
  <2> DEFINE x == IF i < p THEN i ELSE i + 1
             y == IF k < p THEN k ELSE k + 1
  <2>2. x \in 1..n /\ y \in 1..n /\ x < y
    BY <2>1, <1>1
  <2>3. new[i] = list[x] /\ new[k] = list[y]
    BY <2>1, <2>2, <1>1
  <2> QED
    BY <2>1, <2>2, <2>3 DEF Before
<1>3. ASSUME NEW k \in 1..Len(new)
      PROVE  \E i \in 1..n : new[k] = list[i]
  <2> DEFINE x == IF k < p THEN k ELSE k + 1
  <2>1. x \in 1..n /\ new[k] = list[x]
    BY <1>1
  <2> QED
    BY <2>1
<1> QED
  BY <1>2, <1>3

(***************************************************************************)
(* In a list without duplicates no two jobs stand both before and after    *)
(* each other.                                                             *)
(***************************************************************************)
LEMMA BeforeAsymmetric ==
    ASSUME NEW list \in Seq(Job),
           \A i, k \in 1..Len(list) : i < k => list[i] # list[k]
    PROVE  \A a, b \in Job : ~(Before(list, a, b) /\ Before(list, b, a))
<1> SUFFICES ASSUME NEW a \in Job, NEW b \in Job,
                    Before(list, a, b), Before(list, b, a)
             PROVE  FALSE
  OBVIOUS
<1>1. Len(list) \in Nat
  BY LenProperties
<1>2. PICK i \in 1..Len(list), k \in 1..Len(list) :
         i < k /\ list[i] = a /\ list[k] = b
  BY DEF Before
<1>3. PICK x \in 1..Len(list), y \in 1..Len(list) :
         x < y /\ list[x] = b /\ list[y] = a
  BY DEF Before
<1>4. \A u, v \in 1..Len(list) : list[u] = list[v] => u = v
  BY <1>1
<1> QED
  BY <1>1, <1>2, <1>3, <1>4

(***************************************************************************)
(* Jobs of equal start time and priority stay first in, first out: a list  *)
(* operation never swaps two jobs, and usfstl_sched_add_job() inserts      *)
(* behind the equals of the new job.                                       *)
(***************************************************************************)
THEOREM EqualsFirstInFirstOut == Spec => FifoAmongEquals
<1> DEFINE Fifo(a, b) ==
      /\ Before(joblist, a, b) => ~Before(joblist', b, a)
      /\ (/\ Scheduled(a) /\ ~Scheduled(b)
          /\ Scheduled(a)' /\ Scheduled(b)'
          /\ start'[a] = start'[b] /\ Priority[a] = Priority[b])
            => Before(joblist', a, b)
<1>1. IInv /\ IInv' /\ [Next]_vars => [\A a, b \in Job : Fifo(a, b)]_vars
  <2> SUFFICES ASSUME IInv, IInv', Next, NEW a \in Job, NEW b \in Job
               PROVE  Fifo(a, b)
    OBVIOUS
  <2> USE DEF IInv
  <2>1. /\ joblist \in Seq(Job) /\ Len(joblist) \in Nat
        /\ joblist' \in Seq(Job)
    BY LenProperties DEF TypeOK
  <2>2. ~(Before(joblist, a, b) /\ Before(joblist, b, a))
    BY <2>1, BeforeAsymmetric DEF JoblistOrdered
  <2>3. ~(Before(joblist', a, b) /\ Before(joblist', b, a))
    <3>1. \A i, k \in 1..Len(joblist') : i < k => joblist'[i] # joblist'[k]
      BY DEF JoblistOrdered
    <3> QED
      BY <2>1, <3>1, BeforeAsymmetric
  <2>4. ASSUME NEW j \in Job, NEW t \in Time, AddJob(j, t)
        PROVE  Fifo(a, b)
    <3>1. t \in Nat
      BY BoundAssumption DEF Time
    <3>2. PICK p \in 1..(Len(joblist) + 1) :
             /\ IsInsertion(Job, joblist, p, j, joblist')
             /\ \A k \in p..Len(joblist) :
                   RunsAfter(joblist[k], start, t, Priority[j])
      BY <2>4, <3>1, InsertSplits DEF AddJob
    <3>3. /\ \A x, y \in Job : Before(joblist, x, y) => Before(joblist', x, y)
          /\ \A k \in 1..(p - 1) : Before(joblist', joblist[k], j)
          /\ \A k \in 1..Len(joblist') :
                joblist'[k] = j \/ \E i \in 1..Len(joblist) :
                                     joblist'[k] = joblist[i]
      BY <2>1, <3>2, InsertKeepsBefore
    <3>4. Before(joblist, a, b) => ~Before(joblist', b, a)
      BY <2>3, <3>3
    <3>5. ASSUME Scheduled(a), ~Scheduled(b), Scheduled(b)',
                 start'[a] = start'[b], Priority[a] = Priority[b]
          PROVE  Before(joblist', a, b)
      <4>1. b = j
        BY <3>3, <3>5 DEF Scheduled
      <4>2. PICK i \in 1..Len(joblist) : joblist[i] = a
        BY <3>5 DEF Scheduled
      <4>3. a # b
        BY <3>5
      <4>4. start'[b] = t /\ start'[a] = start[a] /\ start[a] \in Nat
        BY <2>4, <4>1, <4>3 DEF AddJob, TypeOK
      <4>5. ~RunsAfter(a, start, t, Priority[j])
        BY <3>1, <3>5, <4>1, <4>4, PriorityAssumption DEF RunsAfter
      <4>6. i \in 1..(p - 1)
        BY <2>1, <3>2, <4>2, <4>5
      <4> QED
        BY <3>3, <4>1, <4>2, <4>6
    <3> QED
      BY <3>4, <3>5
  <2>5. ASSUME NEW p \in 1..Len(joblist), IsRemoval(Job, joblist, p, joblist')
        PROVE  Fifo(a, b)
    <3>1. /\ \A x, y \in Job : Before(joblist', x, y) => Before(joblist, x, y)
          /\ \A k \in 1..Len(joblist') : \E i \in 1..Len(joblist) :
                joblist'[k] = joblist[i]
      BY <2>1, <2>5, RemovalKeepsBefore
    <3> QED
      BY <3>1, <2>2 DEF Scheduled
  <2>6. ASSUME NEW j \in Job, DelJob(j)
        PROVE  Fifo(a, b)
    <3>1. PosOf(joblist, j) \in 1..Len(joblist)
      BY <2>6 DEF DelJob, Scheduled, PosOf
    <3>2. IsRemoval(Job, joblist, PosOf(joblist, j), joblist')
      BY <2>1, <2>6, <3>1, RemoveAtProperties DEF DelJob, RemoveJob
    <3> QED
      BY <2>5, <3>1, <3>2
  <2>7. CASE NextForwardFree \/ NextDue \/ GrantCall
    <3>1. joblist # <<>> /\ joblist' = Tail(joblist)
      BY <2>7 DEF NextForwardFree, NextDue, GrantCall, JobReached, Call
    <3>2. /\ joblist' \in Seq(Job)
          /\ Len(joblist') = Len(joblist) - 1
          /\ \A i \in 1..Len(joblist') : joblist'[i] = joblist[i + 1]
      BY <2>1, <3>1, HeadTailProperties
    <3>3. 1 \in 1..Len(joblist) /\ IsRemoval(Job, joblist, 1, joblist')
      BY <2>1, <3>1, <3>2 DEF IsRemoval
    <3> QED
      BY <2>5, <3>3
  <2>8. CASE joblist' = joblist
    BY <2>8, <2>2 DEF Scheduled
  <2> HIDE DEF Fifo
  <2> QED
    BY <2>4, <2>6, <2>7, <2>8
       DEF Next, SchedNext, NextWaitForJob, NextForwardWait, CallbackReturns,
           AttachExternal, GrantRetry, SetTime, SetSyncTime
<1>2. [][\A a, b \in Job : Fifo(a, b)]_vars => FifoAmongEquals
  BY DEF FifoAmongEquals
<1> HIDE DEF Fifo
<1> QED
  BY Invariance, <1>1, <1>2, PTL DEF Spec
-----------------------------------------------------------------------------
(* The scheduler driven by the wall clock.                                 *)

(***************************************************************************)
(* What is known of the timer: it is armed for the request that has not    *)
(* been granted yet, until its handler has run in this wait; and when it   *)
(* has run, the real time has got to that request.  The request itself is  *)
(* not in the past while the scheduler waits, because a usfstl_sched_next()*)
(* that goes around without a job has no request left over.                *)
(***************************************************************************)
TimerInv ==
    /\ armed = IF waiting /\ triggered THEN None ELSE ext_request
    /\ waiting /\ triggered => ext_request # None /\ ext_request <= now
    /\ waiting /\ ext_request # None => current_time <= ext_request
    /\ loop = "next" => running = NoJob /\ (waiting \/ ext_request = None)
    /\ waiting => running = NoJob /\ loop # "handler"

(***************************************************************************)
(* The daemon without a time socket never lets the scheduler run freely,   *)
(* and without in-band kicks no handler waits.                             *)
(***************************************************************************)
PlainInv ==
    /\ ~next_external_sync_set
    /\ ~nested
    /\ start \in [Job -> Time]

(***************************************************************************)
(* The inductive invariant.                                                *)
(***************************************************************************)
WInv ==
    /\ IInv
    /\ WTypeOK
    /\ NotAheadOfClock
    /\ TimerInv
    /\ PlainInv

(***************************************************************************)
(* The periodic job is never so late that its next start has passed.       *)
(***************************************************************************)
PeriodicInv ==
    /\ Scheduled(Periodic) \/ running = Periodic
         => current_time <= start[Periodic] + Period
    /\ waiting /\ Scheduled(Periodic) =>
         /\ current_time <= start[Periodic]
         /\ ext_request <= start[Periodic] + Period
-----------------------------------------------------------------------------
(* Every step of the daemon is one of the scheduler.                       *)

(***************************************************************************)
(* The bounds on the times leave room for the first period, the real time  *)
(* and their sum.                                                          *)
(***************************************************************************)
LEMMA Bounds ==
    /\ MaxTime \in Nat /\ MaxNow \in Nat /\ Period \in Nat /\ Horizon \in Nat
    /\ Period \in Time
    /\ Time \subseteq Nat
    /\ \A t \in 0..MaxNow : t \in Time
BY PeriodicAssumption, ClockAssumption, BoundAssumption DEF Time

(***************************************************************************)
(* The end of usfstl_sched_wallclock_wait() grants the request that is     *)
(* outstanding, and never fails.                                           *)
(***************************************************************************)
LEMMA WaitEndsGrants ==
    ASSUME WInv, WaitEnds
    PROVE  /\ waiting /\ ~waiting'
           /\ GrantCall \/ GrantRetry
           /\ current_time' = ext_request /\ ext_request' = None
           /\ loop' = IF JobReached THEN "main" ELSE "next"
           /\ UNCHANGED <<start, free, clock_vars, nested, aborted>>
<1>1. /\ waiting /\ triggered
      /\ ext_request # None /\ ext_request <= now
      /\ current_time <= ext_request /\ ext_request = prev_external_sync
  BY DEF WaitEnds, WInv, TimerInv, IInv, RequestsKnown
<1>2. prev_external_sync \in Nat /\ current_time \in Nat
  BY DEF WInv, IInv, TypeOK
<1>3. ~(WaitTime < current_time)
  BY <1>1, <1>2 DEF WaitTime
<1>4. /\ current_time' = ext_request
      /\ waiting' = FALSE
      /\ job' = NoJob
      /\ ext_request' = None
      /\ IF JobReached THEN Call(job) ELSE UNCHANGED <<joblist, running>>
      /\ loop' = IF JobReached THEN "main" ELSE "next"
      /\ UNCHANGED <<start, prev_external_sync, prev_external_sync_set,
                     free, attached, adds, cancelled, clock_vars, nested,
                     aborted>>
  BY <1>1, <1>3 DEF WaitEnds, WaitTime
<1>5. GrantTime
  BY <1>1, <1>2, <1>4 DEF GrantTime
<1>6. GrantCall \/ GrantRetry
  BY <1>4, <1>5 DEF GrantCall, GrantRetry
<1> QED
  BY <1>1, <1>4, <1>6

(***************************************************************************)
(* The pre-handler of the event loop sets the scheduler's time to the real *)
(* time, and never fails when there is no job.                             *)
(***************************************************************************)
LEMMA WaitAndHandleSyncs ==
    ASSUME WInv, WaitAndHandle
    PROVE  /\ UNCHANGED vars \/ SetTime(now)
           /\ current_time' = current_time \/ current_time' = now
           /\ loop = "main" /\ loop' = "handler"
           /\ UNCHANGED <<clock_vars, nested, aborted>>
<1>1. now \in Nat /\ current_time \in Nat /\ current_time <= now
  BY Bounds DEF WInv, WTypeOK, IInv, TypeOK, NotAheadOfClock
<1>2. CASE ~initialized
  BY <1>2 DEF WaitAndHandle, vars
<1>3. CASE initialized
  <2>1. SyncReal /\ joblist = <<>> /\ loop = "main"
    BY <1>3 DEF WaitAndHandle
  <2>2. /\ IF now = current_time THEN UNCHANGED vars ELSE SetTime(now)
        /\ UNCHANGED <<clock_vars, nested, aborted>>
        /\ loop' = "handler"
    BY <2>1, <1>1 DEF SyncReal
  <2> QED
    BY <2>1, <2>2 DEF SetTime, vars
<1> QED
  BY <1>2, <1>3

(***************************************************************************)
(* Under the invariant a step of the daemon is a step of the scheduler, or *)
(* one that the scheduler does not see.                                    *)
(***************************************************************************)
LEMMA StepRefines ==
    ASSUME WInv, [WNext]_wvars
    PROVE  [Next]_vars
<1>1. CASE UNCHANGED wvars
  BY <1>1 DEF wvars
<1>2. CASE PeriodicStarts
  BY <1>2, PeriodicAssumption, Bounds DEF PeriodicStarts, Next
<1>3. CASE \E j \in Frame, t \in Time : FrameArrives(j, t)
  BY <1>3 DEF FrameArrives, Frame, Next
<1>4. CASE \E j \in Frame : FrameDeleted(j)
  BY <1>4 DEF FrameDeleted, Frame, Next
<1>5. CASE WaitAndHandle
  <2>1. now \in Time
    BY Bounds DEF WInv, WTypeOK
  <2> QED
    BY <1>5, <2>1, WaitAndHandleSyncs DEF Next
<1>6. CASE Tick
  BY <1>6 DEF Tick
<1>7. CASE PeriodicAgain
  BY <1>7, PeriodicAssumption DEF PeriodicAgain, Abort, Next
<1>8. CASE WCallbackReturns
  BY <1>8 DEF WCallbackReturns, Next
<1>9. CASE ClockInit
  BY <1>9 DEF ClockInit, Next
<1>10. CASE HandlerReturns \/ HandleFd
  BY <1>10 DEF HandlerReturns, HandleFd
<1>11. CASE WNextWaitForJob \/ WNextForwardWait \/ WNextDue
  BY <1>11 DEF WNextWaitForJob, WNextForwardWait, WNextDue, Next, SchedNext
<1>12. CASE WaitEnds
  BY <1>12, WaitEndsGrants DEF Next
<1> QED
  BY <1>1, <1>2, <1>3, <1>4, <1>5, <1>6, <1>7, <1>8, <1>9, <1>10, <1>11, <1>12
     DEF WNext, DaemonStep
-----------------------------------------------------------------------------
(* The invariant of the timer.                                             *)

(***************************************************************************)
(* A job that is added asks for its time, and the timer is armed for what  *)
(* is asked for: both remain the same otherwise.  A wait whose timer has   *)
(* been handled is over before any other code adds a job.                  *)
(***************************************************************************)
LEMMA AddKeepsTimer ==
    ASSUME WInv, NEW j \in Job, NEW t \in Time, AddJob(j, t),
           attached => Requests(t), ~attached => UNCHANGED <<armed, initialized>>,
           waiting => ~triggered, loop # "next" \/ waiting \/ ~attached,
           UNCHANGED <<now, triggered, loop_vars>>
    PROVE  WInv'
<1>1. IInv'
  BY AddJobIInv DEF WInv
<1>2. t \in Nat /\ t >= current_time /\ t # None
  BY Bounds DEF AddJob, None
<1>3. UNCHANGED <<current_time, waiting, running, attached, free, loop, nested,
                  aborted, now, triggered>>
  BY DEF AddJob, wait, loop_vars
<1>4. ~attached => ext_request' = ext_request /\ armed' = armed
  BY DEF AddJob, ExternalRequest, NeedsGrant, sync
<1>5. CASE attached /\ ~AskedAlready(t)
  <2>1. ext_request' = t /\ armed' = t /\ initialized' = TRUE
    BY <1>5 DEF AddJob, ExternalRequest, NeedsGrant, Requests, ArmTimer,
                WInv, PlainInv
  <2>2. WTypeOK'
    BY <1>1, <1>3, <2>1 DEF IInv, WInv, WTypeOK
  <2>3. TimerInv'
    BY <1>2, <1>3, <1>5, <2>1 DEF WInv, TimerInv
  <2>4. PlainInv' /\ NotAheadOfClock'
    BY <1>3 DEF WInv, PlainInv, AddJob, NotAheadOfClock, free
  <2> QED
    BY <1>1, <2>2, <2>3, <2>4 DEF WInv
<1>6. CASE ~attached \/ AskedAlready(t)
  <2>1. ext_request' = ext_request /\ armed' = armed /\ initialized' = initialized
    BY <1>4, <1>6 DEF AddJob, ExternalRequest, Requests, sync
  <2>2. WTypeOK'
    BY <1>1, <1>3, <2>1 DEF IInv, WInv, WTypeOK
  <2>3. TimerInv'
    BY <1>3, <2>1 DEF WInv, TimerInv
  <2>4. PlainInv' /\ NotAheadOfClock'
    BY <1>3 DEF WInv, PlainInv, AddJob, NotAheadOfClock, free
  <2> QED
    BY <1>1, <2>2, <2>3, <2>4 DEF WInv
<1> QED
  BY <1>5, <1>6

LEMMA InitWInv == WInit => WInv
<1> SUFFICES ASSUME WInit
             PROVE  WInv
  OBVIOUS
<1>1. IInv
  BY InitIInv DEF WInit
<1>2. WTypeOK
  <2>1. now \in 0..MaxNow
    BY ClockAssumption DEF WInit
  <2> QED
    BY <1>1, <2>1 DEF WInit, WTypeOK, IInv
<1>3. PlainInv
  BY BoundAssumption DEF WInit, Init, PlainInv, Time
<1>4. NotAheadOfClock /\ TimerInv
  BY DEF WInit, Init, NotAheadOfClock, TimerInv
<1> QED
  BY <1>1, <1>2, <1>3, <1>4 DEF WInv

LEMMA NextWInv == WInv /\ [WNext]_wvars => WInv'
<1> SUFFICES ASSUME WInv, [WNext]_wvars
             PROVE  WInv'
  OBVIOUS
<1> USE DEF WInv
<1>0. [Next]_vars
  BY StepRefines
<1>1. IInv' /\ TypeOK' /\ TypeOK
  BY <1>0, NextIInv DEF IInv
<1>2. CASE UNCHANGED wvars
  BY <1>1, <1>2 DEF wvars, vars, clock_vars, loop_vars, free, wait, sync,
                    WTypeOK, NotAheadOfClock, TimerInv, PlainInv
<1>3. CASE PeriodicStarts
  BY <1>3, AddKeepsTimer, PeriodicAssumption, Bounds
     DEF PeriodicStarts, clock_vars, IInv, RequestsKnown
<1>4. ASSUME NEW j \in Frame, NEW t \in Time, FrameArrives(j, t)
      PROVE  WInv'
  <2>1. waiting => ~triggered
    BY <1>4 DEF FrameArrives, Handling, TimerInv, PlainInv
  <2>2. loop # "next" \/ waiting
    BY <1>4 DEF FrameArrives, Handling, TimerInv
  <2>3. AddJob(j, t) /\ Requests(t) /\ UNCHANGED <<now, triggered, loop_vars>>
    BY <1>4 DEF FrameArrives
  <2>4. ~attached => UNCHANGED <<armed, initialized>>
    BY <2>3 DEF Requests, NeedsGrant
  <2> QED
    BY <2>1, <2>2, <2>3, <2>4, AddKeepsTimer DEF Frame
<1>5. CASE PeriodicAgain /\ ~(NextStart < current_time)
  <2>1. /\ running = Periodic /\ running # NoJob
        /\ AddJob(Periodic, NextStart) /\ Requests(NextStart)
        /\ NextStart \in Time /\ UNCHANGED <<now, triggered, loop_vars>>
    BY <1>5, PeriodicAssumption, JobAssumption DEF PeriodicAgain
  <2>2. ~attached => UNCHANGED <<armed, initialized>>
    BY <2>1 DEF Requests, NeedsGrant
  <2>3. ~waiting /\ loop # "next"
    BY <2>1 DEF TimerInv
  <2> QED
    BY <2>1, <2>2, <2>3, AddKeepsTimer, PeriodicAssumption
<1>6. CASE PeriodicAgain /\ NextStart < current_time
  <2>1. aborted' = TRUE /\ UNCHANGED <<vars, clock_vars, loop, nested>>
    BY <1>6 DEF PeriodicAgain, Abort
  <2> QED
    BY <1>1, <2>1 DEF vars, clock_vars, free, wait, sync,
                      WTypeOK, NotAheadOfClock, TimerInv, PlainInv
<1>7. CASE \E j \in Frame : FrameDeleted(j)
  BY <1>1, <1>7 DEF FrameDeleted, DelJob, clock_vars, loop_vars, free, sync,
                    WTypeOK, NotAheadOfClock, TimerInv, PlainInv
<1>8. CASE WaitAndHandle
  <2>1. /\ UNCHANGED vars \/ SetTime(now)
        /\ current_time' = current_time \/ current_time' = now
        /\ loop = "main" /\ loop' = "handler"
        /\ UNCHANGED <<clock_vars, nested, aborted>>
    BY <1>8, WaitAndHandleSyncs
  <2>2. ~waiting /\ UNCHANGED <<start, sync, free, wait, running>>
    BY <1>8, <2>1 DEF WaitAndHandle, Idle, SetTime, vars
  <2>3. now \in Nat
    BY Bounds DEF WTypeOK
  <2>4. NotAheadOfClock'
    BY <2>1, <2>3 DEF NotAheadOfClock, clock_vars
  <2> QED
    BY <1>1, <2>1, <2>2, <2>4 DEF clock_vars, wait, sync, free,
                                  WTypeOK, TimerInv, PlainInv
<1>9. CASE Tick
  <2>1. now \in Nat /\ now' = now + 1 /\ now' \in 0..MaxNow
    BY <1>9, Bounds DEF Tick, WTypeOK
  <2>2. UNCHANGED <<vars, initialized, armed, triggered, loop_vars>>
    BY <1>9 DEF Tick
  <2>3. current_time \in Nat /\ ext_request \in Nat \cup {None}
    BY <1>1 DEF TypeOK
  <2>4. NotAheadOfClock'
    BY <2>1, <2>2, <2>3 DEF NotAheadOfClock, vars
  <2>5. TimerInv'
    BY <2>1, <2>2, <2>3 DEF TimerInv, vars, loop_vars, wait, sync
  <2> QED
    BY <1>1, <2>1, <2>2, <2>4, <2>5 DEF vars, loop_vars, free, WTypeOK, PlainInv
<1>10. CASE WCallbackReturns
  BY <1>1, <1>10 DEF WCallbackReturns, CallbackReturns, clock_vars, loop_vars,
                     free, wait, sync, WTypeOK, NotAheadOfClock, TimerInv,
                     PlainInv
<1>11. CASE ClockInit
  BY <1>1, <1>11 DEF ClockInit, AttachExternal, clock_vars, loop_vars, free,
                     wait, sync, WTypeOK, NotAheadOfClock, TimerInv, PlainInv
<1>12. CASE HandlerReturns
  BY <1>1, <1>12 DEF HandlerReturns, vars, clock_vars, free, wait, sync,
                     WTypeOK, NotAheadOfClock, TimerInv, PlainInv
<1>13. CASE WNextWaitForJob
  <2>1. /\ Idle /\ waiting' = TRUE /\ triggered' = FALSE
        /\ InNext /\ joblist = <<>>
        /\ UNCHANGED <<start, current_time, ext_request, free, running>>
        /\ UNCHANGED <<now, initialized, armed, loop_vars>>
    BY <1>13 DEF WNextWaitForJob, NextWaitForJob
  <2>2. ext_request = None /\ armed = None /\ running = NoJob
    BY <2>1 DEF InNext, Idle, TimerInv
  <2>3. TimerInv'
    BY <2>1, <2>2 DEF TimerInv, InNext, loop_vars
  <2> QED
    BY <1>1, <2>1, <2>3 DEF loop_vars, free, WTypeOK, NotAheadOfClock, PlainInv
<1>14. CASE WNextForwardWait
  <2> DEFINE t == start[Head(joblist)]
  <2>1. /\ Idle /\ waiting' = TRUE /\ triggered' = FALSE
        /\ NeedsGrant(t) /\ joblist # <<>> /\ t > current_time
        /\ RequestAndWait(t, Head(joblist)) /\ Requests(t)
        /\ InNext
        /\ UNCHANGED <<start, current_time, free, running>>
        /\ UNCHANGED <<now, loop_vars>>
    BY <1>14 DEF WNextForwardWait, NextForwardWait, RequestAndWait
  <2>2. Head(joblist) \in Job /\ t \in Time /\ t \in Nat /\ t # None
    BY <1>1, <2>1, Bounds DEF TypeOK, PlainInv, None
  <2>3. armed = ext_request /\ running = NoJob
    BY <2>1 DEF Idle, TimerInv
  <2>4. ext_request' = t /\ armed' = t /\ initialized' \in BOOLEAN
    <3>1. CASE AskedAlready(t)
      <4>1. ext_request = t
        BY <2>1, <3>1 DEF AskedAlready, IInv, RequestsKnown
      <4> QED
        BY <2>1, <2>3, <3>1, <4>1 DEF RequestAndWait, Requests, WTypeOK
    <3>2. CASE ~AskedAlready(t)
      BY <2>1, <3>2 DEF RequestAndWait, Requests, ArmTimer
    <3> QED
      BY <3>1, <3>2
  <2> HIDE DEF t
  <2>5. current_time \in Nat /\ current_time <= t
    BY <1>1, <2>1, <2>2 DEF TypeOK
  <2>6. TimerInv'
    BY <2>1, <2>3, <2>4, <2>5 DEF TimerInv, InNext, loop_vars
  <2> QED
    BY <1>1, <2>1, <2>2, <2>4, <2>6
       DEF loop_vars, free, WTypeOK, NotAheadOfClock, PlainInv
<1>15. CASE WNextDue
  <2>1. /\ Idle /\ loop' = "main"
        /\ UNCHANGED <<clock_vars, nested, aborted>>
        /\ UNCHANGED <<start, current_time, sync, free, wait>>
    BY <1>15 DEF WNextDue, NextDue
  <2> QED
    BY <1>1, <2>1 DEF Idle, clock_vars, free, wait, sync, WTypeOK,
                      NotAheadOfClock, TimerInv, PlainInv
<1>16. CASE HandleFd
  <2>1. /\ waiting /\ ~triggered /\ armed # None /\ now >= armed
        /\ triggered' = TRUE /\ armed' = None
        /\ UNCHANGED <<vars, now, initialized, loop_vars>>
    BY <1>16 DEF HandleFd, PlainInv
  <2>2. armed = ext_request /\ ext_request \in Nat /\ now \in Nat
    BY <1>1, <2>1, Bounds DEF TimerInv, TypeOK, WTypeOK
  <2>3. TimerInv'
    BY <2>1, <2>2 DEF TimerInv, vars, wait, sync, loop_vars
  <2> QED
    BY <1>1, <2>1, <2>3 DEF vars, free, loop_vars, WTypeOK, NotAheadOfClock,
                            PlainInv
<1>17. CASE WaitEnds
  <2>1. /\ waiting /\ ~waiting' /\ running = NoJob
        /\ GrantCall \/ GrantRetry
        /\ current_time' = ext_request /\ ext_request' = None
        /\ loop' = IF JobReached THEN "main" ELSE "next"
        /\ UNCHANGED <<start, free, clock_vars, nested, aborted>>
    BY <1>17, WaitEndsGrants DEF TimerInv
  <2>2. triggered /\ armed = None /\ ext_request <= now
    BY <1>17, <2>1 DEF WaitEnds, TimerInv
  <2>3. NotAheadOfClock'
    BY <2>1, <2>2 DEF NotAheadOfClock, clock_vars
  <2>4. loop' = "next" => running' = running
    BY <2>1 DEF GrantCall, GrantRetry
  <2>5. TimerInv'
    BY <2>1, <2>2, <2>4 DEF TimerInv, clock_vars
  <2> QED
    BY <1>1, <2>1, <2>3, <2>5 DEF free, clock_vars, WTypeOK, PlainInv
<1> QED
  BY <1>2, <1>3, <1>4, <1>5, <1>6, <1>7, <1>8, <1>9, <1>10, <1>11, <1>12,
     <1>13, <1>14, <1>15, <1>16, <1>17 DEF WNext, DaemonStep

(***************************************************************************)
(* The invariant of the daemon that is driven by the wall clock.           *)
(***************************************************************************)
THEOREM WInvariance == WSpec => []WInv
BY InitWInv, NextWInv, PTL DEF WSpec

(***************************************************************************)
(* While frames come and go during a wait, the scheduler's time stays      *)
(* behind the real time, and the timer covers what the scheduler waits     *)
(* for, although every request replaces the one before it.                 *)
(***************************************************************************)
THEOREM ClockKept == WSpec => []ClockInv
<1>1. WInv => ClockInv
  <2> SUFFICES ASSUME WInv, waiting, joblist # <<>>, ~triggered
               PROVE  armed # None
    BY DEF WInv, ClockInv, TimerCoversWait
  <2>1. ext_request >= current_time /\ current_time \in Nat
    BY DEF WInv, IInv, WakeupPending, TypeOK
  <2>2. armed = ext_request
    BY DEF WInv, TimerInv
  <2> QED
    BY <2>1, <2>2 DEF None
<1> QED
  BY <1>1, WInvariance, PTL

(***************************************************************************)
(* The wall clock is an external scheduler as module Sched describes it:   *)
(* every step of the daemon is a step of the scheduler or is not seen by   *)
(* it, and a wait ends at the time that was requested last.                *)
(***************************************************************************)
THEOREM Refinement == WSpec => ImplementsSched
<1>1. WInit => Init
  BY DEF WInit
<1>2. WInv /\ [WNext]_wvars => [Next]_vars
  BY StepRefines
<1> QED
  BY <1>1, <1>2, WInvariance, PTL DEF WSpec, Spec, ImplementsSched
-----------------------------------------------------------------------------
(* The periodic job.                                                       *)

(***************************************************************************)
(* Adding a job schedules no other.                                        *)
(***************************************************************************)
LEMMA InsertedAreScheduled ==
    ASSUME IInv, NEW j \in Job, NEW t \in Time, AddJob(j, t)
    PROVE  \A k \in Job \ {j} : Scheduled(k)' => Scheduled(k)
<1>1. TypeOK /\ JoblistOrdered /\ t \in Nat /\ joblist \in Seq(Job)
  BY Bounds DEF IInv, TypeOK
<1>2. PICK p \in 1..(Len(joblist) + 1) :
         IsInsertion(Job, joblist, p, j, joblist')
  BY <1>1, InsertSplits DEF AddJob
<1>3. \A k \in 1..Len(joblist') :
         joblist'[k] = j \/ \E i \in 1..Len(joblist) : joblist'[k] = joblist[i]
  BY <1>1, <1>2, InsertKeepsBefore
<1> QED
  BY <1>3 DEF Scheduled

(***************************************************************************)
(* Deleting a job schedules none.                                          *)
(***************************************************************************)
LEMMA RemovedAreScheduled ==
    ASSUME IInv, NEW p \in 1..Len(joblist), joblist' = RemoveAt(joblist, p)
    PROVE  \A k \in Job : Scheduled(k)' => Scheduled(k)
<1>1. joblist \in Seq(Job)
  BY DEF IInv, TypeOK
<1>2. IsRemoval(Job, joblist, p, joblist')
  BY <1>1, RemoveAtProperties
<1>3. /\ Len(joblist) \in Nat /\ Len(joblist') = Len(joblist) - 1
      /\ \A k \in 1..(Len(joblist) - 1) :
            joblist'[k] = IF k < p THEN joblist[k] ELSE joblist[k + 1]
  BY <1>1, <1>2, LenProperties DEF IsRemoval
<1>4. ASSUME NEW k \in 1..Len(joblist')
      PROVE  \E i \in 1..Len(joblist) : joblist'[k] = joblist[i]
  <2> DEFINE x == IF k < p THEN k ELSE k + 1
  <2>1. x \in 1..Len(joblist) /\ joblist'[k] = joblist[x]
    BY <1>3
  <2> QED
    BY <2>1
<1> QED
  BY <1>4 DEF Scheduled

(***************************************************************************)
(* The job that is called was scheduled, and so is what remains.           *)
(***************************************************************************)
LEMMA TailIsScheduled ==
    ASSUME IInv, joblist # <<>>, joblist' = Tail(joblist)
    PROVE  /\ \A k \in Job : Scheduled(k)' => Scheduled(k)
           /\ Scheduled(Head(joblist))
<1>1. joblist \in Seq(Job) /\ Len(joblist) \in Nat
  BY LenProperties DEF IInv, TypeOK
<1>2. /\ Len(joblist') = Len(joblist) - 1
      /\ \A i \in 1..Len(joblist') : joblist'[i] = joblist[i + 1]
  BY <1>1, HeadTailProperties
<1>3. ASSUME NEW i \in 1..Len(joblist')
      PROVE  i + 1 \in 1..Len(joblist) /\ joblist'[i] = joblist[i + 1]
  BY <1>1, <1>2
<1>4. 1 \in 1..Len(joblist) /\ Head(joblist) = joblist[1]
  BY <1>1
<1> QED
  BY <1>3, <1>4 DEF Scheduled

(***************************************************************************)
(* If the airtime of a frame ends within one period, every step keeps the  *)
(* periodic job in time, and none fails an assertion.                      *)
(***************************************************************************)
LEMMA NextPeriodicInv ==
    ASSUME Horizon <= Period
    PROVE  /\ WInv /\ WInv' /\ PeriodicInv /\ [WNext]_wvars => PeriodicInv'
           /\ WInv /\ PeriodicInv /\ NoAbort /\ [WNext]_wvars => NoAbort'
<1> DEFINE s == start[Periodic]
<1>1. ASSUME WInv, WInv', PeriodicInv, [WNext]_wvars
      PROVE  PeriodicInv'
  <2>1. /\ s \in Nat /\ current_time \in Nat /\ ext_request \in Nat \cup {None}
        /\ Period \in Nat /\ Horizon \in Nat /\ Periodic \in Job
    BY <1>1, PeriodicAssumption, ClockAssumption DEF WInv, IInv, TypeOK
  <2>2. Scheduled(Periodic) \/ running = Periodic
          => current_time <= s + Period
    BY <1>1 DEF PeriodicInv
  <2>3. waiting /\ Scheduled(Periodic) =>
          current_time <= s /\ ext_request <= s + Period
    BY <1>1 DEF PeriodicInv
  <2>4. CASE UNCHANGED vars
    BY <2>2, <2>3, <2>4 DEF PeriodicInv, vars, Scheduled, wait, sync
  <2>5. CASE PeriodicStarts
    <3>1. AddJob(Periodic, Period) /\ ~attached
      BY <2>5 DEF PeriodicStarts
    <3>2. start'[Periodic] = Period /\ UNCHANGED <<current_time, waiting>>
      BY <1>1, <3>1, <2>1 DEF AddJob, wait, WInv, IInv, TypeOK
    <3>3. ~waiting
      BY <1>1, <3>1 DEF WInv, IInv, RequestsKnown
    <3> QED
      BY <2>1, <3>1, <3>2, <3>3 DEF PeriodicInv, AddJob
  <2>6. ASSUME NEW j \in Frame, NEW t \in Time, FrameArrives(j, t)
        PROVE  PeriodicInv'
    <3>1. /\ AddJob(j, t) /\ j \in Job /\ j # Periodic
          /\ t \in current_time..(current_time + Horizon)
      BY <2>6 DEF FrameArrives, Frame
    <3>2. /\ start'[Periodic] = s
          /\ UNCHANGED <<current_time, waiting, running>>
      BY <1>1, <3>1, <2>1 DEF AddJob, wait, WInv, IInv, TypeOK
    <3>3. Scheduled(Periodic)' => Scheduled(Periodic)
      BY <1>1, <2>1, <3>1, InsertedAreScheduled DEF WInv
    <3>4. ext_request' = ext_request \/ ext_request' = t
      BY <3>1 DEF AddJob, ExternalRequest, sync
    <3>5. waiting /\ Scheduled(Periodic) => ext_request' <= s + Period
      BY <2>1, <2>3, <3>1, <3>4
    <3> QED
      BY <2>2, <2>3, <3>2, <3>3, <3>5 DEF PeriodicInv
  <2>7. CASE PeriodicAgain /\ ~(NextStart < current_time)
    <3>1. AddJob(Periodic, s + Period) /\ running = Periodic
      BY <2>7 DEF PeriodicAgain, NextStart
    <3>2. /\ start'[Periodic] = s + Period
          /\ UNCHANGED <<current_time, waiting, running>>
      BY <1>1, <3>1, <2>1 DEF AddJob, wait, WInv, IInv, TypeOK
    <3>3. ~waiting
      BY <1>1, <3>1, <2>1, JobAssumption DEF WInv, TimerInv
    <3>4. current_time <= start'[Periodic] + Period
      BY <2>1, <2>2, <3>1, <3>2
    <3> QED
      BY <3>2, <3>3, <3>4 DEF PeriodicInv
  <2>8. ASSUME NEW j \in Frame, FrameDeleted(j)
        PROVE  PeriodicInv'
    <3>1. DelJob(j)
      BY <2>8 DEF FrameDeleted
    <3>2. PosOf(joblist, j) \in 1..Len(joblist)
      BY <3>1 DEF DelJob, Scheduled, PosOf
    <3>3. Scheduled(Periodic)' => Scheduled(Periodic)
      BY <1>1, <2>1, <3>1, <3>2, RemovedAreScheduled DEF WInv, DelJob, RemoveJob
    <3> QED
      BY <2>2, <2>3, <3>1, <3>3 DEF PeriodicInv, DelJob, sync
  <2>9. CASE WaitAndHandle
    <3>1. joblist = <<>> /\ joblist' = joblist /\ running = NoJob
          /\ running' = running
      BY <1>1, <2>9, WaitAndHandleSyncs DEF WaitAndHandle, SetTime, vars, Idle
    <3>2. ~Scheduled(Periodic)' /\ running' # Periodic
      BY <2>1, <3>1, JobAssumption DEF Scheduled
    <3> QED
      BY <3>2 DEF PeriodicInv
  <2>10. CASE WCallbackReturns \/ ClockInit
    BY <2>1, <2>2, <2>3, <2>10, JobAssumption
       DEF WCallbackReturns, CallbackReturns, ClockInit, AttachExternal,
           PeriodicInv, Scheduled, wait, sync
  <2>11. CASE WNextWaitForJob
    <3>1. joblist = <<>> /\ joblist' = joblist /\ running = NoJob
          /\ running' = running
      BY <2>11 DEF WNextWaitForJob, NextWaitForJob, Idle
    <3>2. ~Scheduled(Periodic)' /\ running' # Periodic
      BY <2>1, <3>1, JobAssumption DEF Scheduled
    <3> QED
      BY <3>2 DEF PeriodicInv
  <2>12. CASE WNextForwardWait
    <3> DEFINE t == start[Head(joblist)]
    <3>1. /\ joblist # <<>> /\ t > current_time /\ running = NoJob
          /\ RequestAndWait(t, Head(joblist))
          /\ UNCHANGED <<start, joblist, current_time, running>>
      BY <2>12 DEF WNextForwardWait, NextForwardWait, Idle
    <3>2. /\ Head(joblist) \in Job
          /\ \A k \in Job : Scheduled(k) => ~Behind(Head(joblist), k)
      BY <1>1, <3>1, HeadIsFirst DEF WInv, IInv
    <3>3. t \in Nat
      BY <1>1, <3>2 DEF WInv, IInv, TypeOK
    <3>4. Scheduled(Periodic) => t <= s
      BY <2>1, <3>2, <3>3 DEF Behind
    <3>5. ext_request' = t
      <4>1. CASE AskedAlready(t)
        BY <1>1, <3>1, <4>1
           DEF AskedAlready, WInv, IInv, RequestsKnown, RequestAndWait
      <4>2. CASE ~AskedAlready(t)
        BY <3>1, <4>2 DEF RequestAndWait
      <4> QED
        BY <4>1, <4>2
    <3> HIDE DEF t
    <3>6. Scheduled(Periodic)' = Scheduled(Periodic) /\ running' # Periodic
      BY <2>1, <3>1, JobAssumption DEF Scheduled
    <3>7. start'[Periodic] = s /\ current_time' = current_time
      BY <3>1
    <3>8. Scheduled(Periodic) =>
             current_time <= s /\ t <= s + Period /\ current_time <= s + Period
      BY <2>1, <3>1, <3>3, <3>4
    <3> QED
      BY <3>5, <3>6, <3>7, <3>8 DEF PeriodicInv
  <2>13. CASE WNextDue
    <3>1. /\ joblist # <<>> /\ joblist' = Tail(joblist)
          /\ running' = Head(joblist) /\ ~waiting'
          /\ UNCHANGED <<start, current_time>>
      BY <2>13 DEF WNextDue, NextDue, Idle, Call, wait
    <3>2. /\ \A k \in Job : Scheduled(k)' => Scheduled(k)
          /\ Scheduled(Head(joblist))
      BY <1>1, <3>1, TailIsScheduled DEF WInv
    <3> QED
      BY <2>1, <2>2, <3>1, <3>2 DEF PeriodicInv
  <2>14. CASE WaitEnds
    <3>1. /\ waiting /\ ~waiting' /\ running = NoJob /\ start' = start
          /\ current_time' = ext_request
          /\ GrantCall \/ GrantRetry
      BY <1>1, <2>14, WaitEndsGrants DEF WInv, TimerInv
    <3>2. CASE GrantRetry
      <4>1. joblist' = joblist /\ running' # Periodic
        BY <2>1, <3>1, <3>2, JobAssumption DEF GrantRetry
      <4> QED
        BY <2>3, <3>1, <4>1 DEF PeriodicInv, Scheduled
    <3>3. CASE GrantCall
      <4>1. /\ joblist # <<>> /\ joblist' = Tail(joblist)
            /\ running' = Head(joblist)
        BY <3>3 DEF GrantCall, JobReached, Call
      <4>2. /\ \A k \in Job : Scheduled(k)' => Scheduled(k)
            /\ Scheduled(Head(joblist))
        BY <1>1, <4>1, TailIsScheduled DEF WInv
      <4> QED
        BY <2>1, <2>3, <3>1, <4>1, <4>2 DEF PeriodicInv
    <3> QED
      BY <3>1, <3>2, <3>3
  <2>15. CASE UNCHANGED wvars \/ Tick \/ HandlerReturns \/ HandleFd
              \/ (PeriodicAgain /\ NextStart < current_time)
    <3>1. UNCHANGED vars
      BY <2>15 DEF wvars, Tick, HandlerReturns, HandleFd, PeriodicAgain, Abort
    <3> QED
      BY <2>4, <3>1
  <2> QED
    BY <1>1, <2>5, <2>6, <2>7, <2>8, <2>9, <2>10, <2>11, <2>12, <2>13, <2>14,
       <2>15 DEF WNext, DaemonStep
<1>2. ASSUME WInv, PeriodicInv, NoAbort, [WNext]_wvars
      PROVE  NoAbort'
  <2>1. /\ s \in Nat /\ current_time \in Nat /\ Period \in Nat
    BY <1>2, PeriodicAssumption DEF WInv, IInv, TypeOK
  <2>2. CASE PeriodicAgain
    <3>1. ~(NextStart < current_time)
      BY <1>2, <2>1, <2>2 DEF PeriodicAgain, PeriodicInv, NextStart
    <3> QED
      BY <1>2, <2>2, <3>1 DEF PeriodicAgain, NoAbort, loop_vars
  <2>3. CASE WaitAndHandle
    BY <1>2, <2>3, WaitAndHandleSyncs DEF NoAbort
  <2>4. CASE WaitEnds
    BY <1>2, <2>4, WaitEndsGrants DEF NoAbort
  <2> QED
    BY <1>2, <2>2, <2>3, <2>4
       DEF WNext, DaemonStep, NoAbort, wvars, loop_vars, PeriodicStarts,
           FrameArrives, FrameDeleted, Tick, ClockInit, WCallbackReturns,
           HandlerReturns, WNextWaitForJob, WNextForwardWait, WNextDue, HandleFd
<1> QED
  BY <1>1, <1>2

(***************************************************************************)
(* As long as no frame's airtime ends later than one period from now, none *)
(* of the assertions on the time can fail: the periodic job is added again *)
(* in time even if its call was late, the pre-handler and the end of a     *)
(* wait never set the time back.                                           *)
(***************************************************************************)
THEOREM NeverAborts == Horizon <= Period => (WSpec => []NoAbort)
<1> SUFFICES ASSUME Horizon <= Period
             PROVE  WSpec => []NoAbort
  OBVIOUS
<1>1. WInit => PeriodicInv /\ NoAbort
  <2> SUFFICES ASSUME WInit
               PROVE  PeriodicInv /\ NoAbort
    OBVIOUS
  <2>1. ~Scheduled(Periodic) /\ running # Periodic
    BY PeriodicAssumption, JobAssumption DEF WInit, Init, Scheduled
  <2> QED
    BY <2>1 DEF WInit, PeriodicInv, NoAbort
<1>2. WInv /\ WInv' /\ PeriodicInv /\ NoAbort /\ [WNext]_wvars
        => PeriodicInv' /\ NoAbort'
  BY NextPeriodicInv
<1> QED
  BY <1>1, <1>2, WInvariance, PTL DEF WSpec
=============================================================================
