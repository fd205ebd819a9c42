--------------------------- MODULE ClientsProofs ---------------------------
(***************************************************************************)
(* Proofs about the clients and the walks over them, for every finite set  *)
(* of clients, all stations and any number of frames.                      *)
(***************************************************************************)
EXTENDS Clients, SequenceTheorems, FiniteSetTheorems, TLAPS

(***************************************************************************)
(* usfstl_list_item_remove() and list_del(): the element at position i     *)
(* goes and the later ones move down by one.                               *)
(***************************************************************************)
IsRemoval(S, s, i, new) ==
    /\ new \in Seq(S)
    /\ Len(new) = Len(s) - 1
    /\ \A k \in 1..(Len(s) - 1) : new[k] = IF k < i THEN s[k] ELSE s[k + 1]

LEMMA RemoveAtProperties ==
    ASSUME NEW S, NEW s \in Seq(S), NEW i \in 1..Len(s)
    PROVE  IsRemoval(S, s, i, RemoveAt(s, i))
<1> DEFINE front == SubSeq(s, 1, i - 1)
           back  == SubSeq(s, i + 1, Len(s))
<1>1. Len(s) \in Nat /\ \A k \in 1..Len(s) : s[k] \in S
  BY LenProperties, ElementOfSeq
<1>2. /\ front \in Seq(S)
      /\ Len(front) = i - 1
      /\ \A k \in 1..(i - 1) : front[k] = s[k]
  <2>1. \A k \in 1..(i - 1) : s[k] \in S
    BY <1>1
  <2>2. /\ front \in Seq(S)
        /\ Len(front) = IF 1 <= i - 1 THEN (i - 1) - 1 + 1 ELSE 0
        /\ \A k \in 1..((i - 1) - 1 + 1) : front[k] = s[1 + k - 1]
    BY <2>1, SubSeqProperties, <1>1
  <2> QED
    BY <2>2, <1>1
<1>3. /\ back \in Seq(S)
      /\ Len(back) = Len(s) - i
      /\ \A k \in 1..(Len(s) - i) : back[k] = s[i + k]
  <2>1. \A k \in (i + 1)..Len(s) : s[k] \in S
    BY <1>1
  <2>2. /\ back \in Seq(S)
        /\ Len(back) = IF i + 1 <= Len(s) THEN Len(s) - (i + 1) + 1 ELSE 0
        /\ \A k \in 1..(Len(s) - (i + 1) + 1) : back[k] = s[i + 1 + k - 1]
    BY <2>1, SubSeqProperties, <1>1
  <2> QED
    BY <2>2, <1>1
<1>4. RemoveAt(s, i) = front \o back
  BY DEF RemoveAt
<1> HIDE DEF front, back
<1>5. /\ front \o back \in Seq(S)
      /\ Len(front \o back) = Len(front) + Len(back)
      /\ \A k \in 1..(Len(front) + Len(back)) :
            (front \o back)[k] = IF k <= Len(front) THEN front[k]
                                 ELSE back[k - Len(front)]
  BY <1>2, <1>3, ConcatProperties
<1> QED
  BY <1>1, <1>2, <1>3, <1>4, <1>5 DEF IsRemoval

NoDuplicates(list) ==
    \A i, k \in 1..Len(list) : list[i] = list[k] => i = k


(***************************************************************************)
(* Only connected clients are on ctx->clients, each once; those that wait  *)
(* to be freed are not connected.                                          *)
(***************************************************************************)
ListsInv ==
    /\ NoDuplicates(clients)
    /\ Members(clients) \subseteq connected
    /\ Members(clients_to_free) \cap connected = {}

(***************************************************************************)
(* What the callback on the stack holds: the frame it is about, which is   *)
(* not queued again, and the entries of its walk.  Handlers are only on    *)
(* the stack above a callback that waits.                                  *)
(***************************************************************************)
CallbackInv ==
    /\ cb.phase \in {"notify", "deliver", "clone"} =>
          {cb.cursor, cb.tmp} \subseteq Live \cup {End, Stray}
    /\ cb.phase \in {"notify", "deliver", "clone", "info", "done"} =>
          cb.frame \in FrameId
    /\ cb.phase \in {"deliver", "clone", "info", "done"} =>
          frame[cb.frame].state = "delivering"
    /\ cb.phase = "notify" => frame[cb.frame].state \in {"queued", "gone"}
    /\ cb.wait # "none" => cb.phase \in {"notify", "clone", "info"}
    /\ stack # <<>> => cb.phase = "idle" \/ cb.wait # "none"

(***************************************************************************)
(* The handlers on the stack: all but the one on top wait, none has a      *)
(* client that was freed, and the frames between their source and their    *)
(* queue are those that they add.                                          *)
(***************************************************************************)
StackInv ==
    /\ \A i \in 1..Len(stack) :
          /\ stack[i].client \in Live
          /\ stack[i].at = "request" =>
                stack[i].frame \in FrameId /\ frame[stack[i].frame].state = "adding"
    /\ \A i, k \in 1..Len(stack) :
          /\ stack[i].at = "request" /\ stack[k].at = "request"
          /\ stack[i].frame = stack[k].frame
          => i = k
    /\ cb.phase # "undefined" =>
          \A f \in FrameId : frame[f].state = "adding" =>
              \E i \in 1..Len(stack) : stack[i].at = "request" /\ stack[i].frame = f
    /\ \A i \in 1..(Len(stack) - 1) : Waits(stack[i])

(***************************************************************************)
(* The inductive invariant, whenever clients leave.                        *)
(***************************************************************************)
IInv ==
    /\ TypeOK
    /\ NotifyCounted
    /\ ListsInv
    /\ CallbackInv
    /\ StackInv

(***************************************************************************)
(* What else is invariant if no client leaves while the medium is about to *)
(* store it: stations and frames that are not delivered yet belong to      *)
(* connected clients, the callback reports to one that was not freed, and  *)
(* the one whose message is about to be processed is connected.            *)
(***************************************************************************)
OwnersInv ==
    /\ \A s \in Station : station_client[s] \in connected \cup {None}
    /\ \A f \in FrameId : frame[f].state \in {"adding", "queued"} =>
          frame[f].src \in connected
    /\ cb.phase \in {"deliver", "clone", "info"} => frame[cb.frame].src \in Live
    /\ \A i \in 1..Len(stack) :
          stack[i].at \in {"sync", "next"} => stack[i].client \in connected
-----------------------------------------------------------------------------
(* The linked lists.                                                       *)

(***************************************************************************)
(* The position of a member.                                               *)
(***************************************************************************)
LEMMA PosOfMember ==
    ASSUME NEW list, NEW c \in Members(list)
    PROVE  PosOf(list, c) \in 1..Len(list) /\ list[PosOf(list, c)] = c
<1>1. \E k \in 1..Len(list) : list[k] = c
  BY DEF Members
<1> QED
  BY <1>1 DEF PosOf

(***************************************************************************)
(* list_add() puts a client in front of the others.                        *)
(***************************************************************************)
IsListAdd(S, list, c, new) ==
    /\ new \in Seq(S)
    /\ Len(new) = Len(list) + 1
    /\ new[1] = c
    /\ \A i \in 1..Len(list) : new[i + 1] = list[i]
    /\ \A i \in 1..Len(new) :
          i = 1 \/ (i - 1 \in 1..Len(list) /\ new[i] = list[i - 1])

LEMMA ListAddShifts ==
    ASSUME NEW S, NEW list \in Seq(S), NEW c \in S
    PROVE  IsListAdd(S, list, c, ListAdd(list, c))
<1> DEFINE new == ListAdd(list, c)
           n   == Len(list)
<1>1. n \in Nat /\ <<c>> \in Seq(S) /\ Len(<<c>>) = 1 /\ <<c>>[1] = c
  BY LenProperties
<1>2. /\ new \in Seq(S)
      /\ Len(new) = 1 + n
      /\ \A i \in 1..(1 + n) : new[i] = IF i <= 1 THEN <<c>>[i] ELSE list[i - 1]
  BY <1>1, ConcatProperties DEF ListAdd
<1> HIDE DEF new
<1>3. Len(new) = n + 1 /\ new[1] = c
  BY <1>1, <1>2
<1>4. ASSUME NEW i \in 1..n
      PROVE  new[i + 1] = list[i]
  <2>1. i + 1 \in 1..(1 + n) /\ ~(i + 1 <= 1) /\ (i + 1) - 1 = i
    BY <1>1
  <2> QED
    BY <1>2, <2>1
<1>5. \A i \in 1..Len(new) : i = 1 \/ (i - 1 \in 1..n /\ new[i] = list[i - 1])
  BY <1>1, <1>2
<1> QED
  BY <1>2, <1>3, <1>4, <1>5 DEF new, IsListAdd

LEMMA ListAddProperties ==
    ASSUME NEW S, NEW list \in Seq(S), NEW c \in S
    PROVE  /\ ListAdd(list, c) \in Seq(S)
           /\ Members(ListAdd(list, c)) = Members(list) \cup {c}
           /\ NoDuplicates(list) /\ c \notin Members(list)
                => NoDuplicates(ListAdd(list, c))
<1> DEFINE n == Len(list)
<1>1. PICK new : new = ListAdd(list, c)
  OBVIOUS
<1>2. n \in Nat /\ IsListAdd(S, list, c, new)
  BY <1>1, LenProperties, ListAddShifts
<1>3. Len(new) = n + 1 /\ new[1] = c
  BY <1>2 DEF IsListAdd
<1>4. \A i \in 1..n : new[i + 1] = list[i]
  BY <1>2 DEF IsListAdd
<1>5. \A i \in 1..Len(new) : i = 1 \/ (i - 1 \in 1..n /\ new[i] = list[i - 1])
  BY <1>2 DEF IsListAdd
<1>6. Members(new) = Members(list) \cup {c}
  <2>1. ASSUME NEW x \in Members(new)
        PROVE  x \in Members(list) \cup {c}
    BY <1>3, <1>5 DEF Members
  <2>2. ASSUME NEW x \in Members(list)
        PROVE  x \in Members(new)
    <3>1. PICK i \in 1..n : x = list[i]
      BY DEF Members
    <3>2. i + 1 \in 1..Len(new)
      BY <1>2, <1>3
    <3> QED
      BY <1>4, <3>1, <3>2 DEF Members
  <2>3. c \in Members(new)
    BY <1>2, <1>3 DEF Members
  <2> QED
    BY <2>1, <2>2, <2>3
<1>7. ASSUME NoDuplicates(list), c \notin Members(list)
      PROVE  NoDuplicates(new)
  <2> SUFFICES ASSUME NEW i \in 1..Len(new), NEW k \in 1..Len(new),
                      new[i] = new[k]
               PROVE  i = k
    BY DEF NoDuplicates
  <2>1. \A j \in 1..n : list[j] # c
    BY <1>7 DEF Members
  <2>2. CASE i = 1 \/ k = 1
    BY <2>1, <2>2, <1>3, <1>5
  <2>3. CASE i # 1 /\ k # 1
    <3>1. /\ i - 1 \in 1..n /\ k - 1 \in 1..n
          /\ list[i - 1] = list[k - 1]
      BY <2>3, <1>5
    <3>2. i - 1 = k - 1
      BY <1>7, <3>1 DEF NoDuplicates
    <3> QED
      BY <1>2, <1>3, <3>2
  <2> QED
    BY <2>2, <2>3
<1> QED
  BY <1>1, <1>2, <1>6, <1>7 DEF IsListAdd

(***************************************************************************)
(* list_del() takes a client off a list that has it at most once.          *)
(***************************************************************************)
LEMMA ListDelProperties ==
    ASSUME NEW S, NEW list \in Seq(S), NoDuplicates(list), NEW c
    PROVE  /\ ListDel(list, c) \in Seq(S)
           /\ Members(ListDel(list, c)) = Members(list) \ {c}
           /\ NoDuplicates(ListDel(list, c))
<1> DEFINE new == ListDel(list, c)
           n   == Len(list)
           p   == PosOf(list, c)
<1>1. CASE c \notin Members(list)
  BY <1>1 DEF ListDel
<1>2. CASE c \in Members(list)
  <2>1. p \in 1..n /\ list[p] = c /\ n \in Nat
    BY <1>2, PosOfMember, LenProperties
  <2> HIDE DEF p
  <2>2. IsRemoval(S, list, p, new)
    BY <1>2, <2>1, RemoveAtProperties DEF ListDel, p
  <2> HIDE DEF new
  <2>3. /\ new \in Seq(S)
        /\ Len(new) = n - 1
        /\ \A k \in 1..(n - 1) : new[k] = IF k < p THEN list[k] ELSE list[k + 1]
    BY <2>2 DEF IsRemoval
  <2> DEFINE Old(k) == IF k < p THEN k ELSE k + 1
  <2>4. ASSUME NEW k \in 1..(n - 1)
        PROVE  Old(k) \in 1..n /\ Old(k) # p /\ new[k] = list[Old(k)]
    BY <2>1, <2>3
  <2>5. NoDuplicates(new)
    <3> SUFFICES ASSUME NEW i \in 1..(n - 1), NEW k \in 1..(n - 1),
                        new[i] = new[k]
                 PROVE  i = k
      BY <2>3 DEF NoDuplicates
    <3>1. Old(i) \in 1..n /\ Old(k) \in 1..n /\ list[Old(i)] = list[Old(k)]
      BY <2>4
    <3>2. Old(i) = Old(k)
      BY <3>1 DEF NoDuplicates
    <3> QED
      BY <3>2, <2>1
  <2>6. ASSUME NEW x \in Members(new)
        PROVE  x \in Members(list) \ {c}
    <3>1. PICK k \in 1..(n - 1) : x = new[k]
      BY <2>3 DEF Members
    <3>2. Old(k) \in 1..n /\ Old(k) # p /\ x = list[Old(k)]
      BY <2>4, <3>1
    <3> HIDE DEF Old
    <3>3. x # c
      BY <2>1, <3>2 DEF NoDuplicates
    <3> QED
      BY <3>2, <3>3 DEF Members
  <2>7. ASSUME NEW x \in Members(list), x # c
        PROVE  x \in Members(new)
    <3>1. PICK i \in 1..n : x = list[i]
      BY DEF Members
    <3>2. i # p
      BY <2>1, <2>7, <3>1
    <3> DEFINE k == IF i < p THEN i ELSE i - 1
    <3>3. k \in 1..(n - 1) /\ Old(k) = i
      BY <2>1, <3>2
    <3>4. new[k] = x
      BY <2>4, <3>1, <3>3
    <3> HIDE DEF k
    <3> QED
      BY <2>3, <3>3, <3>4 DEF Members
  <2> QED
    BY <2>3, <2>5, <2>6, <2>7 DEF new
<1> QED
  BY <1>1, <1>2

(***************************************************************************)
(* What follows an entry is on the same list, or its head.                 *)
(***************************************************************************)
LEMMA FollowsProperties ==
    ASSUME NEW S, NEW list \in Seq(S), NEW c \in Members(list), NEW head
    PROVE  Follows(list, c, head) \in Members(list) \cup {head}
<1>1. PosOf(list, c) \in 1..Len(list) /\ Len(list) \in Nat
  BY PosOfMember, LenProperties
<1>2. CASE PosOf(list, c) # Len(list)
  <2>1. PosOf(list, c) + 1 \in 1..Len(list)
    BY <1>1, <1>2
  <2> QED
    BY <1>2, <2>1 DEF Follows, Members
<1> QED
  BY <1>2 DEF Follows

LEMMA MembersAreClients ==
    ASSUME TypeOK
    PROVE  Members(clients) \subseteq Client /\ Members(clients_to_free) \subseteq Client
BY ElementOfSeq DEF TypeOK, Members

(***************************************************************************)
(* list_next_entry() of an entry that was not freed.                       *)
(***************************************************************************)
LEMMA NextEntryLive ==
    ASSUME TypeOK, ListsInv, NEW c \in Live \cup {End}
    PROVE  NextEntry(c) \in Live \cup {End, Stray}
<1>1. CASE c = End
  <2>1. c \notin Members(clients) /\ c \notin Members(clients_to_free)
    BY <1>1, MembersAreClients, PointerAssumption
  <2> QED
    BY <1>1, <2>1 DEF NextEntry
<1>2. CASE c \in Members(clients)
  <2>1. c # End
    BY <1>2, PointerAssumption DEF ListsInv, TypeOK
  <2>2. c \notin Members(clients_to_free)
    BY <1>2 DEF ListsInv
  <2>3. NextEntry(c) = Follows(clients, c, End)
    BY <1>2, <2>1, <2>2 DEF NextEntry
  <2>4. Follows(clients, c, End) \in Members(clients) \cup {End}
    BY <1>2, FollowsProperties DEF TypeOK
  <2> QED
    BY <2>3, <2>4 DEF ListsInv, Live
<1>3. CASE c \in Members(clients_to_free)
  <2>1. c # End /\ c \notin Members(clients)
    BY <1>3, MembersAreClients, PointerAssumption DEF ListsInv
  <2>2. NextEntry(c) = Follows(clients_to_free, c, Stray)
    BY <1>3, <2>1 DEF NextEntry
  <2>3. Follows(clients_to_free, c, Stray) \in Members(clients_to_free) \cup {Stray}
    BY <1>3, FollowsProperties DEF TypeOK
  <2> QED
    BY <2>2, <2>3 DEF Live
<1>4. CASE c # End /\ c \notin Members(clients) /\ c \notin Members(clients_to_free)
  BY <1>4 DEF NextEntry
<1> QED
  BY <1>1, <1>2, <1>3, <1>4

(***************************************************************************)
(* The beginning and the steps of list_for_each_entry_safe().              *)
(***************************************************************************)
LEMMA WalkFromLive ==
    ASSUME TypeOK, ListsInv, NEW r \in CallbackRecord
    PROVE  /\ WalkFrom(r) \in CallbackRecord
           /\ {WalkFrom(r).cursor, WalkFrom(r).tmp} \subseteq Live \cup {End, Stray}
           /\ WalkFrom(r).phase = r.phase /\ WalkFrom(r).frame = r.frame
           /\ WalkFrom(r).wait = r.wait /\ WalkFrom(r).dst = r.dst
<1>1. FirstEntry \in Members(clients) \cup {End}
  <2>1. CASE clients # <<>>
    <3>1. 1 \in 1..Len(clients)
      BY <2>1 DEF TypeOK
    <3> QED
      BY <2>1, <3>1 DEF FirstEntry, Members
  <2> QED
    BY <2>1 DEF FirstEntry
<1>2. FirstEntry \in Live \cup {End}
  BY <1>1 DEF ListsInv, Live
<1>3. NextEntry(FirstEntry) \in Live \cup {End, Stray}
  BY <1>2, NextEntryLive
<1>4. Live \subseteq Client
  BY MembersAreClients DEF Live, TypeOK
<1> QED
  BY <1>2, <1>3, <1>4 DEF WalkFrom, CallbackRecord

LEMMA StepLive ==
    ASSUME TypeOK, ListsInv, cb.tmp \in Live \cup {End, Stray}
    PROVE  /\ Step(cb) \in CallbackRecord
           /\ {Step(cb).cursor, Step(cb).tmp} \subseteq Live \cup {End, Stray}
           /\ Step(cb).phase = cb.phase /\ Step(cb).frame = cb.frame
           /\ Step(cb).wait = "none" /\ Step(cb).dst = cb.dst
<1>1. cb \in CallbackRecord
  BY DEF TypeOK
<1>2. cb.tmp # Stray => NextEntry(cb.tmp) \in Live \cup {End, Stray}
  BY NextEntryLive
<1>3. Live \subseteq Client
  BY MembersAreClients DEF Live, TypeOK
<1> QED
  BY <1>1, <1>2, <1>3 DEF Step, CallbackRecord
-----------------------------------------------------------------------------
(* The counter of the clients to notify.                                   *)

Notified == {c \in connected : "notify" \in flags[c]}

LEMMA ClientFinite == IsFiniteSet(Client)
<1>1. CASE Kernel = <<>>
  <2>1. Len(Kernel) = 0
    BY <1>1
  <2>2. Netlink = {}
    BY <2>1 DEF Netlink, Members
  <2> QED
    BY <2>2, ClientAssumption, FS_Union DEF Client
<1>2. CASE \E k \in Netlink : Kernel = <<k>>
  <2>1. PICK k \in Netlink : Kernel = <<k>>
    BY <1>2
  <2>2. Len(Kernel) = 1 /\ Kernel[1] = k
    BY <2>1
  <2>3. Netlink = {k}
    BY <2>2 DEF Netlink, Members
  <2>4. IsFiniteSet(Netlink)
    BY <2>3, FS_Singleton
  <2> QED
    BY <2>4, ClientAssumption, FS_Union DEF Client
<1> QED
  BY <1>1, <1>2, ClientAssumption

LEMMA NotifiedFinite ==
    ASSUME connected \subseteq Client
    PROVE  IsFiniteSet(Notified) /\ Cardinality(Notified) \in Nat
<1>1. Notified \in SUBSET Client
  BY DEF Notified
<1> QED
  BY <1>1, ClientFinite, FS_Subset, FS_CardinalityType

(***************************************************************************)
(* A client that is counted in or out changes the number by one.           *)
(***************************************************************************)
LEMMA NotifiedOut ==
    ASSUME connected \subseteq Client, NotifyCounted, NEW c \in connected
    PROVE  /\ need_start_notify - Counts(flags[c]) = Cardinality(Notified \ {c})
           /\ IsFiniteSet(Notified \ {c})
           /\ Cardinality(Notified \ {c}) \in Nat
<1>1. IsFiniteSet(Notified) /\ Cardinality(Notified) \in Nat
  BY NotifiedFinite
<1>2. /\ IsFiniteSet(Notified \ {c})
      /\ Cardinality(Notified \ {c}) =
            IF c \in Notified THEN Cardinality(Notified) - 1
                              ELSE Cardinality(Notified)
  BY <1>1, FS_RemoveElement
<1>3. Cardinality(Notified \ {c}) \in Nat
  BY <1>2, FS_CardinalityType
<1>4. need_start_notify = Cardinality(Notified)
  BY DEF NotifyCounted, Notified
<1>5. Counts(flags[c]) = IF c \in Notified THEN 1 ELSE 0
  BY DEF Counts, Notified
<1> QED
  BY <1>1, <1>2, <1>3, <1>4, <1>5

LEMMA NotifiedIn ==
    ASSUME NEW S, IsFiniteSet(S), NEW c, c \notin S, NEW fs
    PROVE  Cardinality(S) + Counts(fs)
              = Cardinality(IF "notify" \in fs THEN S \cup {c} ELSE S)
<1>1. Cardinality(S) \in Nat /\ Cardinality(S \cup {c}) = Cardinality(S) + 1
  BY FS_AddElement, FS_CardinalityType
<1> QED
  BY <1>1 DEF Counts
-----------------------------------------------------------------------------
(* The stack of handlers.                                                  *)

(***************************************************************************)
(* A handler is called, the one on top goes on, and it returns.            *)
(***************************************************************************)
LEMMA StackPushed ==
    ASSUME TypeOK, NEW h \in HandlerRecord
    PROVE  /\ Append(stack, h) \in Seq(HandlerRecord)
           /\ Len(Append(stack, h)) = Len(stack) + 1
           /\ \A i \in 1..Len(stack) : Append(stack, h)[i] = stack[i]
           /\ Append(stack, h)[Len(stack) + 1] = h
BY AppendProperties DEF TypeOK

LEMMA TopProperties ==
    ASSUME TypeOK, stack # <<>>
    PROVE  /\ Len(stack) \in Nat \ {0} /\ Len(stack) \in 1..Len(stack)
           /\ Top = stack[Len(stack)] /\ Top \in HandlerRecord
<1>1. Len(stack) \in Nat \ {0}
  BY EmptySeq, LenProperties DEF TypeOK
<1>2. Len(stack) \in 1..Len(stack)
  BY <1>1
<1> QED
  BY <1>1, <1>2, ElementOfSeq DEF TypeOK, Top

LEMMA StackTop ==
    ASSUME TypeOK, stack # <<>>, NEW f \in {0} \cup FrameId,
           NEW at \in {"sync", "next", "request", "reply", "call", "kick"}
    PROVE  /\ TopAt(at, f) \in Seq(HandlerRecord)
           /\ Len(TopAt(at, f)) = Len(stack)
           /\ \A i \in 1..(Len(stack) - 1) : TopAt(at, f)[i] = stack[i]
           /\ TopAt(at, f)[Len(stack)]
                 = [client |-> Top.client, frame |-> f, at |-> at]
<1> DEFINE n == Len(stack)
           h == [client |-> Top.client, frame |-> f, at |-> at]
<1>1. n \in Nat \ {0} /\ n \in 1..n /\ Top \in HandlerRecord
  BY TopProperties
<1>2. h \in HandlerRecord
  BY <1>1 DEF HandlerRecord
<1> HIDE DEF h
<1>3. stack \in Seq(HandlerRecord)
  BY DEF TypeOK
<1>4. /\ [stack EXCEPT ![n] = h] \in Seq(HandlerRecord)
      /\ Len([stack EXCEPT ![n] = h]) = n
      /\ \A i \in 1..n : [stack EXCEPT ![n] = h][i] = IF i = n THEN h ELSE stack[i]
  BY <1>1, <1>2, <1>3, ExceptSeq
<1>5. TopAt(at, f) = [stack EXCEPT ![n] = h]
  BY DEF TopAt, h
<1>6. \A i \in 1..(n - 1) : i \in 1..n /\ i # n
  BY <1>1
<1>7. /\ TopAt(at, f) \in Seq(HandlerRecord)
      /\ Len(TopAt(at, f)) = n
      /\ \A i \in 1..(n - 1) : TopAt(at, f)[i] = stack[i]
      /\ TopAt(at, f)[n] = h
  BY <1>1, <1>4, <1>5, <1>6
<1> QED
  BY <1>7 DEF h

LEMMA StackPopped ==
    ASSUME TypeOK, stack # <<>>
    PROVE  /\ Popped \in Seq(HandlerRecord)
           /\ Len(Popped) = Len(stack) - 1
           /\ \A i \in 1..(Len(stack) - 1) : Popped[i] = stack[i]
<1>1. Len(stack) \in Nat \ {0} /\ stack \in Seq(HandlerRecord)
  BY TopProperties DEF TypeOK
<1>2. \A i \in 1..(Len(stack) - 1) : stack[i] \in HandlerRecord
  BY <1>1, ElementOfSeq
<1>3. /\ Popped \in Seq(HandlerRecord)
      /\ Len(Popped) = IF 1 <= Len(stack) - 1 THEN (Len(stack) - 1) - 1 + 1 ELSE 0
      /\ \A i \in 1..((Len(stack) - 1) - 1 + 1) : Popped[i] = stack[1 + i - 1]
  <2>1. 1 \in Nat /\ Len(stack) - 1 \in Nat
        /\ \A i \in 1..(Len(stack) - 1) : i \in 1..Len(stack)
    BY <1>1
  <2> QED
    BY <1>1, <1>2, <2>1, SubSeqProperties DEF Popped
<1>4. Len(Popped) = Len(stack) - 1
  <2>1. CASE Len(stack) = 1
    BY <1>3, <2>1
  <2>2. CASE Len(stack) # 1
    <3>1. PICK m \in Nat \ {0} : m = Len(stack)
      BY <1>1
    <3>2. m # 1 /\ 1 <= m - 1 /\ (m - 1) - 1 + 1 = m - 1
      BY <2>2, <3>1
    <3> QED
      BY <1>3, <3>1, <3>2
  <2> QED
    BY <2>1, <2>2
<1>5. ASSUME NEW i \in 1..(Len(stack) - 1)
      PROVE  Popped[i] = stack[i]
  <2>1. i \in 1..((Len(stack) - 1) - 1 + 1) /\ 1 + i - 1 = i
    BY <1>1
  <2> QED
    BY <1>3, <2>1
<1> QED
  BY <1>3, <1>4, <1>5

(***************************************************************************)
(* Steps of handlers that change the stack only: no frame is added or      *)
(* taken over by them, and what is below the top stays.                    *)
(***************************************************************************)
StackStep ==
    /\ stack' \in Seq(HandlerRecord)
    /\ \A i \in 1..Len(stack') :
          \/ i \in 1..Len(stack) /\ stack'[i] = stack[i]
          \/ /\ i = Len(stack') /\ stack'[i].at # "request"
             /\ \/ stack'[i].client \in connected
                \/ /\ stack'[i].at \notin {"sync", "next"}
                   /\ \E k \in 1..Len(stack) : stack'[i].client = stack[k].client
    /\ \A i \in 1..Len(stack) :
          stack[i].at = "request" => i \in 1..Len(stack') /\ stack'[i] = stack[i]
    /\ \A i \in 1..(Len(stack') - 1) : Waits(stack'[i])
    /\ cb.phase = "idle" \/ cb.wait # "none"

LEMMA StackStepKeeps ==
    ASSUME IInv, StackStep,
           UNCHANGED <<client_vars, frame, ctrl, cb, wait_for_ack, got, steady>>
    PROVE  IInv' /\ (OwnersInv => OwnersInv')
<1> USE DEF IInv
<1>1. UNCHANGED <<clients, clients_to_free, connected, flags,
                  need_start_notify, station_client, frame, ctrl, cb>>
      /\ Live' = Live
  BY DEF client_vars, Live
<1>2. TypeOK'
  BY <1>1 DEF TypeOK, StackStep
<1>3. NotifyCounted' /\ ListsInv'
  BY <1>1 DEF NotifyCounted, ListsInv
<1>4. CallbackInv'
  BY <1>1 DEF CallbackInv, StackStep
<1>5. StackInv'
  <2>1. \A i \in 1..Len(stack') :
           stack'[i].client \in Live /\
           (stack'[i].at = "request" =>
               stack'[i].frame \in FrameId /\ frame[stack'[i].frame].state = "adding")
    BY DEF StackInv, StackStep, Live
  <2>2. \A i, k \in 1..Len(stack') :
           /\ stack'[i].at = "request" /\ stack'[k].at = "request"
           /\ stack'[i].frame = stack'[k].frame
           => i = k
    <3>1. \A i \in 1..Len(stack') : stack'[i].at = "request" =>
             i \in 1..Len(stack) /\ stack'[i] = stack[i]
      BY DEF StackStep
    <3> QED
      BY <3>1 DEF StackInv
  <2>3. cb.phase # "undefined" =>
           \A f \in FrameId : frame[f].state = "adding" =>
              \E i \in 1..Len(stack') :
                 stack'[i].at = "request" /\ stack'[i].frame = f
    BY DEF StackInv, StackStep
  <2>4. \A i \in 1..(Len(stack') - 1) :
           stack'[i].at = "call" \/
           (ctrl' /\ stack'[i].at \in {"sync", "request", "kick"})
    BY <1>1 DEF StackStep, Waits
  <2> QED
    BY <1>1, <2>1, <2>2, <2>3, <2>4 DEF StackInv, Waits
<1>6. OwnersInv => OwnersInv'
  BY <1>1 DEF OwnersInv, StackStep
<1> QED
  BY <1>2, <1>3, <1>4, <1>5, <1>6

(***************************************************************************)
(* Handlers are called where the event loop runs.                          *)
(***************************************************************************)
LEMMA PushIsStackStep ==
    ASSUME IInv, Polling, NEW c \in connected,
           NEW at \in {"sync", "next", "kick"}, Push(c, at)
    PROVE  StackStep
<1> USE DEF IInv
<1> DEFINE h == [client |-> c, frame |-> 0, at |-> at]
           n == Len(stack)
<1>1. h \in HandlerRecord /\ n \in Nat /\ connected \subseteq Client
  BY LenProperties DEF HandlerRecord, TypeOK
<1>2. /\ stack' \in Seq(HandlerRecord) /\ Len(stack') = n + 1
      /\ \A i \in 1..n : stack'[i] = stack[i]
      /\ stack'[n + 1] = h
  BY <1>1, StackPushed DEF Push
<1>3. h.at = at /\ h.client = c /\ c \in Live
  BY DEF Live
<1> HIDE DEF h
<1>4. \A i \in 1..n : Waits(stack[i])
  <2>1. CASE stack = <<>>
    <3>1. n = 0
      BY <2>1
    <3> QED
      BY <3>1
  <2>2. CASE stack # <<>>
    <3>1. Waits(stack[n])
      BY <2>2 DEF Polling, Top
    <3> QED
      BY <1>1, <3>1 DEF StackInv
  <2> QED
    BY <2>1, <2>2
<1>5. cb.phase = "idle" \/ cb.wait # "none"
  BY DEF Polling, CallbackInv
<1>6. \A i \in 1..(Len(stack') - 1) : Waits(stack'[i])
  BY <1>1, <1>2, <1>4
<1>7. \A i \in 1..Len(stack') :
          \/ i \in 1..n /\ stack'[i] = stack[i]
          \/ i = Len(stack') /\ stack'[i] = h
  BY <1>1, <1>2
<1>8. \A i \in 1..n : i \in 1..Len(stack')
  BY <1>1, <1>2
<1> QED
  BY <1>2, <1>3, <1>5, <1>6, <1>7, <1>8 DEF StackStep

(***************************************************************************)
(* The handler on top goes on, or returns.                                 *)
(***************************************************************************)
LEMMA TopIsStackStep ==
    ASSUME IInv, stack # <<>>, Top.at # "request",
           \/ stack' = Popped
           \/ stack' = TopAt("reply", 0)
           \/ stack' = TopAt("call", 0)
           \/ stack' = TopAt("next", 0) /\ Top.client \in connected
    PROVE  StackStep
<1> USE DEF IInv
<1> DEFINE n == Len(stack)
<1>1. n \in Nat \ {0} /\ n \in 1..n /\ Top = stack[n] /\ Top.client \in Live
  BY TopProperties DEF StackInv
<1>2. cb.phase = "idle" \/ cb.wait # "none"
  BY DEF CallbackInv
<1>3. \A i \in 1..(n - 1) : Waits(stack[i])
  BY DEF StackInv
<1>4. \A i \in 1..n : stack[i].at = "request" => i \in 1..(n - 1)
  BY <1>1
<1>5. CASE stack' = Popped
  <2>1. /\ stack' \in Seq(HandlerRecord) /\ Len(stack') = n - 1
        /\ \A i \in 1..(n - 1) : stack'[i] = stack[i]
    BY <1>5, StackPopped
  <2>2. \A i \in 1..(Len(stack') - 1) : Waits(stack'[i])
    BY <1>1, <1>3, <2>1
  <2>3. \A i \in 1..(n - 1) : i \in 1..n
    BY <1>1
  <2> QED
    BY <1>2, <1>4, <2>1, <2>2, <2>3 DEF StackStep
<1>6. ASSUME NEW at \in {"reply", "call", "next"}, stack' = TopAt(at, 0),
             at = "next" => Top.client \in connected
      PROVE  StackStep
  <2>1. /\ stack' \in Seq(HandlerRecord) /\ Len(stack') = n
        /\ \A i \in 1..(n - 1) : stack'[i] = stack[i]
        /\ stack'[n] = [client |-> Top.client, frame |-> 0, at |-> at]
    <3>1. TypeOK /\ 0 \in {0} \cup FrameId
          /\ at \in {"sync", "next", "request", "reply", "call", "kick"}
      OBVIOUS
    <3>2. /\ TopAt(at, 0) \in Seq(HandlerRecord)
          /\ Len(TopAt(at, 0)) = Len(stack)
          /\ \A i \in 1..(Len(stack) - 1) : TopAt(at, 0)[i] = stack[i]
          /\ TopAt(at, 0)[Len(stack)]
                = [client |-> Top.client, frame |-> 0, at |-> at]
      BY <3>1, StackTop
    <3> QED
      BY <1>6, <3>2
  <2>2. stack'[n].client = Top.client /\ stack'[n].at = at
    BY <2>1
  <2>3. \A i \in 1..(Len(stack') - 1) : Waits(stack'[i])
    BY <1>3, <2>1
  <2>4. \A i \in 1..Len(stack') : i = Len(stack') \/ i \in 1..(n - 1)
    BY <1>1, <2>1
  <2>5. \A i \in 1..(n - 1) : i \in 1..n
    BY <1>1
  <2> QED
    BY <1>1, <1>2, <1>4, <1>6, <2>1, <2>2, <2>3, <2>4, <2>5 DEF StackStep
<1> QED
  BY <1>5, <1>6

LEMMA StackOnlySteps ==
    ASSUME IInv,
           \/ \E c \in Client : NetlinkMessage(c) \/ Kick(c) \/ IrqJob(c)
           \/ ProcessOther \/ Respond \/ ReturnBuffer \/ Called \/ VirtqReturns
    PROVE  /\ StackStep
           /\ UNCHANGED <<client_vars, frame, ctrl, cb, wait_for_ack, got, steady>>
<1>1. CASE \E c \in Client : NetlinkMessage(c) \/ Kick(c) \/ IrqJob(c)
  <2>1. PICK c \in Client : NetlinkMessage(c) \/ Kick(c) \/ IrqJob(c)
    BY <1>1
  <2>2. c \in connected /\ \E at \in {"sync", "next", "kick"} : Push(c, at)
    BY <2>1 DEF NetlinkMessage, Kick, IrqJob
  <2>3. Polling
    BY <2>1 DEF NetlinkMessage, Kick, IrqJob, Polling
  <2> QED
    BY <2>1, <2>2, <2>3, PushIsStackStep DEF NetlinkMessage, Kick, IrqJob
<1>2. CASE ProcessOther \/ Respond \/ ReturnBuffer \/ Called \/ VirtqReturns
  BY <1>2, TopIsStackStep
     DEF ProcessOther, Respond, ReturnBuffer, Called, VirtqReturns
<1> QED
  BY <1>1, <1>2
-----------------------------------------------------------------------------
(* The handlers.                                                           *)

LEMMA InitIInv == Init => IInv /\ OwnersInv
<1> SUFFICES ASSUME Init
             PROVE  IInv /\ OwnersInv
  OBVIOUS
<1>1. /\ Len(clients_to_free) = 0 /\ Len(stack) = 0
      /\ Members(clients) = connected
  BY DEF Init, Netlink
<1>2. Members(clients_to_free) = {}
  BY <1>1 DEF Members
<1>3. NoFrame \in FrameRecord /\ NoCallback \in CallbackRecord
  BY DEF NoFrame, FrameRecord, NoCallback, CallbackRecord
<1>4. Kernel \in Seq(Client) /\ NoDuplicates(Kernel)
  <2>1. CASE Kernel = <<>>
    <3>1. Len(Kernel) = 0 /\ Kernel \in Seq(Client)
      BY <2>1
    <3> QED
      BY <3>1 DEF NoDuplicates
  <2>2. CASE \E k \in Netlink : Kernel = <<k>>
    <3>1. PICK k \in Netlink : Kernel = <<k>>
      BY <2>2
    <3>2. k \in Client /\ Len(Kernel) = 1 /\ <<k>> \in Seq(Client)
      BY <3>1 DEF Client
    <3> QED
      BY <3>1, <3>2 DEF NoDuplicates
  <2> QED
    BY <2>1, <2>2, ClientAssumption
<1>5. TypeOK
  <2>1. connected \subseteq Client /\ ctrl \in BOOLEAN
    BY CtrlAssumption DEF Init, Client
  <2> QED
    BY <1>3, <1>4, <2>1 DEF Init, TypeOK
<1>6. NotifyCounted
  <2>1. {c \in connected : "notify" \in flags[c]} = {}
    BY <1>5 DEF Init, TypeOK
  <2> QED
    BY <2>1, FS_EmptySet DEF Init, NotifyCounted
<1>7. ListsInv
  BY <1>1, <1>2, <1>4 DEF Init, ListsInv
<1>8. CallbackInv
  BY DEF Init, CallbackInv, NoCallback
<1>9. StackInv
  BY <1>1 DEF Init, StackInv, NoFrame
<1>10. OwnersInv
  BY <1>1 DEF Init, OwnersInv, NoFrame, NoCallback
<1> QED
  BY <1>5, <1>6, <1>7, <1>8, <1>9, <1>10 DEF IInv

(***************************************************************************)
(* Handlers that touch neither the frames nor the stack and remove no      *)
(* client leave what was said about them.                                  *)
(***************************************************************************)
LEMMA ClientHandlerKeeps ==
    ASSUME CallbackInv, StackInv, connected \subseteq connected',
           UNCHANGED <<clients_to_free, station_client, frame, ctrl, cb, stack>>
    PROVE  CallbackInv' /\ StackInv' /\ (OwnersInv => OwnersInv')
<1>1. Live \subseteq Live'
  BY DEF Live
<1>2. CallbackInv'
  BY <1>1 DEF CallbackInv
<1>3. StackInv'
  BY <1>1 DEF StackInv, Waits
<1>4. OwnersInv => OwnersInv'
  BY <1>1 DEF OwnersInv
<1> QED
  BY <1>2, <1>3, <1>4

(***************************************************************************)
(* A client connects.                                                      *)
(***************************************************************************)
LEMMA ConnectIInv ==
    ASSUME IInv, NEW c \in Client, ApiConnected(c) \/ VuConnected(c)
    PROVE  IInv' /\ (OwnersInv => OwnersInv')
<1> USE DEF IInv
<1>1. /\ c \notin connected /\ c \notin Members(clients_to_free)
      /\ connected' = connected \cup {c}
      /\ flags' = [flags EXCEPT ![c] = {}]
      /\ wait_for_ack' = [wait_for_ack EXCEPT ![c] = FALSE]
      /\ UNCHANGED <<clients_to_free, need_start_notify, station_client, frame,
                     ctrl, cb, stack, got, steady>>
  BY DEF ApiConnected, VuConnected, Fresh
<1>2. /\ clients' \in Seq(Client)
      /\ NoDuplicates(clients')
      /\ Members(clients') \subseteq Members(clients) \cup {c}
  <2>1. CASE ApiConnected(c)
    BY <2>1 DEF ApiConnected, TypeOK, ListsInv
  <2>2. CASE VuConnected(c)
    <3>1. clients \in Seq(Client) /\ NoDuplicates(clients) /\ c \notin Members(clients)
      BY <1>1 DEF TypeOK, ListsInv
    <3>2. clients' = ListAdd(clients, c)
      BY <2>2 DEF VuConnected
    <3> QED
      BY <3>1, <3>2, ListAddProperties
  <2> QED
    BY <2>1, <2>2
<1>3. TypeOK'
  BY <1>1, <1>2 DEF TypeOK
<1>4. NotifyCounted'
  <2>1. {d \in connected' : "notify" \in flags'[d]}
           = {d \in connected : "notify" \in flags[d]}
    BY <1>1 DEF TypeOK
  <2> QED
    BY <1>1, <2>1 DEF NotifyCounted
<1>5. ListsInv'
  BY <1>1, <1>2 DEF ListsInv
<1> QED
  BY <1>1, <1>3, <1>4, <1>5, ClientHandlerKeeps

(***************************************************************************)
(* A client registers, unregisters or acknowledges.                        *)
(***************************************************************************)
LEMMA RegisterIInv ==
    ASSUME IInv, NEW c \in Client, Register(c) \/ Unregister(c) \/ Ack(c)
    PROVE  IInv' /\ (OwnersInv => OwnersInv')
<1> USE DEF IInv
<1>1. /\ c \in connected
      /\ wait_for_ack' \in [Client -> BOOLEAN]
      /\ steady' \subseteq Client
      /\ UNCHANGED <<clients_to_free, connected, flags, need_start_notify,
                     station_client, frame, ctrl, cb, stack, got>>
  BY DEF Register, Unregister, Ack, client_vars, TypeOK
<1>2. /\ clients' \in Seq(Client)
      /\ NoDuplicates(clients')
      /\ Members(clients') \subseteq Members(clients) \cup {c}
  <2>1. clients \in Seq(Client) /\ NoDuplicates(clients)
    BY DEF TypeOK, ListsInv
  <2>2. CASE Register(c)
    BY <2>1, <2>2, ListAddProperties DEF Register
  <2>3. CASE Unregister(c)
    BY <2>1, <2>3, ListDelProperties DEF Unregister
  <2>4. CASE Ack(c)
    BY <2>1, <2>4 DEF Ack, client_vars
  <2> QED
    BY <2>2, <2>3, <2>4
<1>3. TypeOK'
  BY <1>1, <1>2 DEF TypeOK
<1>4. NotifyCounted'
  BY <1>1 DEF NotifyCounted
<1>5. ListsInv'
  BY <1>1, <1>2 DEF ListsInv
<1> QED
  BY <1>1, <1>3, <1>4, <1>5, ClientHandlerKeeps

(***************************************************************************)
(* WMEDIUMD_MSG_SET_CONTROL keeps the counter exact.                       *)
(***************************************************************************)
LEMMA SetControlIInv ==
    ASSUME IInv, NEW c \in Client, NEW fs \in Flags, SetControl(c, fs)
    PROVE  IInv' /\ (OwnersInv => OwnersInv')
<1> USE DEF IInv
<1>1. /\ c \in connected
      /\ need_start_notify' = need_start_notify - Counts(flags[c]) + Counts(fs)
      /\ flags' = [flags EXCEPT ![c] = fs]
      /\ steady' = steady \ {c}
      /\ UNCHANGED <<clients, clients_to_free, connected, wait_for_ack,
                     station_client, frame, ctrl, cb, stack, got>>
  BY DEF SetControl
<1>2. fs \subseteq {"notify", "rx_all"}
  BY FlagsAssumption
<1>3. /\ need_start_notify' = Cardinality(Notified \ {c}) + Counts(fs)
      /\ IsFiniteSet(Notified \ {c})
  BY <1>1, NotifiedOut DEF TypeOK
<1>4. {d \in connected' : "notify" \in flags'[d]}
         = IF "notify" \in fs THEN (Notified \ {c}) \cup {c} ELSE Notified \ {c}
  BY <1>1 DEF Notified, TypeOK
<1>5. NotifyCounted'
  <2>1. Cardinality(Notified \ {c}) + Counts(fs)
           = Cardinality(IF "notify" \in fs THEN (Notified \ {c}) \cup {c}
                                            ELSE Notified \ {c})
    BY <1>3, NotifiedIn
  <2> QED
    BY <1>3, <1>4, <2>1 DEF NotifyCounted
<1>6. need_start_notify' \in Nat
  <2>1. Cardinality(Notified \ {c}) \in Nat /\ Counts(fs) \in {0, 1}
    BY <1>3, FS_CardinalityType DEF Counts
  <2> QED
    BY <1>3, <2>1
<1>7. TypeOK'
  BY <1>1, <1>2, <1>6 DEF TypeOK
<1>8. ListsInv'
  BY <1>1 DEF ListsInv
<1> QED
  BY <1>1, <1>5, <1>7, <1>8, ClientHandlerKeeps

(***************************************************************************)
(* A frame gets its source and its jobs.                                   *)
(***************************************************************************)
LEMMA ProcessFrameIInv ==
    ASSUME IInv, NEW s \in Station, ProcessFrame(s)
    PROVE  IInv' /\ (OwnersInv => OwnersInv')
<1> USE DEF IInv
<1> DEFINE src == IF station_client[s] = None THEN Top.client
                                              ELSE station_client[s]
<1>1. PICK f \in FrameId :
         /\ frame[f].state = "none"
         /\ station_client' = [station_client EXCEPT ![s] = src]
         /\ frame' = [frame EXCEPT ![f] =
               [state |-> "adding", sender |-> s, src |-> src,
                start |-> need_start_notify # 0]]
         /\ stack' = TopAt("request", f)
  BY DEF ProcessFrame
<1>2. /\ stack # <<>> /\ Top.at \in {"sync", "next"}
      /\ UNCHANGED <<clients, clients_to_free, connected, flags, wait_for_ack,
                     need_start_notify, ctrl, cb, got>>
      /\ steady' \subseteq Client
  BY DEF ProcessFrame, TypeOK
<1> DEFINE n == Len(stack)
<1>3. /\ n \in Nat \ {0} /\ n \in 1..n /\ Top = stack[n]
      /\ Top.client \in Live /\ Top.client \in Client
  BY <1>2, TopProperties DEF StackInv, HandlerRecord
<1>4. /\ stack' \in Seq(HandlerRecord) /\ Len(stack') = n
      /\ \A i \in 1..(n - 1) : stack'[i] = stack[i]
      /\ stack'[n] = [client |-> Top.client, frame |-> f, at |-> "request"]
  <2>1. TypeOK /\ f \in {0} \cup FrameId
    OBVIOUS
  <2>2. /\ TopAt("request", f) \in Seq(HandlerRecord)
        /\ Len(TopAt("request", f)) = Len(stack)
        /\ \A i \in 1..(Len(stack) - 1) : TopAt("request", f)[i] = stack[i]
        /\ TopAt("request", f)[Len(stack)]
              = [client |-> Top.client, frame |-> f, at |-> "request"]
    BY <1>2, <2>1, StackTop
  <2> QED
    BY <1>1, <2>2
<1>5. /\ stack'[n].client = Top.client /\ stack'[n].frame = f
      /\ stack'[n].at = "request"
  BY <1>4
<1>6. \A i \in 1..n : i \in 1..(n - 1) \/ i = n
  BY <1>3
<1>7. \A i \in 1..(n - 1) : i \in 1..n /\ i # n
  BY <1>3
<1>8. src \in Client
  <2>1. station_client[s] \in Client \cup {None}
    BY DEF TypeOK
  <2> QED
    BY <1>3, <2>1
<1> HIDE DEF src
<1>9. frame'[f].state = "adding" /\ frame'[f].src = src
      /\ \A g \in FrameId \ {f} : frame'[g] = frame[g]
  BY <1>1 DEF TypeOK
<1>10. TypeOK'
  <2>1. station_client' \in [Station -> Client \cup {None}]
    BY <1>1, <1>8 DEF TypeOK
  <2>2. frame' \in [FrameId -> FrameRecord]
    BY <1>1, <1>8 DEF TypeOK, FrameRecord
  <2> QED
    BY <1>2, <1>4, <2>1, <2>2 DEF TypeOK
<1>11. NotifyCounted' /\ ListsInv' /\ Live' = Live
  BY <1>2 DEF NotifyCounted, ListsInv, Live
<1>12. CallbackInv'
  <2>1. cb.phase \in {"notify", "deliver", "clone", "info", "done"} =>
           cb.frame \in FrameId \ {f}
    BY <1>1 DEF CallbackInv
  <2> QED
    BY <1>2, <1>9, <1>11, <2>1 DEF CallbackInv
<1>13. StackInv'
  <2>1. ASSUME NEW i \in 1..(n - 1), stack[i].at = "request"
        PROVE  stack[i].frame \in FrameId \ {f}
    BY <1>1, <1>7, <2>1 DEF StackInv
  <2>2. \A i \in 1..n :
           /\ stack'[i].client \in Live
           /\ stack'[i].at = "request" =>
                stack'[i].frame \in FrameId /\ frame'[stack'[i].frame].state = "adding"
    BY <1>3, <1>4, <1>5, <1>6, <1>7, <1>9, <2>1 DEF StackInv
  <2>3. \A i, k \in 1..n :
           /\ stack'[i].at = "request" /\ stack'[k].at = "request"
           /\ stack'[i].frame = stack'[k].frame
           => i = k
    BY <1>4, <1>5, <1>6, <1>7, <2>1 DEF StackInv
  <2>4. ASSUME cb.phase # "undefined", NEW g \in FrameId, frame'[g].state = "adding"
        PROVE  \E i \in 1..n : stack'[i].at = "request" /\ stack'[i].frame = g
    <3>1. CASE g = f
      BY <1>3, <1>5, <3>1
    <3>2. CASE g # f
      <4>1. PICK i \in 1..n : stack[i].at = "request" /\ stack[i].frame = g
        BY <1>9, <2>4, <3>2 DEF StackInv
      <4>2. i \in 1..(n - 1)
        BY <1>2, <1>3, <1>6, <4>1
      <4> QED
        BY <1>4, <4>1, <4>2
    <3> QED
      BY <3>1, <3>2
  <2>5. \A i \in 1..(n - 1) :
           stack'[i].at = "call" \/
           (ctrl' /\ stack'[i].at \in {"sync", "request", "kick"})
    BY <1>2, <1>4 DEF StackInv, Waits
  <2> QED
    BY <1>2, <1>4, <1>11, <2>2, <2>3, <2>4, <2>5 DEF StackInv, Waits
<1>14. ASSUME OwnersInv
       PROVE  OwnersInv'
  <2>1. src \in connected
    <3>1. Top.client \in connected
      BY <1>2, <1>3, <1>14 DEF OwnersInv
    <3>2. station_client[s] \in connected \cup {None}
      BY <1>14 DEF OwnersInv
    <3> QED
      BY <3>1, <3>2 DEF src
  <2>2. \A t \in Station : station_client'[t] \in connected \cup {None}
    BY <1>1, <1>14, <2>1 DEF OwnersInv, TypeOK
  <2>3. \A g \in FrameId : frame'[g].state \in {"adding", "queued"} =>
           frame'[g].src \in connected
    BY <1>9, <1>14, <2>1 DEF OwnersInv
  <2>4. cb.phase \in {"deliver", "clone", "info"} => frame'[cb.frame].src \in Live
    <3>1. cb.phase \in {"deliver", "clone", "info"} => cb.frame \in FrameId \ {f}
      BY <1>1 DEF CallbackInv
    <3> QED
      BY <1>9, <1>14, <3>1 DEF OwnersInv
  <2>5. \A i \in 1..n : stack'[i].at \in {"sync", "next"} =>
           stack'[i].client \in connected
    BY <1>4, <1>5, <1>6, <1>7, <1>14 DEF OwnersInv
  <2> QED
    BY <1>2, <1>4, <1>11, <2>2, <2>3, <2>4, <2>5 DEF OwnersInv
<1> QED
  BY <1>10, <1>11, <1>12, <1>13, <1>14

(***************************************************************************)
(* A frame is on its queue.                                                *)
(***************************************************************************)
LEMMA QueueFrameIInv ==
    ASSUME IInv, QueueFrame
    PROVE  IInv' /\ (OwnersInv => OwnersInv')
<1> USE DEF IInv
<1> DEFINE n == Len(stack)
<1>1. /\ stack # <<>> /\ Top.at = "request"
      /\ frame' = [frame EXCEPT ![Top.frame].state = "queued"]
      /\ stack' = TopAt("reply", 0)
      /\ UNCHANGED <<clients, clients_to_free, connected, flags,
                     need_start_notify, station_client, wait_for_ack, ctrl, cb,
                     got, steady>>
  BY DEF QueueFrame, client_vars
<1>2. n \in Nat \ {0} /\ n \in 1..n /\ Top = stack[n] /\ Top.client \in Live
  BY <1>1, TopProperties DEF StackInv
<1>3. PICK f \in FrameId : f = Top.frame /\ frame[f].state = "adding"
  BY <1>1, <1>2 DEF StackInv
<1>4. /\ stack' \in Seq(HandlerRecord) /\ Len(stack') = n
      /\ \A i \in 1..(n - 1) : stack'[i] = stack[i]
      /\ stack'[n] = [client |-> Top.client, frame |-> 0, at |-> "reply"]
  <2>1. TypeOK /\ 0 \in {0} \cup FrameId
    OBVIOUS
  <2>2. /\ TopAt("reply", 0) \in Seq(HandlerRecord)
        /\ Len(TopAt("reply", 0)) = Len(stack)
        /\ \A i \in 1..(Len(stack) - 1) : TopAt("reply", 0)[i] = stack[i]
        /\ TopAt("reply", 0)[Len(stack)]
              = [client |-> Top.client, frame |-> 0, at |-> "reply"]
    BY <1>1, <2>1, StackTop
  <2> QED
    BY <1>1, <2>2
<1>5. stack'[n].client = Top.client /\ stack'[n].at = "reply"
  BY <1>4
<1>6. \A i \in 1..n : i \in 1..(n - 1) \/ i = n
  BY <1>2
<1>7. \A i \in 1..(n - 1) : i \in 1..n /\ i # n
  BY <1>2
<1>8. /\ frame' \in [FrameId -> FrameRecord]
      /\ frame'[f].state = "queued" /\ frame'[f].src = frame[f].src
      /\ \A g \in FrameId \ {f} : frame'[g] = frame[g]
  BY <1>1, <1>3 DEF TypeOK, FrameRecord
<1>9. TypeOK'
  BY <1>1, <1>4, <1>8 DEF TypeOK
<1>10. NotifyCounted' /\ ListsInv' /\ Live' = Live
  BY <1>1 DEF NotifyCounted, ListsInv, Live
<1>11. cb.phase \in {"notify", "deliver", "clone", "info", "done"} =>
          cb.frame \in FrameId \ {f}
  BY <1>3 DEF CallbackInv
<1>12. CallbackInv'
  BY <1>1, <1>8, <1>10, <1>11 DEF CallbackInv
<1>13. StackInv'
  <2>1. ASSUME NEW i \in 1..(n - 1), stack[i].at = "request"
        PROVE  stack[i].frame \in FrameId \ {f}
    BY <1>1, <1>2, <1>3, <1>7, <2>1 DEF StackInv
  <2>2. \A i \in 1..n :
           /\ stack'[i].client \in Live
           /\ stack'[i].at = "request" =>
                stack'[i].frame \in FrameId /\ frame'[stack'[i].frame].state = "adding"
    <3> SUFFICES ASSUME NEW i \in 1..n
                 PROVE  /\ stack'[i].client \in Live
                        /\ stack'[i].at = "request" =>
                              /\ stack'[i].frame \in FrameId
                              /\ frame'[stack'[i].frame].state = "adding"
      OBVIOUS
    <3>1. CASE i = n
      BY <3>1, <1>2, <1>5
    <3>2. CASE i # n
      <4>1. i \in 1..(n - 1)
        BY <3>2, <1>6
      <4>2. stack'[i] = stack[i]
        BY <4>1, <1>4
      <4>3. /\ stack[i].client \in Live
            /\ stack[i].at = "request" =>
                  stack[i].frame \in FrameId /\ frame[stack[i].frame].state = "adding"
        BY DEF StackInv
      <4> QED
        BY <4>1, <4>2, <4>3, <2>1, <1>8
    <3> QED
      BY <3>1, <3>2
  <2>3. \A i, k \in 1..n :
           /\ stack'[i].at = "request" /\ stack'[k].at = "request"
           /\ stack'[i].frame = stack'[k].frame
           => i = k
    BY <1>4, <1>5, <1>6, <1>7 DEF StackInv
  <2>4. ASSUME cb.phase # "undefined", NEW g \in FrameId, frame'[g].state = "adding"
        PROVE  \E i \in 1..n : stack'[i].at = "request" /\ stack'[i].frame = g
    <3>1. g # f
      BY <1>8, <2>4
    <3>2. PICK i \in 1..n : stack[i].at = "request" /\ stack[i].frame = g
      BY <1>8, <2>4, <3>1 DEF StackInv
    <3>3. i \in 1..(n - 1)
      BY <1>2, <1>3, <1>6, <3>1, <3>2
    <3> QED
      BY <1>4, <1>7, <3>2, <3>3
  <2>5. \A i \in 1..(n - 1) :
           stack'[i].at = "call" \/
           (ctrl' /\ stack'[i].at \in {"sync", "request", "kick"})
    BY <1>1, <1>4 DEF StackInv, Waits
  <2> QED
    BY <1>1, <1>4, <1>10, <2>2, <2>3, <2>4, <2>5 DEF StackInv, Waits
<1>14. ASSUME OwnersInv
       PROVE  OwnersInv'
  <2>1. \A g \in FrameId : frame'[g].state \in {"adding", "queued"} =>
           frame'[g].src \in connected
    BY <1>3, <1>8, <1>14 DEF OwnersInv
  <2>2. cb.phase \in {"deliver", "clone", "info"} => frame'[cb.frame].src \in Live
    BY <1>8, <1>11, <1>14 DEF OwnersInv
  <2>3. \A i \in 1..n : stack'[i].at \in {"sync", "next"} =>
           stack'[i].client \in connected
    BY <1>4, <1>5, <1>6, <1>7, <1>14 DEF OwnersInv
  <2> QED
    BY <1>1, <1>4, <1>10, <1>14, <2>1, <2>2, <2>3 DEF OwnersInv
<1> QED
  BY <1>9, <1>10, <1>12, <1>13, <1>14

(***************************************************************************)
(* The handlers that stay on the stack when a client is removed: all of    *)
(* them or all but the one whose response failed.  They wait.              *)
(***************************************************************************)
Remaining(handlers) ==
    \/ handlers = stack /\ Polling
    \/ handlers = Popped /\ stack # <<>> /\ Top.at = "reply"

LEMMA RemainingProperties ==
    ASSUME IInv, NEW handlers, Remaining(handlers)
    PROVE  /\ handlers \in Seq(HandlerRecord)
           /\ Len(handlers) \in Nat
           /\ \A i \in 1..Len(handlers) :
                 /\ i \in 1..Len(stack) /\ handlers[i] = stack[i]
                 /\ Waits(handlers[i])
           /\ \A i \in 1..Len(stack) :
                 stack[i].at = "request" => i \in 1..Len(handlers)
           /\ cb.phase # "undefined"
           /\ handlers # <<>> => cb.phase = "idle" \/ cb.wait # "none"
<1> USE DEF IInv
<1> DEFINE n == Len(stack)
<1>1. n \in Nat /\ \A i \in 1..(n - 1) : Waits(stack[i])
  BY LenProperties DEF StackInv, TypeOK
<1>2. CASE handlers = stack /\ Polling
  <2>1. ASSUME stack # <<>>
        PROVE  \A i \in 1..n : Waits(stack[i])
    <3>1. Waits(stack[n])
      BY <2>1, <1>2 DEF Polling, Top
    <3> QED
      BY <1>1, <3>1
  <2>2. ASSUME stack = <<>>
        PROVE  \A i \in 1..n : Waits(stack[i])
    <3>1. n = 0
      BY <2>2
    <3> QED
      BY <3>1
  <2>3. cb.phase # "undefined" /\ (stack # <<>> => cb.phase = "idle" \/ cb.wait # "none")
    BY <1>2 DEF Polling, CallbackInv
  <2> QED
    BY <1>1, <1>2, <2>1, <2>2, <2>3 DEF TypeOK
<1>3. CASE handlers = Popped /\ stack # <<>> /\ Top.at = "reply"
  <2>1. n \in Nat \ {0} /\ Top = stack[n]
    BY <1>3, TopProperties
  <2>2. /\ handlers \in Seq(HandlerRecord) /\ Len(handlers) = n - 1
        /\ \A i \in 1..(n - 1) : handlers[i] = stack[i]
    BY <1>3, StackPopped
  <2>3. \A i \in 1..(n - 1) : i \in 1..n
    BY <2>1
  <2>4. \A i \in 1..n : stack[i].at = "request" => i \in 1..(n - 1)
    BY <1>3, <2>1
  <2>5. cb.phase # "undefined" /\ (cb.phase = "idle" \/ cb.wait # "none")
    BY <1>3 DEF CallbackInv
  <2>6. n - 1 \in Nat
    BY <2>1
  <2> QED
    BY <1>1, <2>2, <2>3, <2>4, <2>5, <2>6
<1> QED
  BY <1>2, <1>3 DEF Remaining

(***************************************************************************)
(* A client is removed, at any moment at which its handlers may run.       *)
(***************************************************************************)
LEMMA RemoveIInv ==
    ASSUME IInv, NEW c \in connected, remove_client(c),
           clients_to_free' = ListAdd(clients_to_free, c),
           Remaining(stack')
    PROVE  /\ IInv'
           /\ OwnersInv /\ (\A i \in 1..Len(stack') : ~Stores(stack'[i], c))
                 => OwnersInv'
<1> USE DEF IInv
<1>1. /\ connected' = connected \ {c}
      /\ clients' = ListDel(clients, c)
      /\ need_start_notify' = need_start_notify - Counts(flags[c])
      /\ station_client' = [s \in Station |->
            IF station_client[s] = c THEN None ELSE station_client[s]]
      /\ frame' = [f \in FrameId |->
            IF frame[f].state = "queued" /\ frame[f].src = c
            THEN Gone ELSE frame[f]]
      /\ wait_for_ack' = [wait_for_ack EXCEPT ![c] = FALSE]
      /\ steady' \subseteq Client
      /\ UNCHANGED <<flags, ctrl, cb, got>>
  BY DEF remove_client, TypeOK
<1>2. c \in Client /\ connected \subseteq Client
  BY DEF TypeOK
<1>3. /\ stack' \in Seq(HandlerRecord)
      /\ \A i \in 1..Len(stack') :
            /\ i \in 1..Len(stack) /\ stack'[i] = stack[i]
            /\ Waits(stack'[i])
      /\ \A i \in 1..Len(stack) :
            stack[i].at = "request" => i \in 1..Len(stack')
      /\ cb.phase # "undefined"
      /\ stack' # <<>> => cb.phase = "idle" \/ cb.wait # "none"
  BY RemainingProperties
<1>4. /\ clients' \in Seq(Client)
      /\ Members(clients') = Members(clients) \ {c}
      /\ NoDuplicates(clients')
  BY <1>1, ListDelProperties DEF TypeOK, ListsInv
<1>5. /\ clients_to_free' \in Seq(Client)
      /\ Members(clients_to_free') = Members(clients_to_free) \cup {c}
  BY <1>2, ListAddProperties DEF TypeOK
<1>6. Live' = Live
  BY <1>1, <1>5 DEF Live
<1>7. /\ frame' \in [FrameId -> FrameRecord]
      /\ \A f \in FrameId : frame'[f] = frame[f]
            \/ (frame[f].state = "queued" /\ frame'[f].state = "gone")
      /\ \A f \in FrameId : frame'[f].state = "queued" => frame[f].src # c
  BY <1>1 DEF TypeOK, FrameRecord, Gone, NoFrame
<1>8. /\ need_start_notify' = Cardinality(Notified \ {c})
      /\ need_start_notify' \in Nat
  BY <1>1, <1>2, NotifiedOut
<1>9. NotifyCounted'
  <2>1. {d \in connected' : "notify" \in flags'[d]} = Notified \ {c}
    BY <1>1 DEF Notified
  <2> QED
    BY <1>8, <2>1 DEF NotifyCounted
<1>10. TypeOK'
  <2>1. station_client' \in [Station -> Client \cup {None}]
    BY <1>1 DEF TypeOK
  <2>2. wait_for_ack' \in [Client -> BOOLEAN] /\ connected' \subseteq Client
    BY <1>1 DEF TypeOK
  <2> QED
    BY <1>1, <1>3, <1>4, <1>5, <1>7, <1>8, <2>1, <2>2 DEF TypeOK
<1>11. ListsInv'
  BY <1>1, <1>4, <1>5 DEF ListsInv
<1>12. CallbackInv'
  BY <1>1, <1>3, <1>6, <1>7 DEF CallbackInv
<1>13. StackInv'
  <2>1. \A i \in 1..Len(stack') :
           /\ stack'[i].client \in Live
           /\ stack'[i].at = "request" =>
                stack'[i].frame \in FrameId /\ frame'[stack'[i].frame].state = "adding"
    BY <1>3, <1>7 DEF StackInv
  <2>2. \A i, k \in 1..Len(stack') :
           /\ stack'[i].at = "request" /\ stack'[k].at = "request"
           /\ stack'[i].frame = stack'[k].frame
           => i = k
    BY <1>3 DEF StackInv
  <2>3. ASSUME NEW g \in FrameId, frame'[g].state = "adding"
        PROVE  \E i \in 1..Len(stack') :
                  stack'[i].at = "request" /\ stack'[i].frame = g
    <3>1. frame[g].state = "adding"
      BY <1>7, <2>3
    <3>2. PICK i \in 1..Len(stack) : stack[i].at = "request" /\ stack[i].frame = g
      BY <1>3, <3>1 DEF StackInv
    <3> QED
      BY <1>3, <3>2
  <2>4. \A i \in 1..(Len(stack') - 1) : i \in 1..Len(stack')
    BY <1>3, LenProperties
  <2>5. \A i \in 1..(Len(stack') - 1) :
           stack'[i].at = "call" \/
           (ctrl' /\ stack'[i].at \in {"sync", "request", "kick"})
    BY <1>1, <1>3, <2>4 DEF Waits
  <2> QED
    BY <1>6, <2>1, <2>2, <2>3, <2>5 DEF StackInv, Waits
<1>14. ASSUME OwnersInv, \A i \in 1..Len(stack') : ~Stores(stack'[i], c)
       PROVE  OwnersInv'
  <2>1. \A s \in Station : station_client'[s] \in connected' \cup {None}
    BY <1>1, <1>14 DEF OwnersInv
  <2>2. ASSUME NEW f \in FrameId, frame'[f].state \in {"adding", "queued"}
        PROVE  frame'[f].src \in connected'
    <3>1. frame'[f] = frame[f]
      BY <1>7, <2>2
    <3>2. frame[f].src \in connected
      BY <1>14, <2>2, <3>1 DEF OwnersInv
    <3>3. CASE frame[f].state = "adding"
      <4>1. PICK i \in 1..Len(stack) : stack[i].at = "request" /\ stack[i].frame = f
        BY <1>3, <3>3 DEF StackInv
      <4>2. i \in 1..Len(stack') /\ stack'[i] = stack[i]
        BY <1>3, <4>1
      <4>3. frame[f].src # c
        BY <1>14, <4>1, <4>2 DEF Stores
      <4> QED
        BY <1>1, <3>1, <3>2, <4>3
    <3>4. CASE frame[f].state = "queued"
      BY <1>1, <1>7, <3>1, <3>2, <3>4
    <3> QED
      BY <2>2, <3>1, <3>3, <3>4
  <2>3. cb.phase \in {"deliver", "clone", "info"} => frame'[cb.frame].src \in Live
    <3>1. cb.phase \in {"deliver", "clone", "info"} =>
             cb.frame \in FrameId /\ frame[cb.frame].state = "delivering"
      BY DEF CallbackInv
    <3> QED
      BY <1>7, <1>14, <3>1 DEF OwnersInv
  <2>4. ASSUME NEW i \in 1..Len(stack'), stack'[i].at \in {"sync", "next"}
        PROVE  stack'[i].client \in connected'
    <3>1. stack'[i].at = "sync"
      BY <1>3, <2>4 DEF Waits
    <3>2. stack'[i].client # c
      BY <1>14, <3>1 DEF Stores
    <3>3. stack'[i].client \in connected
      BY <1>3, <1>14, <2>4 DEF OwnersInv
    <3> QED
      BY <1>1, <3>2, <3>3
  <2> QED
    BY <1>1, <1>6, <2>1, <2>2, <2>3, <2>4 DEF OwnersInv
<1> QED
  BY <1>9, <1>10, <1>11, <1>12, <1>13, <1>14

(***************************************************************************)
(* The departures of the code: a socket is closed, a response fails.       *)
(***************************************************************************)
LEMMA LeaveIInv ==
    ASSUME IInv, (\E c \in Client : RemoveClient(c)) \/ RespondFails
    PROVE  IInv' /\ (OwnersInv /\ Departures # "any" => OwnersInv')
<1> USE DEF IInv
<1>1. PICK c \in connected :
         /\ remove_client(c) /\ MayLeave(c, stack')
         /\ clients_to_free' = ListAdd(clients_to_free, c)
         /\ Remaining(stack')
  <2>1. CASE RespondFails
    <3>1. Top.client \in connected
      BY <2>1 DEF RespondFails
    <3> QED
      BY <2>1, <3>1 DEF RespondFails, Remaining
  <2>2. CASE \E c \in Client : RemoveClient(c)
    <3>1. PICK c \in Client : RemoveClient(c)
      BY <2>2
    <3>2. c \in connected /\ stack' = stack /\ Polling /\ MayLeave(c, stack)
      BY <3>1 DEF RemoveClient
    <3> QED
      BY <3>1, <3>2 DEF RemoveClient, Remaining
  <2> QED
    BY <2>1, <2>2
<1>2. Departures # "any" => \A i \in 1..Len(stack') : ~Stores(stack'[i], c)
  BY <1>1 DEF MayLeave, Members
<1> QED
  BY <1>1, <1>2, RemoveIInv

(***************************************************************************)
(* The removed clients are freed when nothing is on the stack.             *)
(***************************************************************************)
LEMMA FreeIInv ==
    ASSUME IInv, FreeClients
    PROVE  IInv' /\ (OwnersInv => OwnersInv')
<1> USE DEF IInv
<1>1. /\ cb.phase = "idle" /\ stack = <<>> /\ clients_to_free' = <<>>
      /\ UNCHANGED <<clients, connected, flags, wait_for_ack, need_start_notify,
                     station_client, frame, ctrl, cb, stack, got, steady>>
  BY DEF FreeClients
<1>2. Len(clients_to_free') = 0 /\ Len(stack) = 0
  BY <1>1
<1>3. Members(clients_to_free') = {}
  BY <1>2 DEF Members
<1>4. TypeOK'
  BY <1>1 DEF TypeOK
<1>5. NotifyCounted' /\ ListsInv'
  BY <1>1, <1>3 DEF NotifyCounted, ListsInv
<1>6. CallbackInv'
  BY <1>1 DEF CallbackInv
<1>7. StackInv'
  BY <1>1, <1>2 DEF StackInv
<1>8. OwnersInv => OwnersInv'
  BY <1>1, <1>2 DEF OwnersInv
<1> QED
  BY <1>4, <1>5, <1>6, <1>7, <1>8
-----------------------------------------------------------------------------
(* The callbacks.                                                          *)

(***************************************************************************)
(* A callback is called, by the main loop with nothing else on the stack.  *)
(***************************************************************************)
LEMMA BeginIInv ==
    ASSUME IInv, NEW f \in FrameId, NotifyFrameStart(f) \/ DeliverFrame(f)
    PROVE  IInv' /\ (OwnersInv => OwnersInv')
<1> USE DEF IInv
<1>1. /\ stack = <<>> /\ cb.phase = "idle" /\ frame[f].state = "queued"
      /\ UNCHANGED <<clients, clients_to_free, connected, flags,
                     need_start_notify, station_client, wait_for_ack, ctrl,
                     stack, got, steady>>
  BY DEF NotifyFrameStart, DeliverFrame, client_vars, Returned
<1>2. /\ cb' \in CallbackRecord /\ cb'.frame = f
      /\ cb'.cursor = End /\ cb'.tmp = End
      /\ \/ /\ cb'.phase = "notify" /\ cb'.wait = "sync"
            /\ frame' = [frame EXCEPT ![f].start = FALSE]
         \/ /\ cb'.phase = "deliver" /\ cb'.wait = "none"
            /\ frame' = [frame EXCEPT ![f].state = "delivering"]
  <2>1. CASE NotifyFrameStart(f)
    BY <2>1 DEF NotifyFrameStart, NoCallback, CallbackRecord
  <2>2. CASE DeliverFrame(f)
    BY <2>2 DEF DeliverFrame, NoCallback, CallbackRecord
  <2> QED
    BY <2>1, <2>2
<1>3. /\ frame' \in [FrameId -> FrameRecord]
      /\ frame'[f].state = IF cb'.phase = "notify" THEN "queued" ELSE "delivering"
      /\ frame'[f].src = frame[f].src
      /\ \A g \in FrameId \ {f} : frame'[g] = frame[g]
  <2>1. frame[f] \in FrameRecord
    BY DEF TypeOK
  <2>2. CASE cb'.phase = "notify"
    <3>1. frame' = [frame EXCEPT ![f].start = FALSE]
      BY <1>2, <2>2
    <3> QED
      BY <1>1, <2>1, <2>2, <3>1 DEF TypeOK, FrameRecord
  <2>3. CASE cb'.phase # "notify"
    <3>1. frame' = [frame EXCEPT ![f].state = "delivering"]
      BY <1>2, <2>3
    <3> QED
      BY <1>1, <2>1, <2>3, <3>1 DEF TypeOK, FrameRecord
  <2> QED
    BY <2>2, <2>3
<1>4. Len(stack) = 0 /\ Live' = Live
  BY <1>1 DEF Live
<1>5. TypeOK'
  BY <1>1, <1>2, <1>3 DEF TypeOK
<1>6. NotifyCounted' /\ ListsInv'
  BY <1>1 DEF NotifyCounted, ListsInv
<1>7. CallbackInv'
  BY <1>1, <1>2, <1>3 DEF CallbackInv
<1>8. \A g \in FrameId : frame[g].state # "adding"
  BY <1>1, <1>4 DEF StackInv
<1>9. StackInv'
  <2>1. \A g \in FrameId : frame'[g].state # "adding"
    BY <1>3, <1>8
  <2> QED
    BY <1>1, <1>4, <2>1 DEF StackInv
<1>10. ASSUME OwnersInv
       PROVE  OwnersInv'
  <2>1. frame[f].src \in connected
    BY <1>1, <1>10 DEF OwnersInv
  <2>2. \A g \in FrameId : frame'[g].state \in {"adding", "queued"} =>
           frame'[g].src \in connected
    BY <1>3, <1>10, <2>1 DEF OwnersInv
  <2>3. frame'[f].src \in Live
    BY <1>3, <2>1 DEF Live
  <2> QED
    BY <1>1, <1>2, <1>4, <1>10, <2>2, <2>3 DEF OwnersInv
<1> QED
  BY <1>5, <1>6, <1>7, <1>9, <1>10

(***************************************************************************)
(* Steps of the callback itself, but its end: they leave the clients, the  *)
(* frames and the stack, which is empty.                                   *)
(***************************************************************************)
WalkStep ==
    /\ UNCHANGED <<client_vars, frame, ctrl, stack>>
    /\ stack = <<>>
    /\ cb' \in CallbackRecord /\ cb'.frame = cb.frame
    /\ \/ cb'.phase = cb.phase
       \/ cb.phase = "deliver" /\ cb'.phase \in {"clone", "info"}
       \/ cb.phase = "clone" /\ cb'.phase = "deliver"
       \/ cb.phase = "info" /\ cb'.phase = "done"
    /\ cb.phase \notin {"idle", "undefined"}
    /\ cb'.phase \in {"notify", "deliver", "clone"} =>
          {cb'.cursor, cb'.tmp} \subseteq Live \cup {End, Stray}
    /\ cb'.wait # "none" => cb'.phase \in {"notify", "clone", "info"}
    /\ wait_for_ack' \in [Client -> BOOLEAN]
    /\ got' \in [Client -> 0..2]
    /\ steady' \subseteq Client

LEMMA WalkStepKeeps ==
    ASSUME IInv, WalkStep
    PROVE  IInv' /\ (OwnersInv => OwnersInv')
<1> USE DEF IInv
<1>1. /\ UNCHANGED <<clients, clients_to_free, connected, flags,
                     need_start_notify, station_client, frame, ctrl, stack>>
      /\ stack = <<>> /\ Len(stack) = 0 /\ Live' = Live
  BY DEF WalkStep, client_vars, Live
<1>2. TypeOK'
  BY <1>1 DEF TypeOK, WalkStep
<1>3. NotifyCounted' /\ ListsInv'
  BY <1>1 DEF NotifyCounted, ListsInv
<1>4. CallbackInv'
  BY <1>1 DEF CallbackInv, WalkStep
<1>5. StackInv'
  BY <1>1 DEF StackInv, WalkStep
<1>6. OwnersInv => OwnersInv'
  BY <1>1 DEF OwnersInv, WalkStep
<1> QED
  BY <1>2, <1>3, <1>4, <1>5, <1>6

LEMMA CopiedType ==
    ASSUME TypeOK, NEW c \in Client
    PROVE  Copied(c) \in [Client -> 0..2]
BY DEF TypeOK, Copied

(***************************************************************************)
(* Every step of a callback but the last is such a step.                   *)
(***************************************************************************)
LEMMA CallbackSteps ==
    ASSUME IInv, Callback, ~CallbackEnds
    PROVE  WalkStep
<1> USE DEF IInv
<1>1. cb \in CallbackRecord /\ wait_for_ack \in [Client -> BOOLEAN]
      /\ got \in [Client -> 0..2] /\ steady \subseteq Client
  BY DEF TypeOK
<1>2. /\ Walking => cb.cursor \in Live /\ cb.cursor \in Client
      /\ cb.phase \in {"notify", "clone"} =>
            {cb.cursor, cb.tmp} \subseteq Live \cup {End, Stray}
  BY <1>1, MembersAreClients DEF CallbackInv, Walking, Running, CallbackRecord
<1>3. ASSUME NEW s \in Station, CloneTo(s)
      PROVE  WalkStep
  <2>1. /\ cb' \in CallbackRecord /\ cb'.frame = cb.frame
        /\ cb.phase = "deliver" /\ cb'.phase = "clone" /\ cb'.wait = "sync"
        /\ cb'.cursor = cb.cursor /\ cb'.tmp = cb.tmp
    BY <1>1, <1>3 DEF CloneTo, CallbackRecord
  <2>2. {cb.cursor, cb.tmp} \subseteq Live \cup {End, Stray}
    BY <2>1 DEF CallbackInv
  <2> QED
    BY <1>1, <1>3, <2>1, <2>2 DEF CloneTo, Running, Returned, WalkStep
<1>4. CASE BeginWalk
  <2> DEFINE r == [cb EXCEPT !.wait = "none"]
  <2>1. /\ r \in CallbackRecord /\ r.wait = "none" /\ r.phase = cb.phase
        /\ r.frame = cb.frame
    BY <1>1 DEF CallbackRecord
  <2>2. cb' = WalkFrom(r)
    BY <1>4 DEF BeginWalk
  <2> HIDE DEF r
  <2>3. /\ cb' \in CallbackRecord /\ cb'.wait = "none" /\ cb'.phase = cb.phase
        /\ cb'.frame = cb.frame
        /\ {cb'.cursor, cb'.tmp} \subseteq Live \cup {End, Stray}
    BY <2>1, <2>2, WalkFromLive
  <2>4. got' \in [Client -> 0..2] /\ steady' \subseteq Client
    BY <1>4, MembersAreClients DEF BeginWalk
  <2> QED
    BY <1>1, <1>4, <2>3, <2>4 DEF BeginWalk, Returned, WalkStep
<1>5. ASSUME cb' = Step(cb), cb.phase \in {"notify", "clone"}, stack = <<>>,
             UNCHANGED <<client_vars, wait_for_ack, frame, ctrl, stack, steady>>,
             got' \in [Client -> 0..2]
      PROVE  WalkStep
  <2>1. cb.tmp \in Live \cup {End, Stray}
    BY <1>2, <1>5
  <2>2. /\ cb' \in CallbackRecord /\ cb'.wait = "none" /\ cb'.phase = cb.phase
        /\ cb'.frame = cb.frame
        /\ {cb'.cursor, cb'.tmp} \subseteq Live \cup {End, Stray}
    BY <1>5, <2>1, StepLive
  <2> QED
    BY <1>1, <1>5, <2>2 DEF WalkStep
<1>6. CASE Skip \/ SendKernel
  <2>1. Walking /\ cb' = Step(cb)
        /\ UNCHANGED <<client_vars, wait_for_ack, frame, ctrl, stack, steady>>
        /\ (got' = got \/ got' = Copied(cb.cursor))
    BY <1>6 DEF Skip, SendKernel
  <2>2. got' \in [Client -> 0..2]
    BY <1>1, <1>2, <2>1, CopiedType
  <2> QED
    BY <1>5, <2>1, <2>2 DEF Walking, Running, Returned
<1>7. CASE SendApi \/ SendVhost
  <2>1. /\ Walking /\ cb.cursor \in Client
        /\ cb' = [cb EXCEPT !.wait = "ack", !.waiting = cb.cursor] \/
           cb' = [cb EXCEPT !.wait = "call", !.waiting = cb.cursor]
        /\ got' = Copied(cb.cursor)
        /\ wait_for_ack' = [wait_for_ack EXCEPT ![cb.cursor] = TRUE]
              \/ wait_for_ack' = wait_for_ack
        /\ UNCHANGED <<client_vars, frame, ctrl, stack, steady>>
    BY <1>2, <1>7 DEF SendApi, SendVhost
  <2>2. got' \in [Client -> 0..2] /\ wait_for_ack' \in [Client -> BOOLEAN]
    BY <1>1, <2>1, CopiedType
  <2>3. /\ cb' \in CallbackRecord /\ cb'.phase = cb.phase /\ cb'.frame = cb.frame
        /\ cb'.cursor = cb.cursor /\ cb'.tmp = cb.tmp
    BY <1>1, <2>1 DEF CallbackRecord
  <2> QED
    BY <1>1, <1>2, <2>1, <2>2, <2>3 DEF Walking, Running, Returned, WalkStep
<1>8. CASE WaitEnds
  <2>1. /\ stack = <<>> /\ cb.wait # "none"
        /\ cb.phase \in {"notify", "clone", "info"}
        /\ UNCHANGED <<client_vars, wait_for_ack, frame, ctrl, stack, got, steady>>
    BY <1>8 DEF WaitEnds, Returned, CallbackInv
  <2>2. CASE cb.phase = "info"
    <3>1. /\ cb' \in CallbackRecord /\ cb'.phase = "done" /\ cb'.wait = "none"
          /\ cb'.frame = cb.frame
      BY <1>1, <1>8, <2>2, PointerAssumption DEF WaitEnds, CallbackRecord
    <3> QED
      BY <1>1, <2>1, <2>2, <3>1 DEF WalkStep
  <2>3. CASE cb.phase # "info"
    BY <1>1, <1>5, <1>8, <2>1, <2>3 DEF WaitEnds
  <2> QED
    BY <2>2, <2>3
<1>9. CASE CloneEnds
  <2>1. /\ cb' \in CallbackRecord /\ cb.phase = "clone" /\ cb'.phase = "deliver"
        /\ cb'.wait = "none" /\ cb'.frame = cb.frame
        /\ cb'.cursor = End /\ cb'.tmp = End
    BY <1>1, <1>9 DEF CloneEnds, Running, CallbackRecord
  <2> QED
    BY <1>1, <1>9, <2>1 DEF CloneEnds, Running, Returned, ForgetWalk, WalkStep
<1>10. CASE TxInfo
  <2>1. /\ cb' \in CallbackRecord /\ cb.phase = "deliver" /\ cb'.phase = "info"
        /\ cb'.wait = "sync" /\ cb'.frame = cb.frame
    BY <1>1, <1>10 DEF TxInfo, CallbackRecord
  <2> QED
    BY <1>1, <1>10, <2>1 DEF TxInfo, Running, Returned, WalkStep
<1>11. CASE SendTxInfo
  <2> DEFINE src == frame[cb.frame].src
  <2>1. /\ cb.phase = "info" /\ stack = <<>>
        /\ UNCHANGED <<client_vars, frame, ctrl, stack, got, steady>>
        /\ \/ /\ src \in Api
              /\ wait_for_ack' = [wait_for_ack EXCEPT ![src] = TRUE]
              /\ cb' = [cb EXCEPT !.wait = "ack", !.waiting = src]
           \/ /\ src \in Vhost /\ wait_for_ack' = wait_for_ack
              /\ cb' = [cb EXCEPT !.wait = "call", !.waiting = src]
           \/ /\ wait_for_ack' = wait_for_ack
              /\ cb' = [cb EXCEPT !.phase = "done", !.wait = "none"]
    BY <1>11 DEF SendTxInfo, Returned
  <2> HIDE DEF src
  <2>2. wait_for_ack' \in [Client -> BOOLEAN]
    BY <1>1, <2>1
  <2>3. ASSUME NEW w \in {"ack", "call"}, src \in Client,
               cb' = [cb EXCEPT !.wait = w, !.waiting = src]
        PROVE  cb' \in CallbackRecord /\ cb'.frame = cb.frame /\ cb'.phase = "info"
    BY <1>1, <2>1, <2>3 DEF CallbackRecord
  <2>4. ASSUME cb' = [cb EXCEPT !.phase = "done", !.wait = "none"]
        PROVE  /\ cb' \in CallbackRecord /\ cb'.frame = cb.frame
               /\ cb'.phase = "done" /\ cb'.wait = "none"
    BY <1>1, <2>4 DEF CallbackRecord
  <2>5. /\ cb' \in CallbackRecord /\ cb'.frame = cb.frame
        /\ cb'.phase = "info" \/ (cb'.phase = "done" /\ cb'.wait = "none")
    <3>1. CASE src \in Api \cup Vhost
                /\ \E w \in {"ack", "call"} :
                      cb' = [cb EXCEPT !.wait = w, !.waiting = src]
      <4>1. src \in Client
        BY <3>1 DEF Client
      <4> QED
        BY <2>3, <3>1, <4>1
    <3>2. CASE cb' = [cb EXCEPT !.phase = "done", !.wait = "none"]
      BY <2>4, <3>2
    <3> QED
      BY <2>1, <3>1, <3>2
  <2> QED
    BY <1>1, <2>1, <2>2, <2>5 DEF WalkStep
<1> QED
  BY <1>3, <1>4, <1>6, <1>7, <1>8, <1>9, <1>10, <1>11 DEF Callback

(***************************************************************************)
(* The callback returns.                                                   *)
(***************************************************************************)
LEMMA CallbackEndsIInv ==
    ASSUME IInv, CallbackEnds
    PROVE  IInv' /\ (OwnersInv => OwnersInv')
<1> USE DEF IInv
<1>1. /\ stack = <<>> /\ cb' = NoCallback /\ clients_to_free' = <<>>
      /\ UNCHANGED <<clients, connected, flags, wait_for_ack, need_start_notify,
                     station_client, ctrl, stack>>
      /\ got' = [c \in Client |-> 0] /\ steady' = {}
      /\ \/ frame' = frame
         \/ frame' = [frame EXCEPT ![cb.frame] = Gone]
  BY DEF CallbackEnds, Running, Returned, ForgetWalk
<1>2. Len(clients_to_free') = 0 /\ Len(stack) = 0
  BY <1>1
<1>3. Members(clients_to_free') = {}
  BY <1>2 DEF Members
<1>4. /\ frame' \in [FrameId -> FrameRecord]
      /\ \A g \in FrameId : frame'[g] = frame[g] \/ frame'[g].state = "gone"
  <2>1. Gone \in FrameRecord /\ Gone.state = "gone"
    BY DEF FrameRecord, Gone, NoFrame
  <2> QED
    BY <1>1, <2>1 DEF TypeOK
<1>5. cb' \in CallbackRecord /\ cb'.phase = "idle" /\ cb'.wait = "none"
  BY <1>1 DEF NoCallback, CallbackRecord
<1>6. TypeOK'
  BY <1>1, <1>4, <1>5 DEF TypeOK
<1>7. NotifyCounted' /\ ListsInv'
  BY <1>1, <1>3 DEF NotifyCounted, ListsInv
<1>8. CallbackInv'
  BY <1>1, <1>5 DEF CallbackInv
<1>9. StackInv'
  <2>1. ASSUME NEW g \in FrameId
        PROVE  frame'[g].state # "adding"
    <3>1. cb.phase # "undefined"
      BY DEF CallbackEnds, Running
    <3>2. frame[g].state # "adding"
      BY <1>2, <3>1 DEF StackInv
    <3> QED
      BY <1>4, <3>2
  <2> QED
    BY <1>1, <1>2, <2>1 DEF StackInv
<1>10. OwnersInv => OwnersInv'
  BY <1>1, <1>2, <1>4, <1>5 DEF OwnersInv
<1> QED
  BY <1>6, <1>7, <1>8, <1>9, <1>10

(***************************************************************************)
(* After undefined behaviour nothing happens any more.                     *)
(***************************************************************************)
LEMMA UndefinedIInv ==
    ASSUME IInv, Undefined
    PROVE  IInv' /\ (OwnersInv => OwnersInv')
<1> USE DEF IInv
<1>1. /\ cb' = [NoCallback EXCEPT !.phase = "undefined"] /\ stack' = <<>>
      /\ UNCHANGED <<clients, clients_to_free, connected, flags,
                     need_start_notify, station_client, wait_for_ack, frame,
                     ctrl, got, steady>>
  BY DEF Undefined, client_vars
<1>2. Len(stack') = 0 /\ stack' \in Seq(HandlerRecord) /\ Live' = Live
  BY <1>1 DEF Live
<1>3. cb' \in CallbackRecord /\ cb'.phase = "undefined" /\ cb'.wait = "none"
  BY <1>1 DEF NoCallback, CallbackRecord
<1>4. TypeOK'
  BY <1>1, <1>2, <1>3 DEF TypeOK
<1>5. NotifyCounted' /\ ListsInv'
  BY <1>1 DEF NotifyCounted, ListsInv
<1>6. CallbackInv'
  BY <1>1, <1>3 DEF CallbackInv
<1>7. StackInv'
  BY <1>2, <1>3 DEF StackInv
<1>8. OwnersInv => OwnersInv'
  BY <1>1, <1>2, <1>3 DEF OwnersInv
<1> QED
  BY <1>4, <1>5, <1>6, <1>7, <1>8

(***************************************************************************)
(* Every step of the daemon.                                               *)
(***************************************************************************)
LEMMA NextIInv ==
    ASSUME IInv, [Next]_vars
    PROVE  IInv' /\ (OwnersInv /\ Departures # "any" => OwnersInv')
<1>1. ASSUME NEW c \in Client, Handler(c)
      PROVE  IInv' /\ (OwnersInv /\ Departures # "any" => OwnersInv')
  BY <1>1, ConnectIInv, RegisterIInv, SetControlIInv, LeaveIInv, StackOnlySteps,
     StackStepKeeps DEF Handler
<1>2. CASE Proceed
  BY <1>2, ProcessFrameIInv, QueueFrameIInv, LeaveIInv, StackOnlySteps,
     StackStepKeeps DEF Proceed
<1>3. CASE Callback
  BY <1>3, CallbackSteps, WalkStepKeeps, CallbackEndsIInv
<1>4. CASE UNCHANGED vars
  <2>1. UNCHANGED <<clients, clients_to_free, connected, flags, wait_for_ack,
                    need_start_notify, station_client, frame, ctrl, cb, stack,
                    got, steady>>
    BY <1>4 DEF vars
  <2>2. Live' = Live
    BY <2>1 DEF Live
  <2>3. TypeOK' /\ NotifyCounted' /\ ListsInv'
    BY <2>1 DEF IInv, TypeOK, NotifyCounted, ListsInv
  <2>4. CallbackInv' /\ StackInv' /\ (OwnersInv => OwnersInv')
    BY <2>1, <2>2 DEF IInv, CallbackInv, StackInv, OwnersInv, Waits
  <2> QED
    BY <2>3, <2>4 DEF IInv
<1> QED
  BY <1>1, <1>2, <1>3, <1>4, FreeIInv, BeginIInv, UndefinedIInv DEF Next

(***************************************************************************)
(* The inductive invariant, whenever clients leave: in the middle of a     *)
(* walk, of another handler's wait, or of a wait of their own handler.     *)
(***************************************************************************)
THEOREM Invariance == Spec => []IInv
<1>1. Init => IInv
  BY InitIInv
<1>2. IInv /\ [Next]_vars => IInv'
  BY NextIInv
<1> QED
  BY <1>1, <1>2, PTL DEF Spec

(***************************************************************************)
(* need_start_notify counts the connected clients that asked for TX_START, *)
(* whatever order of SET_CONTROL, UNREGISTER and departures led there.     *)
(***************************************************************************)
THEOREM NotifyCount == Spec => []NotifyCounted
<1>1. IInv => NotifyCounted
  BY DEF IInv
<1> QED
  BY Invariance, <1>1, PTL

(***************************************************************************)
(* If no client leaves while the medium is about to store a pointer to it, *)
(* between its message and the end of queue_frame(), then nothing that     *)
(* has been freed is reachable: not from a walk over the clients, a frame, *)
(* a station or a handler on the stack.                                    *)
(***************************************************************************)
THEOREM NothingDangling == Departures # "any" => (Spec => []ClientsInv)
<1> SUFFICES ASSUME Departures # "any"
             PROVE  Spec => []ClientsInv
  OBVIOUS
<1>1. Init => IInv /\ OwnersInv
  BY InitIInv
<1>2. (IInv /\ OwnersInv) /\ [Next]_vars => (IInv /\ OwnersInv)'
  BY NextIInv
<1>3. IInv /\ OwnersInv => ClientsInv
  <2> SUFFICES ASSUME IInv, OwnersInv
               PROVE  NoDanglingClient
    BY DEF IInv, ClientsInv
  <2>1. \A h \in Members(stack) : h.client \in Live
    BY DEF IInv, StackInv, Members
  <2> QED
    BY <2>1 DEF IInv, ListsInv, CallbackInv, OwnersInv, NoDanglingClient
<1> QED
  BY <1>1, <1>2, <1>3, PTL DEF Spec
-----------------------------------------------------------------------------
(* What a walk has still to visit: the saved entry and all behind it.      *)

Rest(list, c) ==
    IF c \in Members(list) THEN {list[k] : k \in PosOf(list, c)..Len(list)}
                           ELSE {}

LEMMA PosOfUnique ==
    ASSUME NEW list, NoDuplicates(list), NEW k \in 1..Len(list)
    PROVE  list[k] \in Members(list) /\ PosOf(list, list[k]) = k
<1>1. list[k] \in Members(list)
  BY DEF Members
<1> QED
  BY <1>1, PosOfMember DEF NoDuplicates

(***************************************************************************)
(* A member at position k is in the rest of c if k is not before c.        *)
(***************************************************************************)
LEMMA RestByPosition ==
    ASSUME NEW S, NEW list \in Seq(S), NoDuplicates(list),
           NEW i \in 1..Len(list), NEW k \in 1..Len(list)
    PROVE  list[k] \in Rest(list, list[i]) <=> i <= k
<1>1. Len(list) \in Nat
  BY LenProperties
<1>2. Rest(list, list[i]) = {list[j] : j \in i..Len(list)}
  BY PosOfUnique DEF Rest
<1>3. ASSUME i <= k
      PROVE  list[k] \in Rest(list, list[i])
  BY <1>1, <1>2, <1>3
<1>4. ASSUME list[k] \in Rest(list, list[i])
      PROVE  i <= k
  <2>1. PICK j \in i..Len(list) : list[k] = list[j]
    BY <1>2, <1>4
  <2>2. k = j
    BY <1>1, <2>1 DEF NoDuplicates
  <2> QED
    BY <1>1, <2>1, <2>2
<1> QED
  BY <1>3, <1>4

LEMMA RestAreMembers ==
    ASSUME NEW S, NEW list \in Seq(S), NEW c
    PROVE  Rest(list, c) \subseteq Members(list)
<1>1. ASSUME c \in Members(list)
      PROVE  PosOf(list, c) \in 1..Len(list) /\ Len(list) \in Nat
  BY <1>1, PosOfMember, LenProperties
<1> QED
  BY <1>1 DEF Rest, Members

(***************************************************************************)
(* A client that is added in front is not visited.                         *)
(***************************************************************************)
LEMMA RestOfListAdd ==
    ASSUME NEW S, NEW list \in Seq(S), NoDuplicates(list), NEW d \in S,
           d \notin Members(list), NEW c, c # d
    PROVE  Rest(ListAdd(list, d), c) = Rest(list, c)
<1> DEFINE new == ListAdd(list, d)
<1>1. /\ new \in Seq(S) /\ Len(new) = Len(list) + 1 /\ new[1] = d
      /\ \A i \in 1..Len(list) : new[i + 1] = list[i]
      /\ Members(new) = Members(list) \cup {d}
      /\ NoDuplicates(new)
  <2>1. IsListAdd(S, list, d, new)
    BY ListAddShifts
  <2>2. Members(new) = Members(list) \cup {d} /\ NoDuplicates(new)
    BY ListAddProperties
  <2> QED
    BY <2>1, <2>2 DEF IsListAdd
<1> HIDE DEF new
<1>2. Len(list) \in Nat
  BY LenProperties
<1>3. CASE c \notin Members(list)
  BY <1>1, <1>3 DEF Rest, new
<1>4. CASE c \in Members(list)
  <2>1. PICK i \in 1..Len(list) : c = list[i]
    BY <1>4 DEF Members
  <2>2. i + 1 \in 1..Len(new) /\ new[i + 1] = c
    BY <1>1, <1>2, <2>1
  <2>3. ASSUME NEW k \in 1..Len(list)
        PROVE  list[k] \in Rest(new, c) <=> list[k] \in Rest(list, c)
    <3>1. k + 1 \in 1..Len(new) /\ new[k + 1] = list[k]
      BY <1>1, <1>2
    <3>2. list[k] \in Rest(new, c) <=> i + 1 <= k + 1
      BY <1>1, <2>2, <3>1, RestByPosition
    <3>3. list[k] \in Rest(list, c) <=> i <= k
      BY <2>1, RestByPosition
    <3> QED
      BY <1>2, <3>2, <3>3
  <2>4. d \notin Rest(new, c)
    <3>1. 1 \in 1..Len(new) /\ ~(i + 1 <= 1)
      BY <1>1, <1>2
    <3> QED
      BY <1>1, <2>2, <3>1, RestByPosition
  <2>5. Rest(new, c) \subseteq Members(new) /\ Rest(list, c) \subseteq Members(list)
    BY <1>1, RestAreMembers
  <2>6. Rest(new, c) \subseteq Members(list)
    BY <1>1, <2>4, <2>5
  <2>7. \A x \in Members(list) : x \in Rest(new, c) <=> x \in Rest(list, c)
    BY <2>3 DEF Members
  <2> QED
    BY <2>5, <2>6, <2>7 DEF new
<1> QED
  BY <1>3, <1>4

(***************************************************************************)
(* Deleting another entry than the saved one takes it, and nothing else,   *)
(* from what is still to visit.                                            *)
(***************************************************************************)
LEMMA RestOfListDel ==
    ASSUME NEW S, NEW list \in Seq(S), NoDuplicates(list), NEW d, NEW c, c # d
    PROVE  Rest(ListDel(list, d), c) = Rest(list, c) \ {d}
<1> DEFINE new == ListDel(list, d)
           n   == Len(list)
<1>1. /\ new \in Seq(S)
      /\ Members(new) = Members(list) \ {d}
      /\ NoDuplicates(new)
  BY ListDelProperties
<1>2. CASE d \notin Members(list)
  <2>1. Rest(list, c) \subseteq Members(list)
    BY RestAreMembers
  <2> QED
    BY <1>2, <2>1 DEF ListDel
<1>3. CASE c \notin Members(list)
  BY <1>1, <1>3 DEF Rest
<1>4. CASE c \in Members(list) /\ d \in Members(list)
  <2> DEFINE p == PosOf(list, d)
  <2>1. p \in 1..n /\ list[p] = d /\ n \in Nat
    BY <1>4, PosOfMember, LenProperties
  <2> HIDE DEF p
  <2>2. IsRemoval(S, list, p, new)
    BY <1>4, <2>1, RemoveAtProperties DEF ListDel, p
  <2> HIDE DEF new
  <2>3. /\ Len(new) = n - 1
        /\ \A k \in 1..(n - 1) : new[k] = IF k < p THEN list[k] ELSE list[k + 1]
    BY <2>2 DEF IsRemoval
  <2> DEFINE New(i) == IF i < p THEN i ELSE i - 1
  <2>4. ASSUME NEW i \in 1..n, i # p
        PROVE  New(i) \in 1..Len(new) /\ new[New(i)] = list[i]
    <3>1. CASE i < p
      <4>1. i \in 1..(n - 1)
        BY <2>1, <3>1
      <4> QED
        BY <2>3, <3>1, <4>1
    <3>2. CASE ~(i < p)
      <4>1. i - 1 \in 1..(n - 1) /\ ~(i - 1 < p) /\ (i - 1) + 1 = i
        BY <2>1, <2>4, <3>2
      <4> QED
        BY <2>3, <3>2, <4>1
    <3> QED
      BY <3>1, <3>2
  <2>5. PICK i \in 1..n : c = list[i]
    BY <1>4 DEF Members
  <2>6. i # p
    BY <2>1, <2>5
  <2>7. ASSUME NEW k \in 1..n, k # p
        PROVE  list[k] \in Rest(new, c) <=> list[k] \in Rest(list, c)
    <3>1. list[k] \in Rest(new, c) <=> New(i) <= New(k)
      <4>1. New(i) \in 1..Len(new) /\ new[New(i)] = c
        BY <2>4, <2>5, <2>6
      <4>2. New(k) \in 1..Len(new) /\ new[New(k)] = list[k]
        BY <2>4, <2>7
      <4> HIDE DEF New
      <4> QED
        BY <1>1, <4>1, <4>2, RestByPosition
    <3>2. list[k] \in Rest(list, c) <=> i <= k
      BY <2>5, RestByPosition
    <3>3. New(i) <= New(k) <=> i <= k
      BY <2>1, <2>6, <2>7
    <3> QED
      BY <3>1, <3>2, <3>3
  <2>8. Rest(new, c) \subseteq Members(new) /\ Rest(list, c) \subseteq Members(list)
    BY <1>1, RestAreMembers
  <2>9. \A x \in Members(list) \ {d} : x \in Rest(new, c) <=> x \in Rest(list, c)
    BY <2>1, <2>7 DEF Members
  <2> QED
    BY <1>1, <2>8, <2>9 DEF new
<1> QED
  BY <1>2, <1>3, <1>4

(***************************************************************************)
(* A step of the walk visits the saved entry, and no client twice.         *)
(***************************************************************************)
LEMMA RestOfFollows ==
    ASSUME NEW S, NEW list \in Seq(S), NoDuplicates(list),
           NEW c \in Members(list), NEW head, head \notin Members(list)
    PROVE  /\ Rest(list, c) = {c} \cup Rest(list, Follows(list, c, head))
           /\ c \notin Rest(list, Follows(list, c, head))
<1> DEFINE n == Len(list)
           p == PosOf(list, c)
           next == Follows(list, c, head)
<1>1. p \in 1..n /\ list[p] = c /\ n \in Nat
  BY PosOfMember, LenProperties
<1>2. Rest(list, c) \subseteq Members(list) /\ Rest(list, next) \subseteq Members(list)
  BY RestAreMembers
<1>3. \A k \in 1..n : list[k] \in Rest(list, c) <=> p <= k
  BY <1>1, RestByPosition
<1>4. \A k \in 1..n : list[k] \in Rest(list, next) <=> p < k
  <2>1. CASE p = n
    <3>1. next = head /\ Rest(list, next) = {}
      BY <2>1 DEF Follows, Rest
    <3> QED
      BY <1>1, <2>1, <3>1
  <2>2. CASE p # n
    <3>1. next = list[p + 1] /\ p + 1 \in 1..n
      BY <1>1, <2>2 DEF Follows
    <3>2. \A k \in 1..n : list[k] \in Rest(list, next) <=> p + 1 <= k
      BY <3>1, RestByPosition
    <3> QED
      BY <1>1, <3>2
  <2> QED
    BY <2>1, <2>2
<1> HIDE DEF p, next
<1>5. \A k \in 1..n : list[k] = c <=> k = p
  BY <1>1 DEF NoDuplicates
<1>6. \A k \in 1..n : list[k] \in Rest(list, c)
                        <=> list[k] = c \/ list[k] \in Rest(list, next)
  BY <1>1, <1>3, <1>4, <1>5
<1>7. \A x \in Members(list) : x \in Rest(list, c)
                                <=> x = c \/ x \in Rest(list, next)
  BY <1>6 DEF Members
<1>8. c \notin Rest(list, next)
  BY <1>1, <1>4
<1> QED
  BY <1>2, <1>7, <1>8 DEF next

LEMMA RestOfFirst ==
    ASSUME NEW S, NEW list \in Seq(S), NoDuplicates(list), list # <<>>
    PROVE  list[1] \in Members(list) /\ Rest(list, list[1]) = Members(list)
<1>1. Len(list) \in Nat /\ 1 \in 1..Len(list)
  BY LenProperties
<1>2. \A k \in 1..Len(list) : list[k] \in Rest(list, list[1])
  BY <1>1, RestByPosition
<1>3. Rest(list, list[1]) \subseteq Members(list)
  BY RestAreMembers
<1> QED
  BY <1>1, <1>2, <1>3 DEF Members
-----------------------------------------------------------------------------
(* The walks when clients spare them (Departures = "safe").                *)

Walks == cb.phase \in {"notify", "clone"} /\ cb.wait # "sync"

\* the number of copies a client should have once the walk has passed it
Told(c) == IF Wants(c) THEN 1 ELSE 0

(***************************************************************************)
(* A walk in progress: the saved entry is on the list; what is still to    *)
(* visit has got nothing; the steady clients that were passed got what     *)
(* they want; the current client got nothing until it is waited for.       *)
(***************************************************************************)
WalkInv ==
    Walks =>
        /\ cb.tmp \in Members(clients) \cup {End}
        /\ steady \subseteq Members(clients)
        /\ \A c \in Rest(clients, cb.tmp) : got[c] = 0
        /\ \A c \in steady :
              c \notin Rest(clients, cb.tmp) /\ c # cb.cursor => got[c] = Told(c)
        /\ cb.wait = "none" =>
              /\ cb.cursor \in Members(clients) \cup {End}
              /\ cb.cursor \notin Rest(clients, cb.tmp)
              /\ cb.cursor = End => cb.tmp = End
              /\ cb.cursor # End => got[cb.cursor] = 0
        /\ cb.wait # "none" =>
              (cb.cursor \in steady => got[cb.cursor] = Told(cb.cursor))

(***************************************************************************)
(* The frame of the callback is not freed, and its source stays connected  *)
(* until the report is sent to it; so do the device that is called and the *)
(* clients whose handlers are on the stack.                                *)
(***************************************************************************)
HeldInv ==
    /\ cb.phase = "notify" => frame[cb.frame].state = "queued"
    /\ cb.phase \in {"deliver", "clone"} \/ cb.wait = "sync" =>
          frame[cb.frame].src \in connected
    /\ cb.wait = "call" => cb.waiting \in connected
    /\ \A i \in 1..Len(stack) : stack[i].client \in connected

(***************************************************************************)
(* The daemon neither aborts nor reads freed memory or the head of another *)
(* list.                                                                   *)
(***************************************************************************)
NeverUndefined == cb.phase # "undefined"

SafeInv ==
    /\ \A c \in Client : got[c] <= 1
    /\ WalkInv
    /\ Walks \/ (cb.cursor = End /\ cb.tmp = End)
    /\ cb.phase = "clone" => cb.dst \in Station
    /\ HeldInv
    /\ NeverUndefined

LEMMA InitSafeInv == Init => SafeInv
<1> SUFFICES ASSUME Init
             PROVE  SafeInv
  OBVIOUS
<1>1. Len(stack) = 0
  BY DEF Init
<1> QED
  BY <1>1 DEF Init, SafeInv, WalkInv, Walks, HeldInv, NeverUndefined, NoCallback

(***************************************************************************)
(* Handlers run while the walk waits.                                      *)
(***************************************************************************)
LEMMA WalkWaits ==
    ASSUME CallbackInv, Polling \/ stack # <<>>, Walks
    PROVE  cb.wait # "none"
BY DEF CallbackInv, Polling, Walks

(***************************************************************************)
(* They do not disturb it, if they leave the saved entry on the list and,  *)
(* for the steady clients, what is still to visit and who wants the        *)
(* message.                                                                *)
(***************************************************************************)
LEMMA WalkUndisturbed ==
    ASSUME IInv, WalkInv, Polling \/ stack # <<>>, cb' = cb, got' = got,
           Walks => /\ cb.tmp \in Members(clients') \cup {End}
                    /\ steady' \subseteq steady
                    /\ steady' \subseteq Members(clients')
                    /\ Rest(clients', cb.tmp) \subseteq Rest(clients, cb.tmp)
                    /\ steady' \cap Rest(clients, cb.tmp)
                          \subseteq Rest(clients', cb.tmp)
                    /\ \A c \in steady' : Told(c)' = Told(c)
    PROVE  WalkInv'
<1> SUFFICES ASSUME Walks
             PROVE  WalkInv'
  BY DEF WalkInv, Walks
<1>1. cb.wait # "none"
  BY WalkWaits DEF IInv
<1>2. /\ \A c \in Rest(clients, cb.tmp) : got[c] = 0
      /\ \A c \in steady :
            c \notin Rest(clients, cb.tmp) /\ c # cb.cursor => got[c] = Told(c)
      /\ cb.cursor \in steady => got[cb.cursor] = Told(cb.cursor)
  BY <1>1 DEF WalkInv
<1> HIDE DEF Told
<1>3. \A c \in steady' :
         c \notin Rest(clients', cb.tmp) /\ c # cb.cursor => got[c] = Told(c)'
  BY <1>2
<1>4. cb.cursor \in steady' => got[cb.cursor] = Told(cb.cursor)'
  BY <1>2
<1>5. \A c \in Rest(clients', cb.tmp) : got[c] = 0
  BY <1>2
<1>6. (Walks =>
        /\ cb.tmp \in Members(clients) \cup {End}
        /\ steady \subseteq Members(clients)
        /\ \A c \in Rest(clients, cb.tmp) : got[c] = 0
        /\ \A c \in steady :
              c \notin Rest(clients, cb.tmp) /\ c # cb.cursor => got[c] = Told(c)
        /\ cb.wait # "none" =>
              (cb.cursor \in steady => got[cb.cursor] = Told(cb.cursor)))'
  BY <1>1, <1>2, <1>3, <1>4, <1>5
<1> QED
  BY <1>1, <1>6 DEF WalkInv

(***************************************************************************)
(* Where list, flags and the receiver's client stay the same, so does who  *)
(* wants the message.                                                      *)
(***************************************************************************)
LEMMA ToldUnchanged ==
    ASSUME cb' = cb \/ (cb'.phase = cb.phase /\ cb'.dst = cb.dst), NEW c,
           flags'[c] = flags[c],
           cb.phase = "notify" \/ station_client'[cb.dst] = station_client[cb.dst]
    PROVE  Told(c)' = Told(c)
BY DEF Told, Wants

(***************************************************************************)
(* A client that is removed was not the saved entry.                       *)
(***************************************************************************)
LEMMA RemoveWalk ==
    ASSUME IInv, SafeInv, Polling \/ stack # <<>>, NEW c, remove_client(c),
           c # cb.tmp
    PROVE  WalkInv'
<1> USE DEF IInv
<1>1. /\ cb' = cb /\ got' = got
      /\ clients' = ListDel(clients, c) /\ flags' = flags
      /\ station_client' = [s \in Station |->
            IF station_client[s] = c THEN None ELSE station_client[s]]
      /\ steady' = IF cb.dst # None /\ station_client[cb.dst] = c
                   THEN {} ELSE steady \ {c}
  BY DEF remove_client
<1> SUFFICES ASSUME Walks
             PROVE  WalkInv'
  BY <1>1 DEF WalkInv, Walks
<1>2. /\ clients \in Seq(Client) /\ NoDuplicates(clients)
      /\ cb.tmp \in Members(clients) \cup {End}
      /\ steady \subseteq Members(clients)
      /\ cb.phase = "clone" => cb.dst \in Station
  BY DEF TypeOK, ListsInv, SafeInv, WalkInv
<1>3. /\ Members(clients') = Members(clients) \ {c}
      /\ Rest(clients', cb.tmp) = Rest(clients, cb.tmp) \ {c}
  BY <1>1, <1>2, ListDelProperties, RestOfListDel
<1>4. \A d \in steady' : Told(d)' = Told(d)
  <2> SUFFICES ASSUME NEW d \in steady'
               PROVE  Told(d)' = Told(d)
    OBVIOUS
  <2>1. cb.phase = "notify" \/ (cb.dst \in Station /\ cb.dst # None)
    BY <1>2, PointerAssumption DEF Walks
  <2>2. cb.phase = "notify" \/ station_client'[cb.dst] = station_client[cb.dst]
    BY <1>1, <2>1
  <2> QED
    BY <1>1, <2>2, ToldUnchanged
<1>5. steady' \subseteq steady \ {c}
  BY <1>1
<1> QED
  BY <1>1, <1>2, <1>3, <1>4, <1>5, WalkUndisturbed DEF SafeInv

(***************************************************************************)
(* No handler disturbs a walk.                                             *)
(***************************************************************************)
LEMMA HandlerWalk ==
    ASSUME IInv, SafeInv, Departures = "safe",
           Proceed \/ \E c \in Client : Handler(c)
    PROVE  WalkInv' /\ cb' = cb /\ got' = got
<1> USE DEF IInv, SafeInv
<1>1. Polling \/ stack # <<>>
  BY DEF Proceed, Handler, ApiConnected, VuConnected, Register, Unregister,
         SetControl, Ack, RemoveClient, NetlinkMessage, Kick, IrqJob, Polling,
         ProcessFrame, ProcessOther, QueueFrame, Respond, RespondFails,
         ReturnBuffer, Called, VirtqReturns
<1>2. /\ clients \in Seq(Client) /\ NoDuplicates(clients)
      /\ Members(clients) \subseteq connected
      /\ End \notin Client
  BY PointerAssumption DEF TypeOK, ListsInv
<1>3. Walks => /\ cb.tmp \in Members(clients) \cup {End}
               /\ steady \subseteq Members(clients)
  BY DEF WalkInv
<1>4. ASSUME NEW c \in Client, c \notin Members(clients), Walks
      PROVE  /\ Rest(ListAdd(clients, c), cb.tmp) = Rest(clients, cb.tmp)
             /\ Members(ListAdd(clients, c)) = Members(clients) \cup {c}
  <2>1. cb.tmp # c
    BY <1>2, <1>3, <1>4
  <2> QED
    BY <1>2, <1>4, <2>1, RestOfListAdd, ListAddProperties
<1>5. ASSUME NEW c \in Client, ApiConnected(c) \/ VuConnected(c)
      PROVE  WalkInv' /\ cb' = cb /\ got' = got
  <2>1. /\ c \notin connected /\ c \notin Members(clients)
        /\ flags' = [flags EXCEPT ![c] = {}]
        /\ station_client' = station_client /\ steady' = steady
        /\ clients' = clients \/ clients' = ListAdd(clients, c)
        /\ cb' = cb /\ got' = got
    BY <1>2, <1>5 DEF ApiConnected, VuConnected, Fresh
  <2>2. ASSUME Walks, NEW d \in steady
        PROVE  Told(d)' = Told(d)
    <3>1. flags'[d] = flags[d]
      BY <1>2, <1>3, <2>1, <2>2 DEF TypeOK
    <3> QED
      BY <2>1, <3>1, ToldUnchanged
  <2>3. Walks => /\ cb.tmp \in Members(clients') \cup {End}
                 /\ steady' \subseteq Members(clients')
                 /\ Rest(clients', cb.tmp) = Rest(clients, cb.tmp)
    BY <1>3, <1>4, <2>1
  <2> QED
    BY <1>1, <2>1, <2>2, <2>3, WalkUndisturbed
<1>6. ASSUME NEW c \in Client, Register(c) \/ Ack(c)
      PROVE  WalkInv' /\ cb' = cb /\ got' = got
  <2>1. /\ UNCHANGED <<flags, station_client, steady, cb, got>>
        /\ \/ clients' = clients
           \/ clients' = ListAdd(clients, c) /\ c \notin Members(clients)
    BY <1>6 DEF Register, Ack, client_vars
  <2>2. \A d \in steady : Told(d)' = Told(d)
    BY <2>1, ToldUnchanged
  <2>3. Walks => /\ cb.tmp \in Members(clients') \cup {End}
                 /\ steady' \subseteq Members(clients')
                 /\ Rest(clients', cb.tmp) = Rest(clients, cb.tmp)
    BY <1>3, <1>4, <2>1
  <2> QED
    BY <1>1, <2>1, <2>2, <2>3, WalkUndisturbed
<1>7. ASSUME NEW c \in Client, Unregister(c)
      PROVE  WalkInv' /\ cb' = cb /\ got' = got
  <2>1. /\ clients' = ListDel(clients, c) /\ steady' = steady \ {c}
        /\ cb.tmp # c /\ UNCHANGED <<flags, station_client, cb, got>>
    BY <1>7 DEF Unregister, MayUnregister
  <2>2. /\ Members(clients') = Members(clients) \ {c}
        /\ Rest(clients', cb.tmp) = Rest(clients, cb.tmp) \ {c}
    BY <1>2, <2>1, ListDelProperties, RestOfListDel
  <2>3. \A d \in steady' : Told(d)' = Told(d)
    BY <2>1, ToldUnchanged
  <2> QED
    BY <1>1, <1>3, <2>1, <2>2, <2>3, WalkUndisturbed
<1>8. ASSUME NEW c \in Client, NEW fs \in Flags, SetControl(c, fs)
      PROVE  WalkInv' /\ cb' = cb /\ got' = got
  <2>1. /\ flags' = [flags EXCEPT ![c] = fs] /\ steady' = steady \ {c}
        /\ UNCHANGED <<clients, station_client, cb, got>>
    BY <1>8 DEF SetControl
  <2>2. \A d \in steady' : flags'[d] = flags[d]
    BY <2>1 DEF TypeOK
  <2>3. \A d \in steady' : Told(d)' = Told(d)
    BY <2>1, <2>2, ToldUnchanged
  <2> QED
    BY <1>1, <1>3, <2>1, <2>3, WalkUndisturbed
<1>9. ASSUME NEW s \in Station, ProcessFrame(s)
      PROVE  WalkInv' /\ cb' = cb /\ got' = got
  <2>1. /\ UNCHANGED <<clients, flags, cb, got>>
        /\ \E src : station_client' = [station_client EXCEPT ![s] = src]
        /\ steady' = IF cb.dst = s /\ station_client' # station_client
                     THEN {} ELSE steady
    BY <1>9 DEF ProcessFrame
  <2>2. \A d \in steady' : Told(d)' = Told(d)
    <3> SUFFICES ASSUME NEW d \in steady'
                 PROVE  Told(d)' = Told(d)
      OBVIOUS
    <3>1. station_client'[cb.dst] = station_client[cb.dst]
      BY <2>1 DEF TypeOK
    <3> QED
      BY <2>1, <3>1, ToldUnchanged
  <2> QED
    BY <1>1, <1>3, <2>1, <2>2, WalkUndisturbed
<1>10. CASE RespondFails \/ \E c \in Client : RemoveClient(c)
  <2>1. \E c \in Client : remove_client(c) /\ c # cb.tmp
    BY <1>10 DEF RespondFails, RemoveClient, MayLeave, Client
  <2>2. cb' = cb /\ got' = got
    BY <2>1 DEF remove_client
  <2> QED
    BY <1>1, <2>1, <2>2, RemoveWalk
<1>11. ASSUME UNCHANGED <<client_vars, cb, got, steady>>
       PROVE  WalkInv' /\ cb' = cb /\ got' = got
  <2>1. UNCHANGED <<clients, flags, station_client, cb, got, steady>>
    BY <1>11 DEF client_vars
  <2>2. \A d \in steady' : Told(d)' = Told(d)
    BY <2>1, ToldUnchanged
  <2> QED
    BY <1>1, <1>3, <2>1, <2>2, WalkUndisturbed
<1>12. CASE \/ \E c \in Client : NetlinkMessage(c) \/ Kick(c) \/ IrqJob(c)
            \/ ProcessOther \/ QueueFrame \/ Respond \/ ReturnBuffer \/ Called
            \/ VirtqReturns
  BY <1>11, <1>12 DEF NetlinkMessage, Kick, IrqJob, ProcessOther, QueueFrame,
                      Respond, ReturnBuffer, Called, VirtqReturns
<1> QED
  BY <1>5, <1>6, <1>7, <1>8, <1>9, <1>10, <1>12 DEF Handler, Proceed

(***************************************************************************)
(* Nor does one take away what a callback or another handler holds.        *)
(***************************************************************************)
LEMMA HandlerHeld ==
    ASSUME IInv, SafeInv, Departures = "safe",
           Proceed \/ \E c \in Client : Handler(c)
    PROVE  HeldInv'
<1> USE DEF IInv, SafeInv
<1>1. cb' = cb
  BY HandlerWalk
<1>2. ASSUME NEW c \in connected, remove_client(c), MayLeave(c, stack'),
             Remaining(stack')
      PROVE  HeldInv'
  <2>1. /\ connected' = connected \ {c}
        /\ frame' = [f \in FrameId |->
              IF frame[f].state = "queued" /\ frame[f].src = c
              THEN Gone ELSE frame[f]]
    BY <1>2 DEF remove_client
  <2>2. /\ \A h \in Members(stack') : h.client # c
        /\ cb.wait = "call" => c # cb.waiting
        /\ cb.phase \in {"notify", "clone"} \/ cb.wait = "sync" =>
              c # frame[cb.frame].src
    BY <1>2 DEF MayLeave
  <2>3. /\ \A i \in 1..Len(stack') : i \in 1..Len(stack) /\ stack'[i] = stack[i]
        /\ cb.phase # "deliver"
    <3>1. cb.phase = "deliver" => stack = <<>> /\ ~Polling
      BY DEF CallbackInv, Polling
    <3> QED
      BY <1>2, <3>1, RemainingProperties DEF Remaining
  <2>4. \A i \in 1..Len(stack') : stack'[i].client \in connected'
    BY <2>1, <2>2, <2>3 DEF HeldInv, Members
  <2>5. cb.phase \in {"notify", "clone"} \/ cb.wait = "sync" =>
           frame'[cb.frame] = frame[cb.frame]
    BY <2>1, <2>2 DEF CallbackInv
  <2> QED
    BY <1>1, <2>1, <2>2, <2>3, <2>4, <2>5 DEF HeldInv
<1>3. CASE RespondFails \/ \E c \in Client : RemoveClient(c)
  <2>1. CASE RespondFails
    <3>1. Top.client \in connected
      BY <2>1 DEF RespondFails
    <3> QED
      BY <1>2, <2>1, <3>1 DEF RespondFails, Remaining
  <2>2. ASSUME NEW c \in Client, RemoveClient(c)
        PROVE  HeldInv'
    <3>1. c \in connected /\ stack' = stack
      BY <2>2 DEF RemoveClient
    <3> QED
      BY <1>2, <2>2, <3>1 DEF RemoveClient, Remaining
  <2> QED
    BY <1>3, <2>1, <2>2
<1>4. ASSUME connected \subseteq connected', stack' = stack, frame' = frame
      PROVE  HeldInv'
  BY <1>1, <1>4 DEF HeldInv
<1>5. ASSUME NEW c \in Client,
             \/ ApiConnected(c) \/ VuConnected(c) \/ Register(c) \/ Unregister(c)
             \/ Ack(c) \/ \E fs \in Flags : SetControl(c, fs)
      PROVE  HeldInv'
  BY <1>4, <1>5 DEF ApiConnected, VuConnected, Fresh, Register, Unregister, Ack,
                    SetControl, client_vars
<1>6. ASSUME StackStep, UNCHANGED <<client_vars, frame>>
      PROVE  HeldInv'
  <2>1. \A i \in 1..Len(stack') : stack'[i].client \in connected
    BY <1>6 DEF StackStep, HeldInv
  <2> QED
    BY <1>1, <1>6, <2>1 DEF HeldInv, client_vars
<1>7. CASE \/ \E c \in Client : NetlinkMessage(c) \/ Kick(c) \/ IrqJob(c)
           \/ ProcessOther \/ Respond \/ ReturnBuffer \/ Called \/ VirtqReturns
  BY <1>6, <1>7, StackOnlySteps
<1>8. CASE QueueFrame \/ \E s \in Station : ProcessFrame(s)
  <2>1. PICK f \in FrameId, at \in {"request", "reply"}, g \in {0} \cup FrameId :
           /\ frame[f].state \in {"none", "adding"}
           /\ \E r : frame' = [frame EXCEPT ![f] = r]
           /\ stack' = TopAt(at, g)
           /\ stack # <<>> /\ connected' = connected
    <3>1. CASE QueueFrame
      <4>1. Top.frame \in FrameId /\ frame[Top.frame].state = "adding"
        BY <3>1, TopProperties DEF QueueFrame, StackInv
      <4>2. frame' = [frame EXCEPT
                        ![Top.frame] = [frame[Top.frame] EXCEPT !.state = "queued"]]
        BY <3>1, <4>1 DEF QueueFrame, TypeOK
      <4> QED
        BY <3>1, <4>1, <4>2 DEF QueueFrame, client_vars
    <3>2. CASE \E s \in Station : ProcessFrame(s)
      <4>1. PICK s \in Station : ProcessFrame(s)
        BY <3>2
      <4> DEFINE src == IF station_client[s] = None THEN Top.client
                                                    ELSE station_client[s]
      <4>2. PICK f \in FrameId :
               /\ frame[f].state = "none"
               /\ frame' = [frame EXCEPT ![f] =
                     [state |-> "adding", sender |-> s, src |-> src,
                      start |-> need_start_notify # 0]]
               /\ stack' = TopAt("request", f)
        BY <4>1 DEF ProcessFrame
      <4>3. stack # <<>> /\ connected' = connected
        BY <4>1 DEF ProcessFrame
      <4> QED
        BY <4>2, <4>3
    <3> QED
      BY <1>8, <3>1, <3>2
  <2>2. cb.phase \in {"notify", "deliver", "clone", "info", "done"} =>
           frame'[cb.frame] = frame[cb.frame]
    BY <2>1 DEF CallbackInv, HeldInv
  <2>3. cb.wait = "sync" => cb.phase \in {"notify", "clone", "info"}
    BY DEF CallbackInv
  <2>4. \A i \in 1..Len(stack') : stack'[i].client \in connected
    <3> DEFINE n == Len(stack)
    <3>1. n \in Nat \ {0} /\ n \in 1..n /\ Top = stack[n]
      BY <2>1, TopProperties
    <3>2. TypeOK /\ g \in {0} \cup FrameId
          /\ at \in {"sync", "next", "request", "reply", "call", "kick"}
      BY <2>1
    <3>3. /\ Len(TopAt(at, g)) = Len(stack)
          /\ \A i \in 1..(Len(stack) - 1) : TopAt(at, g)[i] = stack[i]
          /\ TopAt(at, g)[Len(stack)]
                = [client |-> Top.client, frame |-> g, at |-> at]
      <4>1. stack # <<>>
        BY <2>1
      <4> HIDE DEF IInv, SafeInv
      <4> QED
        BY <3>2, <4>1, StackTop
    <3>4. Len(stack') = n /\ stack'[n].client = Top.client
          /\ \A i \in 1..(n - 1) : stack'[i] = stack[i]
      BY <2>1, <3>3
    <3>5. \A i \in 1..n : i = n \/ i \in 1..(n - 1)
      BY <3>1
    <3>6. \A i \in 1..n : stack[i].client \in connected
      BY DEF HeldInv
    <3> QED
      BY <3>1, <3>4, <3>5, <3>6
  <2> QED
    BY <1>1, <2>1, <2>2, <2>3, <2>4 DEF HeldInv
<1> QED
  BY <1>3, <1>5, <1>7, <1>8 DEF Handler, Proceed

(***************************************************************************)
(* list_next_entry() of an entry that is on the list, or of its end.       *)
(***************************************************************************)
LEMMA NextEntryOnList ==
    ASSUME TypeOK, ListsInv, NEW c \in Members(clients) \cup {End}
    PROVE  /\ NextEntry(c) \in Members(clients) \cup {End}
           /\ c = End => NextEntry(c) = End
           /\ c # End => Rest(clients, c) = {c} \cup Rest(clients, NextEntry(c))
           /\ c \notin Rest(clients, NextEntry(c))
<1>1. /\ clients \in Seq(Client) /\ NoDuplicates(clients)
      /\ End \notin Members(clients) /\ End \notin Members(clients_to_free)
  BY PointerAssumption, MembersAreClients DEF TypeOK, ListsInv
<1>2. CASE c = End
  <2>1. NextEntry(c) = End
    BY <1>1, <1>2 DEF NextEntry
  <2> QED
    BY <1>1, <1>2, <2>1 DEF Rest
<1>3. CASE c \in Members(clients)
  <2>1. c # End /\ c \notin Members(clients_to_free)
    BY <1>1, <1>3 DEF ListsInv
  <2>2. NextEntry(c) = Follows(clients, c, End)
    BY <1>3, <2>1 DEF NextEntry
  <2>3. Follows(clients, c, End) \in Members(clients) \cup {End}
    BY <1>1, <1>3, FollowsProperties
  <2>4. /\ Rest(clients, c) = {c} \cup Rest(clients, Follows(clients, c, End))
        /\ c \notin Rest(clients, Follows(clients, c, End))
    BY <1>1, <1>3, RestOfFollows
  <2> QED
    BY <2>1, <2>2, <2>3, <2>4
<1> QED
  BY <1>2, <1>3

(***************************************************************************)
(* The beginning of a walk.                                                *)
(***************************************************************************)
LEMMA WalkBegins ==
    ASSUME IInv, NEW r \in CallbackRecord, cb' = WalkFrom(r), r.wait = "none",
           UNCHANGED client_vars,
           got' = [c \in Client |-> 0], steady' = Members(clients)
    PROVE  WalkInv' /\ \A c \in Client : got'[c] <= 1
<1> USE DEF IInv
<1>1. /\ cb'.phase = r.phase /\ cb'.dst = r.dst /\ cb'.wait = "none"
      /\ cb'.cursor = FirstEntry /\ cb'.tmp = NextEntry(FirstEntry)
  BY DEF WalkFrom, CallbackRecord
<1>2. /\ got' = [c \in Client |-> 0] /\ steady' = Members(clients)
      /\ clients' = clients
  BY DEF client_vars
<1>3. /\ FirstEntry \in Members(clients) \cup {End}
      /\ FirstEntry = End => Members(clients) = {}
      /\ FirstEntry # End => Rest(clients, FirstEntry) = Members(clients)
  <2>1. CASE clients = <<>>
    <3>1. Len(clients) = 0
      BY <2>1
    <3>2. Members(clients) = {} /\ FirstEntry = End
      BY <2>1, <3>1 DEF Members, FirstEntry
    <3> QED
      BY <3>2
  <2>2. CASE clients # <<>>
    <3>1. /\ clients[1] \in Members(clients)
          /\ Rest(clients, clients[1]) = Members(clients)
      BY <2>2, RestOfFirst DEF TypeOK, ListsInv
    <3>2. clients[1] # End
      BY <3>1, MembersAreClients, PointerAssumption
    <3> QED
      BY <2>2, <3>1, <3>2 DEF FirstEntry
  <2> QED
    BY <2>1, <2>2
<1> DEFINE first == FirstEntry
           next  == NextEntry(FirstEntry)
<1>4. /\ next \in Members(clients) \cup {End}
      /\ first = End => next = End
      /\ first # End => Rest(clients, first) = {first} \cup Rest(clients, next)
      /\ first \notin Rest(clients, next)
  BY <1>3, NextEntryOnList
<1>5. Members(clients) \subseteq Client
  BY MembersAreClients
<1> HIDE DEF first, next
<1>6. /\ first \in Members(clients) \cup {End}
      /\ \A c \in Members(clients) : c \in Rest(clients, next) \/ c = first
      /\ cb'.cursor = first /\ cb'.tmp = next
  BY <1>1, <1>3, <1>4 DEF first, next
<1>7. Rest(clients, next) \subseteq Client
  BY <1>5, RestAreMembers DEF TypeOK
<1> QED
  BY <1>1, <1>2, <1>4, <1>5, <1>6, <1>7 DEF WalkInv, Walks

(***************************************************************************)
(* A step of the walk, once the current client has got what it wants.      *)
(***************************************************************************)
LEMMA WalkSteps ==
    ASSUME IInv, WalkInv, Walks, cb' = Step(cb), UNCHANGED client_vars,
           steady' = steady,
           \A c \in Rest(clients, cb.tmp) : got'[c] = 0,
           \A c \in steady : c \notin Rest(clients, cb.tmp) => got'[c] = Told(c)
    PROVE  WalkInv'
<1> USE DEF IInv
<1>1. cb.tmp \in Members(clients) \cup {End} /\ cb.tmp # Stray
  BY MembersAreClients, PointerAssumption DEF WalkInv
<1>2. /\ cb'.phase = cb.phase /\ cb'.dst = cb.dst /\ cb'.wait = "none"
      /\ cb'.cursor = cb.tmp /\ cb'.tmp = NextEntry(cb.tmp)
  BY <1>1 DEF Step, TypeOK, CallbackRecord
<1> DEFINE cur  == cb.tmp
           next == NextEntry(cb.tmp)
<1>3. /\ next \in Members(clients) \cup {End}
      /\ cur = End => next = End
      /\ cur # End => Rest(clients, cur) = {cur} \cup Rest(clients, next)
      /\ cur \notin Rest(clients, next)
  BY <1>1, NextEntryOnList
<1>4. steady \subseteq Members(clients)
  BY DEF WalkInv
<1>5. Rest(clients, End) = {} /\ End \notin Members(clients)
  BY MembersAreClients, PointerAssumption DEF Rest
<1>6. UNCHANGED <<clients, flags, station_client>>
  BY DEF client_vars
<1>7. \A c \in steady : Told(c)' = Told(c)
  BY <1>2, <1>6, ToldUnchanged
<1>8. /\ cur \in Members(clients) \cup {End}
      /\ cb'.cursor = cur /\ cb'.tmp = next
      /\ \A c \in Rest(clients, cur) : got'[c] = 0
      /\ \A c \in steady : c \notin Rest(clients, cur) => got'[c] = Told(c)'
  BY <1>1, <1>2, <1>7
<1> HIDE DEF cur, next, Told
<1>9. /\ Rest(clients, next) \subseteq Rest(clients, cur)
      /\ \A c \in steady : c \in Rest(clients, cur) =>
            c \in Rest(clients, next) \/ c = cur
      /\ cur # End => cur \in Rest(clients, cur)
  BY <1>3, <1>5
<1>10. \A c \in steady : c \notin Rest(clients, next) /\ c # cur => got'[c] = Told(c)'
  BY <1>8, <1>9
<1>11. \A c \in Rest(clients, next) : got'[c] = 0
  BY <1>8, <1>9
<1>12. /\ clients' = clients /\ steady' = steady /\ cb'.wait = "none"
       /\ steady \subseteq Members(clients)
       /\ cb'.cursor = cur /\ cb'.tmp = next
       /\ cur \in Members(clients) \cup {End}
       /\ next \in Members(clients) \cup {End}
       /\ cur \notin Rest(clients, next)
       /\ cur = End => next = End
       /\ cur # End => got'[cur] = 0
  BY <1>2, <1>3, <1>4, <1>6, <1>8, <1>9
<1> QED
  BY <1>10, <1>11, <1>12 DEF WalkInv

(***************************************************************************)
(* Sending to the current client: it had got nothing before.               *)
(***************************************************************************)
LEMMA SendOnce ==
    ASSUME IInv, SafeInv, Walking, Wants(cb.cursor), got' = Copied(cb.cursor),
           steady' = steady
    PROVE  /\ \A c \in Client : got'[c] <= 1
           /\ \A c \in Rest(clients, cb.tmp) : got'[c] = 0
           /\ \A c \in steady : c \notin Rest(clients, cb.tmp) => got'[c] = Told(c)
<1>1. cb.wait = "none" /\ Walks /\ cb.cursor # End
  BY DEF Walking, Running, Walks
<1>2. /\ cb.cursor \in Members(clients) /\ got[cb.cursor] = 0
      /\ cb.cursor \notin Rest(clients, cb.tmp)
      /\ \A c \in Rest(clients, cb.tmp) : got[c] = 0
      /\ \A c \in steady :
            c \notin Rest(clients, cb.tmp) /\ c # cb.cursor => got[c] = Told(c)
  BY <1>1 DEF SafeInv, WalkInv
<1>3. /\ cb.cursor \in Client /\ got \in [Client -> 0..2]
      /\ Rest(clients, cb.tmp) \subseteq Client /\ steady \subseteq Client
  BY <1>2, MembersAreClients, RestAreMembers DEF IInv, TypeOK
<1>4. /\ got'[cb.cursor] = 1 /\ Told(cb.cursor) = 1
      /\ \A c \in Client \ {cb.cursor} : got'[c] = got[c]
  BY <1>2, <1>3 DEF Copied, Told
<1> HIDE DEF Told
<1>5. \A c \in Client : got'[c] <= 1
  BY <1>4 DEF SafeInv
<1> QED
  BY <1>2, <1>3, <1>4, <1>5

(***************************************************************************)
(* Steps of the callback keep what it holds, unless they begin to wait for *)
(* a device.                                                               *)
(***************************************************************************)
LEMMA HeldByCallback ==
    ASSUME IInv, SafeInv, WalkStep,
           cb'.wait = "call" => cb'.waiting \in connected,
           cb'.wait = "sync" \/ cb'.phase = "clone" => cb.phase \in {"deliver", "clone"}
    PROVE  HeldInv' /\ NeverUndefined'
<1>1. /\ connected' = connected /\ frame' = frame /\ stack' = <<>>
      /\ cb'.frame = cb.frame
      /\ cb'.phase \in {"notify", "deliver"} =>
            cb.phase = cb'.phase \/ (cb'.phase = "deliver" /\ cb.phase = "clone")
      /\ cb'.phase # "undefined"
  BY DEF WalkStep, client_vars
<1>2. Len(stack') = 0
  BY <1>1
<1> QED
  BY <1>1, <1>2 DEF HeldInv, NeverUndefined, SafeInv

(***************************************************************************)
(* A callback never reaches undefined behaviour.                           *)
(***************************************************************************)
LEMMA NotUndefined ==
    ASSUME IInv, SafeInv, Departures = "safe"
    PROVE  ~Undefined
<1> USE DEF IInv, SafeInv
<1> SUFFICES ASSUME Undefined
             PROVE  FALSE
  OBVIOUS
<1>1. Stray \notin Client /\ End # Stray
  BY PointerAssumption
<1>2. Members(clients) \subseteq Client /\ Members(clients) \subseteq connected
  BY MembersAreClients DEF ListsInv
<1>3. ~HandlerFaults
  <2>1. stack # <<>> => Top.client \in connected
    BY TopProperties DEF HeldInv
  <2> QED
    BY <2>1 DEF HandlerFaults
<1>4. ~CallFaults
  BY DEF CallFaults
<1>5. ASSUME Walks, cb.wait = "none"
      PROVE  cb.cursor # Stray /\ (cb.cursor # End => cb.cursor \in connected)
  BY <1>1, <1>2, <1>5 DEF WalkInv
<1>6. ~(Running /\ cb.cursor = Stray)
  BY <1>1, <1>5 DEF Running
<1>7. ~(Walking /\ cb.cursor \in Vhost \ connected)
  BY <1>5 DEF Walking, Running, Walks
<1>8. ~(Walking /\ cb.phase = "notify" /\ frame[cb.frame].state = "gone")
  BY DEF HeldInv
<1>9. ~(cb.phase = "info" /\ cb.wait = "sync"
        /\ (frame[cb.frame].src \in Vhost \ connected
              \/ frame[cb.frame].src \notin Live))
  BY DEF HeldInv, Live
<1>10. ~(cb.wait = "call" /\ cb.waiting \notin connected)
  BY DEF HeldInv
<1>11. ~CallbackFaults
  BY <1>6, <1>7, <1>8, <1>9, <1>10 DEF CallbackFaults
<1> QED
  BY <1>3, <1>4, <1>11 DEF Undefined

(***************************************************************************)
(* The walk and what it holds, over the steps of the callback.             *)
(***************************************************************************)
LEMMA CallbackSafeInv ==
    ASSUME IInv, SafeInv, Callback
    PROVE  SafeInv'
<1> USE DEF IInv
<1>1. cb \in CallbackRecord
  BY DEF TypeOK
<1>2. CASE CallbackEnds
  <2>1. /\ cb' = NoCallback /\ got' = [c \in Client |-> 0]
        /\ stack' = <<>> /\ Len(stack') = 0
    BY <1>2 DEF CallbackEnds, Running, Returned, ForgetWalk
  <2> QED
    BY <2>1 DEF NoCallback, SafeInv, WalkInv, Walks, HeldInv, NeverUndefined
<1>3. ASSUME ~CallbackEnds
      PROVE  WalkStep
  BY <1>3, CallbackSteps
<1>4. CASE \E s \in Station : CloneTo(s)
  <2>1. PICK s \in Station : CloneTo(s)
    BY <1>4
  <2>2. /\ cb.phase = "deliver" /\ cb'.phase = "clone" /\ cb'.wait = "sync"
        /\ cb'.dst = s /\ cb'.cursor = cb.cursor /\ cb'.tmp = cb.tmp
        /\ got' = got
    BY <1>1, <2>1 DEF CloneTo, CallbackRecord
  <2>3. ~CallbackEnds
    BY <2>2 DEF CallbackEnds, NoCallback
  <2>4. HeldInv' /\ NeverUndefined'
    BY <1>3, <2>2, <2>3, HeldByCallback
  <2> QED
    BY <2>2, <2>4 DEF SafeInv, WalkInv, Walks
<1>5. CASE BeginWalk
  <2> DEFINE r == [cb EXCEPT !.wait = "none"]
  <2>1. /\ r \in CallbackRecord /\ r.wait = "none"
        /\ r.phase = cb.phase /\ r.dst = cb.dst
    BY <1>1 DEF CallbackRecord
  <2>2. /\ cb' = WalkFrom(r) /\ UNCHANGED client_vars
        /\ got' = [c \in Client |-> 0] /\ steady' = Members(clients)
        /\ cb.wait = "sync" /\ cb.phase \in {"notify", "clone"}
    BY <1>5 DEF BeginWalk
  <2> HIDE DEF r
  <2>3. WalkInv' /\ \A c \in Client : got'[c] <= 1
    BY <2>1, <2>2, WalkBegins
  <2>4. cb'.phase = cb.phase /\ cb'.wait = "none" /\ cb'.dst = cb.dst
    BY <2>1, <2>2, WalkFromLive
  <2>5. ~CallbackEnds
    BY <2>2 DEF CallbackEnds, Running
  <2>6. HeldInv' /\ NeverUndefined'
    BY <1>3, <2>4, <2>5, HeldByCallback
  <2> QED
    BY <2>2, <2>3, <2>4, <2>6 DEF SafeInv, Walks
<1>6. ASSUME Walks, cb' = Step(cb), UNCHANGED client_vars, steady' = steady,
             \A c \in Client : got'[c] <= 1,
             \A c \in Rest(clients, cb.tmp) : got'[c] = 0,
             \A c \in steady : c \notin Rest(clients, cb.tmp) => got'[c] = Told(c)
      PROVE  SafeInv'
  <2>1. WalkInv'
    BY <1>6, WalkSteps DEF SafeInv
  <2>2. cb'.phase = cb.phase /\ cb'.wait = "none" /\ cb'.dst = cb.dst
    BY <1>1, <1>6 DEF Step, CallbackRecord
  <2>3. ~CallbackEnds
    BY <1>6, <2>2 DEF CallbackEnds, NoCallback, Walks
  <2>4. HeldInv' /\ NeverUndefined'
    BY <1>3, <2>2, <2>3, HeldByCallback
  <2> QED
    BY <1>6, <2>1, <2>2, <2>4 DEF SafeInv, Walks
<1>7. CASE Skip
  <2>1. /\ Walks /\ cb.wait = "none" /\ cb.cursor \notin {End, Stray}
        /\ ~Wants(cb.cursor) /\ cb' = Step(cb)
        /\ UNCHANGED <<client_vars, got, steady>>
    BY <1>7 DEF Skip, Walking, Running, Walks
  <2>2. /\ \A c \in Rest(clients, cb.tmp) : got'[c] = 0
        /\ \A c \in steady : c \notin Rest(clients, cb.tmp) => got'[c] = Told(c)
    BY <2>1 DEF SafeInv, WalkInv, Told
  <2> QED
    BY <1>6, <2>1, <2>2 DEF SafeInv
<1>8. CASE SendKernel
  <2>1. /\ Walking /\ Walks /\ Wants(cb.cursor) /\ cb' = Step(cb)
        /\ got' = Copied(cb.cursor) /\ UNCHANGED <<client_vars, steady>>
    BY <1>8 DEF SendKernel, Walking, Running, Walks
  <2> QED
    BY <1>6, <2>1, SendOnce
<1>9. CASE SendApi \/ SendVhost
  <2>1. /\ Walking /\ Walks /\ Wants(cb.cursor)
        /\ got' = Copied(cb.cursor)
        /\ UNCHANGED <<client_vars, steady>>
        /\ \E w \in {"ack", "call"} :
              /\ cb' = [cb EXCEPT !.wait = w, !.waiting = cb.cursor]
              /\ w = "call" => cb.cursor \in connected
    BY <1>9 DEF SendApi, SendVhost, Walking, Running, Walks
  <2>2. cb.cursor \in Client
    BY <1>1, <2>1 DEF Walking, CallbackRecord
  <2>3. /\ cb'.phase = cb.phase /\ cb'.dst = cb.dst
        /\ cb'.cursor = cb.cursor /\ cb'.tmp = cb.tmp
        /\ cb'.wait \in {"ack", "call"} /\ cb'.waiting = cb.cursor
        /\ cb'.wait = "call" => cb.cursor \in connected
    BY <1>1, <2>1 DEF CallbackRecord
  <2>4. UNCHANGED <<clients, flags, station_client, steady>>
    BY <2>1 DEF client_vars
  <2>5. \A c : Told(c)' = Told(c)
    BY <2>3, <2>4, ToldUnchanged
  <2>6. /\ \A c \in Client : got'[c] <= 1
        /\ \A c \in Rest(clients, cb.tmp) : got'[c] = 0
        /\ \A c \in steady : c \notin Rest(clients, cb.tmp) => got'[c] = Told(c)
    BY <2>1, SendOnce
  <2>7. /\ cb.tmp \in Members(clients) \cup {End}
        /\ steady \subseteq Members(clients)
        /\ cb.cursor \notin Rest(clients, cb.tmp)
    BY <2>1 DEF SafeInv, WalkInv, Walking, Running
  <2> HIDE DEF Told
  <2>8. \A c \in steady : c \notin Rest(clients, cb.tmp) => got'[c] = Told(c)'
    BY <2>5, <2>6
  <2>9. /\ \A c \in steady' : c \notin Rest(clients, cb.tmp) => got'[c] = Told(c)'
        /\ cb'.cursor \notin Rest(clients, cb.tmp)
    BY <2>3, <2>4, <2>7, <2>8
  <2>10. (cb.cursor \in steady => got[cb.cursor] = Told(cb.cursor))'
    BY <2>9 DEF Told
  <2>11. WalkInv'
    BY <2>3, <2>4, <2>6, <2>7, <2>8, <2>10 DEF WalkInv
  <2>12. ~CallbackEnds
    <3>1. cb'.wait # "none"
      BY <2>3
    <3> QED
      BY <3>1 DEF CallbackEnds, NoCallback
  <2>13. HeldInv' /\ NeverUndefined'
    BY <1>3, <2>3, <2>12, HeldByCallback
  <2> QED
    BY <2>1, <2>3, <2>6, <2>11, <2>13 DEF SafeInv, Walks
<1>10. CASE WaitEnds
  <2>1. /\ cb.wait \in {"ack", "call"} /\ UNCHANGED <<client_vars, got, steady>>
        /\ cb.phase \in {"notify", "clone", "info"}
    BY <1>10 DEF WaitEnds, CallbackInv
  <2>2. CASE cb.phase = "info"
    <3>1. /\ cb'.phase = "done" /\ cb'.wait = "none"
          /\ cb'.cursor = cb.cursor /\ cb'.tmp = cb.tmp
      BY <1>1, <1>10, <2>2 DEF WaitEnds, CallbackRecord
    <3>2. ~CallbackEnds
      BY <2>1 DEF CallbackEnds, Running
    <3>3. HeldInv' /\ NeverUndefined'
      BY <1>3, <3>1, <3>2, HeldByCallback
    <3> QED
      BY <2>1, <2>2, <3>1, <3>3 DEF SafeInv, WalkInv, Walks
  <2>3. CASE cb.phase # "info"
    <3>1. cb' = Step(cb) /\ Walks
      BY <1>10, <2>1, <2>3 DEF WaitEnds, Walks
    <3>2. /\ \A c \in Rest(clients, cb.tmp) : got'[c] = 0
          /\ \A c \in steady : c \notin Rest(clients, cb.tmp) => got'[c] = Told(c)
      BY <2>1, <3>1 DEF SafeInv, WalkInv
    <3> QED
      BY <1>6, <2>1, <3>1, <3>2 DEF SafeInv
  <2> QED
    BY <2>2, <2>3
<1>11. CASE CloneEnds \/ TxInfo
  <2>1. /\ \/ cb'.wait = "none" /\ cb'.phase = "deliver"
           \/ cb'.wait = "sync" /\ cb'.phase = "info"
        /\ cb.phase \in {"deliver", "clone"}
        /\ \A c \in Client : got'[c] <= 1
        /\ cb'.cursor = End /\ cb'.tmp = End
    <3>1. CASE CloneEnds
      BY <1>1, <3>1 DEF CloneEnds, Running, ForgetWalk, CallbackRecord
    <3>2. CASE TxInfo
      <4>1. /\ cb.phase = "deliver" /\ got' = got
            /\ cb' = [cb EXCEPT !.phase = "info", !.wait = "sync"]
        BY <3>2 DEF TxInfo
      <4>2. cb.cursor = End /\ cb.tmp = End /\ \A c \in Client : got[c] <= 1
        BY <4>1 DEF SafeInv, Walks
      <4> QED
        BY <1>1, <4>1, <4>2 DEF CallbackRecord
    <3> QED
      BY <1>11, <3>1, <3>2
  <2>2. ~CallbackEnds
    BY <2>1 DEF CallbackEnds, NoCallback
  <2>3. HeldInv' /\ NeverUndefined'
    BY <1>3, <2>1, <2>2, HeldByCallback
  <2> QED
    BY <2>1, <2>3 DEF SafeInv, WalkInv, Walks
<1>12. CASE SendTxInfo
  <2>1. /\ cb'.phase \in {"info", "done"} /\ cb'.wait \in {"ack", "call", "none"}
        /\ cb'.cursor = cb.cursor /\ cb'.tmp = cb.tmp /\ got' = got
        /\ cb'.wait = "call" => cb'.waiting \in connected
        /\ cb.phase = "info" /\ cb.wait = "sync"
    BY <1>1, <1>12 DEF SendTxInfo, CallbackRecord
  <2>2. ~CallbackEnds
    BY <2>1 DEF CallbackEnds, Running
  <2>3. HeldInv' /\ NeverUndefined'
    BY <1>3, <2>1, <2>2, HeldByCallback
  <2> QED
    BY <2>1, <2>3 DEF SafeInv, WalkInv, Walks
<1> QED
  BY <1>2, <1>4, <1>5, <1>7, <1>8, <1>9, <1>10, <1>11, <1>12 DEF Callback

LEMMA NextSafeInv ==
    ASSUME IInv, OwnersInv, SafeInv, Departures = "safe", [Next]_vars
    PROVE  SafeInv'
<1> USE DEF IInv
<1>1. CASE Proceed \/ \E c \in Client : Handler(c)
  <2>1. WalkInv' /\ cb' = cb /\ got' = got /\ HeldInv'
    BY <1>1, HandlerWalk, HandlerHeld
  <2> QED
    BY <2>1 DEF SafeInv, NeverUndefined, Walks
<1>2. ASSUME NEW f \in FrameId, NotifyFrameStart(f) \/ DeliverFrame(f)
      PROVE  SafeInv'
  <2>1. /\ cb'.frame = f /\ cb'.cursor = End /\ cb'.tmp = End
        /\ \/ /\ cb'.phase = "notify" /\ cb'.wait = "sync"
              /\ frame' = [frame EXCEPT ![f].start = FALSE]
           \/ /\ cb'.phase = "deliver" /\ cb'.wait = "none"
              /\ frame' = [frame EXCEPT ![f].state = "delivering"]
        /\ frame[f].state = "queued" /\ stack = <<>>
        /\ UNCHANGED <<client_vars, got, stack>>
    BY <1>2 DEF NotifyFrameStart, DeliverFrame, NoCallback, Returned
  <2>2. frame[f].src \in connected /\ connected' = connected /\ Len(stack') = 0
    BY <2>1 DEF OwnersInv, client_vars
  <2>3. /\ frame'[f].src = frame[f].src
        /\ cb'.phase = "notify" => frame'[f].state = "queued"
    BY <2>1 DEF TypeOK, FrameRecord
  <2> QED
    BY <2>1, <2>2, <2>3 DEF SafeInv, WalkInv, Walks, HeldInv, NeverUndefined
<1>3. CASE FreeClients \/ UNCHANGED vars
  <2>1. UNCHANGED <<clients, connected, flags, station_client, frame, cb, stack,
                    got, steady>>
    BY <1>3 DEF FreeClients, vars
  <2>2. \A c : Told(c)' = Told(c)
    BY <2>1, ToldUnchanged
  <2>3. WalkInv'
    BY <2>1 DEF SafeInv, WalkInv, Walks, Told, Wants
  <2> QED
    BY <2>1, <2>3 DEF SafeInv, HeldInv, NeverUndefined, Walks
<1> QED
  BY <1>1, <1>2, <1>3, CallbackSafeInv, NotUndefined DEF Next

LEMMA SafeInvariance ==
    ASSUME Departures = "safe"
    PROVE  Spec => [](IInv /\ SafeInv)
<1> DEFINE All == IInv /\ OwnersInv /\ SafeInv
<1>1. Init => All
  BY InitIInv, InitSafeInv
<1>2. All /\ [Next]_vars => All'
  BY NextIInv, NextSafeInv
<1>3. All => IInv /\ SafeInv
  OBVIOUS
<1> QED
  BY <1>1, <1>2, <1>3, PTL DEF Spec

(***************************************************************************)
(* As long as no client leaves the list while it is the saved entry of a   *)
(* walk, nor disconnects while a handler of its own is on the stack, while *)
(* a callback calls its device or while its own frame is announced or      *)
(* delivered, no walk ever uses freed memory or strays to another list,    *)
(* whatever else the clients do while the callback and the handlers wait.  *)
(***************************************************************************)
THEOREM WalksSafe ==
    Departures = "safe" => (Spec => [](NeverUndefined /\ WalkStaysOnList))
<1> SUFFICES ASSUME Departures = "safe"
             PROVE  Spec => [](NeverUndefined /\ WalkStaysOnList)
  OBVIOUS
<1>1. IInv /\ SafeInv => NeverUndefined /\ WalkStaysOnList
  <2> SUFFICES ASSUME SafeInv, Walks
               PROVE  {cb.tmp} \cap (Client \cup {Stray}) \subseteq Members(clients)
    BY PointerAssumption DEF SafeInv, WalkStaysOnList
  <2> QED
    BY PointerAssumption DEF SafeInv, WalkInv
<1> QED
  BY SafeInvariance, <1>1, PTL

(***************************************************************************)
(* Under the same condition send_cloned_frame_msg() gives every client     *)
(* that stays on the list exactly the copies it is due, and none two, for  *)
(* any number of clients that come, go and register in between.            *)
(***************************************************************************)
THEOREM ClonesAreExact == Departures = "safe" => (Spec => []ClonesExact)
<1> SUFFICES ASSUME Departures = "safe"
             PROVE  Spec => []ClonesExact
  OBVIOUS
<1>1. IInv /\ SafeInv => ClonesExact
  <2> SUFFICES ASSUME IInv, SafeInv, cb.phase = "clone", cb.wait = "none",
                      cb.cursor = End, NEW c \in steady
               PROVE  got[c] = IF "rx_all" \in flags[c]
                                  \/ station_client[cb.dst] \in {None, c}
                               THEN 1 ELSE 0
    BY DEF SafeInv, ClonesExact
  <2>1. Walks /\ c \in Client /\ End \notin Members(clients)
    BY MembersAreClients, PointerAssumption
       DEF Walks, SafeInv, WalkInv, IInv
  <2>2. cb.tmp = End /\ Rest(clients, cb.tmp) = {} /\ c # cb.cursor
    BY <2>1, PointerAssumption DEF SafeInv, WalkInv, Rest
  <2>3. got[c] = Told(c)
    BY <2>1, <2>2 DEF SafeInv, WalkInv
  <2> QED
    BY <2>3 DEF Told, Wants
<1> QED
  BY SafeInvariance, <1>1, PTL
=============================================================================
