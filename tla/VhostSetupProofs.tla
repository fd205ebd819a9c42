-------------------------- MODULE VhostSetupProofs --------------------------
(***************************************************************************)
(* That the device owns what it was given, uses memory where the driver    *)
(* means it and meets no fault, for every number of queues, regions,       *)
(* tables, descriptors and messages.                                       *)
(***************************************************************************)
EXTENDS VhostSetup, SequenceTheorems, WellFoundedInduction, TLAPS

FdOrNone == Fd \cup {NoFd}
Ptr      == [file : Seq(Nat), at : Int]
Mapping  == [file : Seq(Nat), len : Nat]

DevType ==
    [up : BOOLEAN, entry : FdOrNone, req_fd : FdOrNone,
     kick : [Queue -> FdOrNone], call_fd : [Queue -> FdOrNone],
     registered : [Queue -> BOOLEAN],
     enabled : [Queue -> BOOLEAN], triggered : [Queue -> BOOLEAN],
     virtq : [Queue -> [Part -> Ptr]],
     n_regions : Nat, regions : [Region -> Area],
     region_fds : [Region -> FdOrNone], region_vaddr : [Region -> Mapping],
     protocol_features : SUBSET Feature]

AllFaults == {"close", "unlink", "ring", "abort", "SIGPIPE"}

\* the four variables that the handlers change, as a record
IsState(st) ==
    /\ st = [table |-> st.table, dev |-> st.dev, maps |-> st.maps, faults |-> st.faults]
    /\ st.table = [f \in Fd |-> st.table[f]]
    /\ st.dev \in DevType
    /\ st.faults \subseteq AllFaults

\* the table that the driver told the device, none at first
TableOf(t) == IF t = 0 THEN <<>> ELSE Tables[t]

(***************************************************************************)
(* The regions of the device are those of the table, mapped in full.       *)
(***************************************************************************)
RegionsOf(d, t) ==
    /\ d.n_regions = Len(TableOf(t))
    /\ \A i \in Region :
          IF i <= Len(TableOf(t))
          THEN d.regions[i] = TableOf(t)[i] /\ d.region_vaddr[i] = MappingOf(t, i)
          ELSE d.region_vaddr[i] = NoMap /\ d.region_fds[i] = NoFd

MapsOf(t) == {MappingOf(t, i) : i \in 1..Len(TableOf(t))}

MemoryOK(st, t) ==
    /\ st.dev.up => RegionsOf(st.dev, t) /\ st.maps = MapsOf(t)
    /\ ~st.dev.up => st.dev = NoDev /\ st.maps = {}

(***************************************************************************)
(* Kind by kind, a descriptor is open for a use exactly if the field for   *)
(* that use holds it.                                                      *)
(***************************************************************************)
EntryOwned(tb, d) == \A f \in Fd : tb[f] = ConnUse <=> d.entry = f
ReqOwned(tb, d)   == \A f \in Fd : tb[f] = ReqUse <=> d.req_fd = f
KicksOwned(tb, d) ==
    \A f \in Fd, q \in Queue : tb[f] = KickUse(q) <=> d.kick[q] = f
CallsOwned(tb, d) ==
    \A f \in Fd, q \in Queue : tb[f] = CallUse(q) <=> d.call_fd[q] = f
RegionsOwned(tb, d, t) ==
    \A f \in Fd, i \in Region : tb[f] = MemUse(t, i) <=> d.region_fds[i] = f
KnownUses(tb, t) ==
    \A f \in Fd :
        \/ tb[f] \in {Closed, ConnUse, ReqUse}
        \/ \E q \in Queue : tb[f] \in {KickUse(q), CallUse(q)}
        \/ \E i \in Region : tb[f] = MemUse(t, i)

Owned(tb, d, t) ==
    /\ EntryOwned(tb, d) /\ ReqOwned(tb, d)
    /\ KicksOwned(tb, d) /\ CallsOwned(tb, d)
    /\ RegionsOwned(tb, d, t) /\ KnownUses(tb, t)

Registered(d) == \A q \in Queue : d.kick[q] # NoFd => d.registered[q]

FdsOK(st, t) ==
    /\ Owned(st.table, st.dev, t)
    /\ Registered(st.dev)
    /\ st.faults \cap {"close", "unlink"} = {}

(***************************************************************************)
(* The driver, the queues in use and the buffer.                           *)
(***************************************************************************)
ToldOK ==
    /\ told \in [table : 0..Len(Tables), ring : [Queue -> Nat]]
    /\ \A q \in Queue : told.ring[q] # 0 => told.table # 0

HandlingRecord ==
    [virtq : InputQueues, n_in_sg : 0..Prealloc, n_out_sg : 0..Prealloc]

HandlingOK == handling \in Seq(HandlingRecord)

UseOK ==
    /\ \A q \in Queue : InUse(q) => dev.up /\ told.table # 0
    /\ \A q \in Queue : dev.triggered[q] => q \in InputQueues
    /\ Quiesces => \A q \in Queue : InUse(q) => Ready(dev, q)

IsBuf(b) ==
    b = [chain |-> b.chain, in_sg |-> b.in_sg, out_sg |-> b.out_sg,
         allocated |-> b.allocated, moved |-> b.moved, limit |-> b.limit,
         written |-> b.written, reply |-> b.reply]

BufOK == IsBuf(buf) /\ (buf # NoBuf => dev.up) /\ BytesInOrder /\ SegmentsFit

\* a driver that answers is there as long as a call waits
WaitOK == Quiesces /\ Answers => ~(buf.reply /\ hungup)

FaultsOK ==
    /\ Quiesces => "ring" \notin faults
    /\ Quiesces /\ Answers => "abort" \notin faults
    /\ ApiSocket => "SIGPIPE" \notin faults

SetupInv ==
    /\ IsState(State) /\ MemoryOK(State, told.table)
    /\ ~Withdraws => FdsOK(State, told.table)
    /\ ToldOK /\ HandlingOK /\ UseOK /\ RingsTranslated /\ BufOK /\ WaitOK /\ FaultsOK
    /\ msgs \in 0..MaxMsgs
-----------------------------------------------------------------------------
(* Descriptors.                                                            *)

(***************************************************************************)
(* Descriptors are open for different things.                              *)
(***************************************************************************)
UsesApart ==
    /\ ConnUse # Closed /\ ReqUse # Closed
    /\ ConnUse # ReqUse
    /\ \A q : KickUse(q) \notin {Closed, ConnUse, ReqUse}
    /\ \A q : CallUse(q) \notin {Closed, ConnUse, ReqUse}
    /\ \A t, i : MemUse(t, i) \notin {Closed, ConnUse, ReqUse}
    /\ \A q, r : KickUse(q) # CallUse(r)
    /\ \A q, t, i : KickUse(q) # MemUse(t, i)
    /\ \A q, t, i : CallUse(q) # MemUse(t, i)
    /\ \A q, r : KickUse(q) = KickUse(r) => q = r
    /\ \A q, r : CallUse(q) = CallUse(r) => q = r
    /\ \A t, i, s, j : MemUse(t, i) = MemUse(s, j) => t = s /\ i = j

LEMMA UsesAreApart == UsesApart
<1>1. \A k, i, l, j : Use(k, i) = Use(l, j) => k = l /\ i = j
  <2>1. ASSUME NEW k, NEW i, NEW l, NEW j, Use(k, i) = Use(l, j) PROVE k = l /\ i = j
    <3>1. Use(k, i).kind = k /\ Use(k, i).id = i /\ Use(l, j).kind = l /\ Use(l, j).id = j
      BY DEF Use
    <3> QED
      BY <2>1, <3>1
  <2> QED
    BY <2>1
<1>2. \A q, r : <<q>> = <<r>> => q = r
  <2>1. ASSUME NEW q, NEW r, <<q>> = <<r>> PROVE q = r
    <3>1. <<q>>[1] = q /\ <<r>>[1] = r
      OBVIOUS
    <3> QED
      BY <2>1, <3>1
  <2> QED
    BY <2>1
<1>3. \A t, i, s, j : <<t, i>> = <<s, j>> => t = s /\ i = j
  <2>1. ASSUME NEW t, NEW i, NEW s, NEW j, <<t, i>> = <<s, j>> PROVE t = s /\ i = j
    <3>1. <<t, i>>[1] = t /\ <<s, j>>[1] = s /\ <<t, i>>[2] = i /\ <<s, j>>[2] = j
      OBVIOUS
    <3> QED
      BY <2>1, <3>1
  <2> QED
    BY <2>1
<1>4. \A i, j : /\ Use("conn", i) # Use("closed", j) /\ Use("req", i) # Use("closed", j)
               /\ Use("kick", i) # Use("closed", j) /\ Use("call", i) # Use("closed", j)
               /\ Use("mem", i) # Use("closed", j) /\ Use("conn", i) # Use("req", j)
               /\ Use("kick", i) # Use("conn", j) /\ Use("kick", i) # Use("req", j)
               /\ Use("call", i) # Use("conn", j) /\ Use("call", i) # Use("req", j)
               /\ Use("mem", i) # Use("conn", j) /\ Use("mem", i) # Use("req", j)
               /\ Use("kick", i) # Use("call", j) /\ Use("kick", i) # Use("mem", j)
               /\ Use("call", i) # Use("mem", j)
  BY <1>1
<1> QED
  BY <1>1, <1>2, <1>3, <1>4
  DEF UsesApart, Closed, ConnUse, ReqUse, KickUse, CallUse, MemUse

LEMMA NoFdIsNone == NoFd \notin Fd /\ FdOrNone = Fd \cup {NoFd} /\ MaxFd \in Nat
  BY BoundAssumption DEF Fd, NoFd, FdOrNone

(***************************************************************************)
(* What usfstl_vhost_user_get_msg_fds() finds: closed descriptors so far,  *)
(* each once.                                                              *)
(***************************************************************************)
LEMMA GivenProperties ==
    ASSUME NEW tb, NEW n \in Nat, NEW fds \in Given(tb, n)
    PROVE  /\ fds \in [1..n -> Fd]
           /\ \A k \in 1..n : tb[fds[k]] = Closed
           /\ \A j, k \in 1..n : fds[j] = fds[k] => j = k
<1> DEFINE free == {f \in Fd : tb[f] = Closed}
<1>1. /\ fds \in [1..n -> free]
      /\ \A j, k \in 1..n : j < k => fds[j] < fds[k]
  BY DEF Given
<1>2. \A k \in 1..n : fds[k] \in Fd /\ tb[fds[k]] = Closed
  BY <1>1
<1>3. fds \in [1..n -> Fd]
  BY <1>1
<1>4. \A k \in 1..n : fds[k] \in Int
  BY <1>2, NoFdIsNone DEF Fd
<1>5. \A j, k \in 1..n : fds[j] = fds[k] => j = k
  BY <1>1, <1>4
<1> QED
  BY <1>2, <1>3, <1>5

(***************************************************************************)
(* The table with them: each is open for what it was sent for.             *)
(***************************************************************************)
LEMMA OpenedProperties ==
    ASSUME NEW tb, NEW n \in Nat, NEW fds \in [1..n -> Fd], NEW uses,
           \A j, k \in 1..n : fds[j] = fds[k] => j = k
    PROVE  /\ Opened(tb, fds, uses) = [f \in Fd |-> Opened(tb, fds, uses)[f]]
           /\ \A k \in 1..n : Opened(tb, fds, uses)[fds[k]] = uses[k]
           /\ \A f \in Fd : (\A k \in 1..n : fds[k] # f) => Opened(tb, fds, uses)[f] = tb[f]
<1>1. \A f \in Fd : f \in Range(fds) <=> \E k \in 1..n : fds[k] = f
  BY DEF Range
<1>2. \A f \in Fd : Opened(tb, fds, uses)[f] =
          IF f \in Range(fds) THEN uses[CHOOSE k \in DOMAIN fds : fds[k] = f] ELSE tb[f]
  BY DEF Opened
<1>3. ASSUME NEW k \in 1..n PROVE Opened(tb, fds, uses)[fds[k]] = uses[k]
  <2> DEFINE m == CHOOSE j \in DOMAIN fds : fds[j] = fds[k]
  <2>1. fds[k] \in Fd /\ fds[k] \in Range(fds) /\ k \in DOMAIN fds
    BY <1>1
  <2>2. m \in DOMAIN fds /\ fds[m] = fds[k]
    BY <2>1
  <2>3. m = k
    <3> HIDE DEF m
    <3> QED
      BY <2>2
  <2>4. Opened(tb, fds, uses)[fds[k]] = uses[m]
    BY <1>2, <2>1
  <2> QED
    BY <2>3, <2>4
<1>4. Opened(tb, fds, uses) = [f \in Fd |-> Opened(tb, fds, uses)[f]]
  BY DEF Opened
<1>5. \A f \in Fd : (\A k \in 1..n : fds[k] # f) => Opened(tb, fds, uses)[f] = tb[f]
  BY <1>1, <1>2
<1> QED
  BY <1>3, <1>4, <1>5

LEMMA ShutProperties ==
    ASSUME NEW tb, NEW field
    PROVE  /\ Shut(tb, field) = [f \in Fd |-> Shut(tb, field)[f]]
           /\ \A f \in Fd : Shut(tb, field)[f] =
                 IF \E i \in DOMAIN field : field[i] = f THEN Closed ELSE tb[f]
<1>1. \A f : f \in Range(field) <=> \E i \in DOMAIN field : field[i] = f
  BY DEF Range
<1>2. Shut(tb, field) = [f \in Fd |-> Shut(tb, field)[f]]
  BY DEF Shut
<1> QED
  BY <1>1, <1>2 DEF Shut

(***************************************************************************)
(* A message brings a descriptor for a field, or none, and the old one is  *)
(* closed: the old one was open and is not the new one.                    *)
(***************************************************************************)
IsReplaced(tb, u, new, tb2) ==
    /\ tb2 = [f \in Fd |-> tb2[f]]
    /\ \A f \in Fd : tb2[f] = IF f = new THEN u ELSE IF tb[f] = u THEN Closed ELSE tb[f]
    /\ new \in FdOrNone
    /\ new \in Fd => tb[new] = Closed

LEMMA FieldReplaced ==
    ASSUME NEW tb, NEW u, u # Closed, NEW old \in FdOrNone,
           \A f \in Fd : tb[f] = u <=> old = f,
           NEW field, \A i \in DOMAIN field : field[i] = old,
           \A i, j \in DOMAIN field : i = j, old # NoFd => DOMAIN field # {},
           NEW n \in 0..1, NEW fds \in Given(tb, n)
    PROVE  /\ ~ClosedTwice(Opened(tb, fds, <<u>>), field)
           /\ IsReplaced(tb, u, First(n, fds), Shut(Opened(tb, fds, <<u>>), field))
<1> DEFINE op == Opened(tb, fds, <<u>>)
           sh == Shut(op, field)
           new == First(n, fds)
<1>1. n \in Nat /\ (n = 0 \/ n = 1)
  OBVIOUS
<1>2. /\ fds \in [1..n -> Fd]
      /\ \A k \in 1..n : tb[fds[k]] = Closed
      /\ \A j, k \in 1..n : fds[j] = fds[k] => j = k
  BY <1>1, GivenProperties
<1>3. /\ \A k \in 1..n : op[fds[k]] = <<u>>[k]
      /\ \A f \in Fd : (\A k \in 1..n : fds[k] # f) => op[f] = tb[f]
  BY <1>1, <1>2, OpenedProperties
<1>4. /\ new \in FdOrNone
      /\ new \in Fd => tb[new] = Closed
      /\ \A f \in Fd : op[f] = IF f = new THEN u ELSE tb[f]
  <2>1. CASE n = 1
    <3>1. new = fds[1] /\ <<u>>[1] = u
      BY <2>1 DEF First
    <3> HIDE DEF op, new
    <3>2. 1..n = {1}
      BY <2>1
    <3> QED
      BY <3>1, <3>2, <1>2, <1>3, NoFdIsNone
  <2>2. CASE n = 0
    <3>1. new = NoFd /\ 1..n = {}
      BY <2>2 DEF First
    <3> HIDE DEF op, new
    <3> QED
      BY <3>1, <1>3, NoFdIsNone
  <2> QED
    BY <1>1, <2>1, <2>2
<1>5. \A f \in Fd : (\E i \in DOMAIN field : field[i] = f) <=> old = f
  BY NoFdIsNone
<1>6. /\ sh = [f \in Fd |-> sh[f]]
      /\ \A f \in Fd : sh[f] = IF old = f THEN Closed ELSE op[f]
  <2> HIDE DEF op
  <2>1. /\ sh = [f \in Fd |-> sh[f]]
        /\ \A f \in Fd : sh[f] =
              IF \E i \in DOMAIN field : field[i] = f THEN Closed ELSE op[f]
    BY ShutProperties
  <2> HIDE DEF sh
  <2> QED
    BY <2>1, <1>5
<1>7. ~ClosedTwice(op, field)
  <2>1. old # NoFd => old \in Fd /\ tb[old] = u
    BY NoFdIsNone
  <2>2. old # NoFd => op[old] = u
    <3> HIDE DEF op, new
    <3> QED
      BY <2>1, <1>4
  <2> HIDE DEF op
  <2> QED
    BY <2>2 DEF ClosedTwice
<1> HIDE DEF op, sh, new
<1>8. \A f \in Fd : sh[f] = IF f = new THEN u ELSE IF tb[f] = u THEN Closed ELSE tb[f]
  <2>1. ASSUME NEW f \in Fd
        PROVE sh[f] = IF f = new THEN u ELSE IF tb[f] = u THEN Closed ELSE tb[f]
    <3>1. CASE f = new
      <4>1. tb[f] = Closed /\ old # f
        BY <3>1, <1>4
      <4> QED
        BY <4>1, <3>1, <1>4, <1>6
    <3>2. CASE f # new
      BY <3>2, <1>4, <1>6
    <3> QED
      BY <3>1, <3>2
  <2> QED
    BY <2>1
<1> QED
  BY <1>4, <1>6, <1>7, <1>8 DEF IsReplaced, op, sh, new

LEMMA KickReplaced ==
    ASSUME NEW tb, NEW d \in DevType, NEW t, Owned(tb, d, t), NEW q \in Queue,
           NEW new, NEW tb2, IsReplaced(tb, KickUse(q), new, tb2), NEW d2,
           d2.entry = d.entry, d2.req_fd = d.req_fd, d2.call_fd = d.call_fd,
           d2.region_fds = d.region_fds,
           \A r \in Queue : d2.kick[r] = IF r = q THEN new ELSE d.kick[r]
    PROVE  Owned(tb2, d2, t)
<1> DEFINE u == KickUse(q)
<1>1. \A f \in Fd : tb2[f] = IF f = new THEN u ELSE IF tb[f] = u THEN Closed ELSE tb[f]
  BY DEF IsReplaced
<1>2. new \in FdOrNone /\ (new \in Fd => tb[new] = Closed)
  BY DEF IsReplaced
<1>3. /\ d2.entry = d.entry /\ d2.req_fd = d.req_fd /\ d2.call_fd = d.call_fd
      /\ d2.region_fds = d.region_fds
      /\ \A r \in Queue : d2.kick[r] = IF r = q THEN new ELSE d.kick[r]
  OBVIOUS
<1>4. UsesApart
  BY UsesAreApart
<1> HIDE DEF u
<1>5. EntryOwned(tb2, d2)
  <2>1. \A f \in Fd : tb2[f] = ConnUse <=> tb[f] = ConnUse
    BY <1>1, <1>2, <1>4 DEF UsesApart, u
  <2> QED
    BY <2>1, <1>3 DEF Owned, EntryOwned
<1>6. ReqOwned(tb2, d2)
  <2>1. \A f \in Fd : tb2[f] = ReqUse <=> tb[f] = ReqUse
    BY <1>1, <1>2, <1>4 DEF UsesApart, u
  <2> QED
    BY <2>1, <1>3 DEF Owned, ReqOwned
<1>7. CallsOwned(tb2, d2)
  <2>1. \A f \in Fd, r \in Queue : tb2[f] = CallUse(r) <=> tb[f] = CallUse(r)
    BY <1>1, <1>2, <1>4 DEF UsesApart, u
  <2> QED
    BY <2>1, <1>3 DEF Owned, CallsOwned
<1>8. RegionsOwned(tb2, d2, t)
  <2>1. \A f \in Fd, i \in Region : tb2[f] = MemUse(t, i) <=> tb[f] = MemUse(t, i)
    BY <1>1, <1>2, <1>4 DEF UsesApart, u
  <2> QED
    BY <2>1, <1>3 DEF Owned, RegionsOwned
<1>9. KnownUses(tb2, t)
  BY <1>1 DEF Owned, KnownUses, u
<1>10. KicksOwned(tb2, d2)
  <2>1. ASSUME NEW f \in Fd, NEW r \in Queue
        PROVE tb2[f] = KickUse(r) <=> d2.kick[r] = f
    <3>1. tb[f] = KickUse(r) <=> d.kick[r] = f
      BY DEF Owned, KicksOwned
    <3>2. u # Closed /\ KickUse(r) # Closed /\ (KickUse(r) = u => r = q)
      BY <1>4 DEF UsesApart, u
    <3>3. CASE r = q
      <4>1. KickUse(r) = u
        BY <3>3 DEF u
      <4> QED
        BY <3>3, <4>1, <3>1, <3>2, <1>1, <1>2, <1>3
    <3>4. CASE r # q
      BY <3>4, <3>1, <3>2, <1>1, <1>2, <1>3
    <3> QED
      BY <3>3, <3>4
  <2> QED
    BY <2>1 DEF KicksOwned
<1> QED
  BY <1>5, <1>6, <1>7, <1>8, <1>9, <1>10 DEF Owned

LEMMA CallReplaced ==
    ASSUME NEW tb, NEW d \in DevType, NEW t, Owned(tb, d, t), NEW q \in Queue,
           NEW new, NEW tb2, IsReplaced(tb, CallUse(q), new, tb2)
    PROVE  Owned(tb2, [d EXCEPT !.call_fd[q] = new], t)
<1> DEFINE u == CallUse(q)
           d2 == [d EXCEPT !.call_fd[q] = new]
<1>1. \A f \in Fd : tb2[f] = IF f = new THEN u ELSE IF tb[f] = u THEN Closed ELSE tb[f]
  BY DEF IsReplaced
<1>2. new \in FdOrNone /\ (new \in Fd => tb[new] = Closed)
  BY DEF IsReplaced
<1>3. /\ d2.entry = d.entry /\ d2.req_fd = d.req_fd /\ d2.kick = d.kick
      /\ d2.region_fds = d.region_fds
      /\ \A r \in Queue : d2.call_fd[r] = IF r = q THEN new ELSE d.call_fd[r]
  BY DEF DevType
<1>4. UsesApart
  BY UsesAreApart
<1> HIDE DEF u, d2
<1>5. EntryOwned(tb2, d2)
  <2>1. \A f \in Fd : tb2[f] = ConnUse <=> tb[f] = ConnUse
    BY <1>1, <1>2, <1>4 DEF UsesApart, u
  <2> QED
    BY <2>1, <1>3 DEF Owned, EntryOwned
<1>6. ReqOwned(tb2, d2)
  <2>1. \A f \in Fd : tb2[f] = ReqUse <=> tb[f] = ReqUse
    BY <1>1, <1>2, <1>4 DEF UsesApart, u
  <2> QED
    BY <2>1, <1>3 DEF Owned, ReqOwned
<1>7. KicksOwned(tb2, d2)
  <2>1. \A f \in Fd, r \in Queue : tb2[f] = KickUse(r) <=> tb[f] = KickUse(r)
    BY <1>1, <1>2, <1>4 DEF UsesApart, u
  <2> QED
    BY <2>1, <1>3 DEF Owned, KicksOwned
<1>8. RegionsOwned(tb2, d2, t)
  <2>1. \A f \in Fd, i \in Region : tb2[f] = MemUse(t, i) <=> tb[f] = MemUse(t, i)
    BY <1>1, <1>2, <1>4 DEF UsesApart, u
  <2> QED
    BY <2>1, <1>3 DEF Owned, RegionsOwned
<1>9. KnownUses(tb2, t)
  BY <1>1 DEF Owned, KnownUses, u
<1>10. CallsOwned(tb2, d2)
  <2>1. ASSUME NEW f \in Fd, NEW r \in Queue
        PROVE tb2[f] = CallUse(r) <=> d2.call_fd[r] = f
    <3>1. tb[f] = CallUse(r) <=> d.call_fd[r] = f
      BY DEF Owned, CallsOwned
    <3>2. u # Closed /\ CallUse(r) # Closed /\ (CallUse(r) = u => r = q)
      BY <1>4 DEF UsesApart, u
    <3>3. CASE r = q
      <4>1. CallUse(r) = u
        BY <3>3 DEF u
      <4> QED
        BY <3>3, <4>1, <3>1, <3>2, <1>1, <1>2, <1>3
    <3>4. CASE r # q
      BY <3>4, <3>1, <3>2, <1>1, <1>2, <1>3
    <3> QED
      BY <3>3, <3>4
  <2> QED
    BY <2>1 DEF CallsOwned
<1> QED
  BY <1>5, <1>6, <1>7, <1>8, <1>9, <1>10 DEF Owned, d2

LEMMA ReqReplaced ==
    ASSUME NEW tb, NEW d \in DevType, NEW t, Owned(tb, d, t),
           NEW new, NEW tb2, IsReplaced(tb, ReqUse, new, tb2)
    PROVE  Owned(tb2, [d EXCEPT !.req_fd = new], t)
<1> DEFINE u == ReqUse
           d2 == [d EXCEPT !.req_fd = new]
<1>1. \A f \in Fd : tb2[f] = IF f = new THEN u ELSE IF tb[f] = u THEN Closed ELSE tb[f]
  BY DEF IsReplaced
<1>2. new \in FdOrNone /\ (new \in Fd => tb[new] = Closed)
  BY DEF IsReplaced
<1>3. /\ d2.entry = d.entry /\ d2.req_fd = new /\ d2.kick = d.kick
      /\ d2.region_fds = d.region_fds /\ d2.call_fd = d.call_fd
  BY DEF DevType
<1>4. UsesApart
  BY UsesAreApart
<1> HIDE DEF u, d2
<1>5. EntryOwned(tb2, d2)
  <2>1. \A f \in Fd : tb2[f] = ConnUse <=> tb[f] = ConnUse
    BY <1>1, <1>2, <1>4 DEF UsesApart, u
  <2> QED
    BY <2>1, <1>3 DEF Owned, EntryOwned
<1>6. ReqOwned(tb2, d2)
  <2>1. \A f \in Fd : tb[f] = u <=> d.req_fd = f
    BY DEF Owned, ReqOwned, u
  <2>2. u # Closed
    BY <1>4 DEF UsesApart, u
  <2>3. \A f \in Fd : tb2[f] = u <=> d2.req_fd = f
    BY <2>1, <2>2, <1>1, <1>2, <1>3
  <2> QED
    BY <2>3 DEF ReqOwned, u
<1>7. KicksOwned(tb2, d2)
  <2>1. \A f \in Fd, r \in Queue : tb2[f] = KickUse(r) <=> tb[f] = KickUse(r)
    BY <1>1, <1>2, <1>4 DEF UsesApart, u
  <2> QED
    BY <2>1, <1>3 DEF Owned, KicksOwned
<1>8. RegionsOwned(tb2, d2, t)
  <2>1. \A f \in Fd, i \in Region : tb2[f] = MemUse(t, i) <=> tb[f] = MemUse(t, i)
    BY <1>1, <1>2, <1>4 DEF UsesApart, u
  <2> QED
    BY <2>1, <1>3 DEF Owned, RegionsOwned
<1>9. KnownUses(tb2, t)
  BY <1>1 DEF Owned, KnownUses, u
<1>10. CallsOwned(tb2, d2)
  <2>1. \A f \in Fd, r \in Queue : tb2[f] = CallUse(r) <=> tb[f] = CallUse(r)
    BY <1>1, <1>2, <1>4 DEF UsesApart, u
  <2> QED
    BY <2>1, <1>3 DEF Owned, CallsOwned
<1> QED
  BY <1>5, <1>6, <1>7, <1>8, <1>9, <1>10 DEF Owned, d2

(***************************************************************************)
(* A memory table brings a descriptor for each of its regions, and the old *)
(* ones are closed.                                                        *)
(***************************************************************************)
LEMMA RegionsReplaced ==
    ASSUME NEW tb, NEW d \in DevType, NEW t, Owned(tb, d, t),
           NEW t2, NEW n \in Nat, n <= MaxRegions, NEW fds \in Given(tb, n),
           NEW uses, \A i \in 1..n : uses[i] = MemUse(t2, i),
           NEW d2, d2.entry = d.entry, d2.req_fd = d.req_fd, d2.kick = d.kick,
           d2.call_fd = d.call_fd,
           \A i \in Region : d2.region_fds[i] = IF i <= n THEN fds[i] ELSE NoFd
    PROVE  /\ ~ClosedTwice(Opened(tb, fds, uses), d.region_fds)
           /\ Owned(Shut(Opened(tb, fds, uses), d.region_fds), d2, t2)
<1> DEFINE op == Opened(tb, fds, uses)
           tb2 == Shut(op, d.region_fds)
<1>1. /\ fds \in [1..n -> Fd]
      /\ \A k \in 1..n : tb[fds[k]] = Closed
      /\ \A j, k \in 1..n : fds[j] = fds[k] => j = k
  BY GivenProperties
<1>2. /\ \A k \in 1..n : op[fds[k]] = MemUse(t2, k)
      /\ \A f \in Fd : (\A k \in 1..n : fds[k] # f) => op[f] = tb[f]
  BY <1>1, OpenedProperties
<1>3. DOMAIN d.region_fds = Region /\ \A i \in Region : d.region_fds[i] \in FdOrNone
  BY DEF DevType
<1> HIDE DEF op
<1>4. \A f \in Fd : tb2[f] = IF \E i \in Region : d.region_fds[i] = f THEN Closed ELSE op[f]
  BY <1>3, ShutProperties
<1> HIDE DEF tb2
<1>5. UsesApart
  BY UsesAreApart
<1>6. \A f \in Fd, i \in Region : tb[f] = MemUse(t, i) <=> d.region_fds[i] = f
  BY DEF Owned, RegionsOwned
<1>7. \A f \in Fd : tb[f] = Closed => \A i \in Region : d.region_fds[i] # f
  BY <1>6, <1>5 DEF UsesApart
<1>8. \A k \in 1..n : tb2[fds[k]] = MemUse(t2, k)
  BY <1>1, <1>2, <1>4, <1>7
<1>9. ASSUME NEW f \in Fd, \A k \in 1..n : fds[k] # f
      PROVE  tb2[f] = IF \E i \in Region : tb[f] = MemUse(t, i) THEN Closed ELSE tb[f]
  BY <1>2, <1>4, <1>6, <1>9
<1>10. \A i \in 1..n : i \in Region
  BY BoundAssumption DEF Region
<1>11. ~ClosedTwice(op, d.region_fds)
  <2>1. SUFFICES ASSUME NEW i \in Region, d.region_fds[i] # NoFd,
                        \/ op[d.region_fds[i]] = Closed
                        \/ \E j \in Region \ {i} : d.region_fds[j] = d.region_fds[i]
                 PROVE FALSE
    BY <1>3 DEF ClosedTwice
  <2> DEFINE g == d.region_fds[i]
  <2>2. g \in Fd
    BY <2>1, <1>3, NoFdIsNone
  <2>3. tb[g] = MemUse(t, i)
    BY <2>2, <1>6
  <2>4. tb[g] # Closed
    BY <2>3, <1>5 DEF UsesApart
  <2>5. op[g] = tb[g]
    BY <2>2, <2>4, <1>1, <1>2
  <2>6. PICK j \in Region \ {i} : d.region_fds[j] = g
    BY <2>1, <2>4, <2>5
  <2>7. MemUse(t, i) = MemUse(t, j)
    BY <2>2, <2>3, <2>6, <1>6
  <2>8. i = j
    BY <2>7, <1>5 DEF UsesApart
  <2> QED
    BY <2>6, <2>8
<1>12. ASSUME NEW v, v # Closed, \A s, i : v # MemUse(s, i)
       PROVE  \A f \in Fd : tb2[f] = v <=> tb[f] = v
  <2>1. ASSUME NEW f \in Fd PROVE tb2[f] = v <=> tb[f] = v
    <3>1. CASE \E k \in 1..n : fds[k] = f
      BY <3>1, <1>1, <1>8, <1>12
    <3>2. CASE \A k \in 1..n : fds[k] # f
      BY <3>2, <1>9, <1>12
    <3> QED
      BY <3>1, <3>2
  <2> QED
    BY <2>1
<1>13. EntryOwned(tb2, d2)
  <2>1. \A f \in Fd : tb2[f] = ConnUse <=> tb[f] = ConnUse
    <3>1. ConnUse # Closed /\ \A s, i : ConnUse # MemUse(s, i)
      BY <1>5 DEF UsesApart
    <3> QED
      BY <3>1, <1>12
  <2> QED
    BY <2>1 DEF Owned, EntryOwned
<1>14. ReqOwned(tb2, d2)
  <2>1. \A f \in Fd : tb2[f] = ReqUse <=> tb[f] = ReqUse
    <3>1. ReqUse # Closed /\ \A s, i : ReqUse # MemUse(s, i)
      BY <1>5 DEF UsesApart
    <3> QED
      BY <3>1, <1>12
  <2> QED
    BY <2>1 DEF Owned, ReqOwned
<1>15. KicksOwned(tb2, d2)
  <2>1. ASSUME NEW q \in Queue PROVE \A f \in Fd : tb2[f] = KickUse(q) <=> tb[f] = KickUse(q)
    <3>1. KickUse(q) # Closed /\ \A s, i : KickUse(q) # MemUse(s, i)
      BY <1>5 DEF UsesApart
    <3> QED
      BY <3>1, <1>12
  <2> QED
    BY <2>1 DEF Owned, KicksOwned
<1>16. CallsOwned(tb2, d2)
  <2>1. ASSUME NEW q \in Queue PROVE \A f \in Fd : tb2[f] = CallUse(q) <=> tb[f] = CallUse(q)
    <3>1. CallUse(q) # Closed /\ \A s, i : CallUse(q) # MemUse(s, i)
      BY <1>5 DEF UsesApart
    <3> QED
      BY <3>1, <1>12
  <2> QED
    BY <2>1 DEF Owned, CallsOwned
<1>17. \A f \in Fd : (\A k \in 1..n : fds[k] # f) =>
            /\ \A s, i : tb2[f] # MemUse(s, i)
            /\ tb2[f] \in {Closed, tb[f]}
  <2>1. SUFFICES ASSUME NEW f \in Fd, \A k \in 1..n : fds[k] # f
                 PROVE  (\A s, i : tb2[f] # MemUse(s, i)) /\ tb2[f] \in {Closed, tb[f]}
    OBVIOUS
  <2>2. CASE \E i \in Region : tb[f] = MemUse(t, i)
    BY <2>1, <2>2, <1>9, <1>5 DEF UsesApart
  <2>3. CASE ~ \E i \in Region : tb[f] = MemUse(t, i)
    <3>1. tb2[f] = tb[f]
      BY <2>1, <2>3, <1>9
    <3>2. \/ tb[f] \in {Closed, ConnUse, ReqUse}
          \/ \E q \in Queue : tb[f] \in {KickUse(q), CallUse(q)}
      BY <2>3 DEF Owned, KnownUses
    <3> QED
      BY <3>1, <3>2, <1>5 DEF UsesApart
  <2> QED
    BY <2>2, <2>3
<1>18. RegionsOwned(tb2, d2, t2)
  <2>1. ASSUME NEW f \in Fd, NEW i \in Region
        PROVE  tb2[f] = MemUse(t2, i) <=> d2.region_fds[i] = f
    <3>0. i \in Int /\ (i <= n => i \in 1..n)
      BY BoundAssumption DEF Region
    <3>1. CASE \E k \in 1..n : fds[k] = f
      <4>1. PICK k \in 1..n : fds[k] = f
        BY <3>1
      <4>2. tb2[f] = MemUse(t2, k)
        BY <4>1, <1>8
      <4>3. tb2[f] = MemUse(t2, i) <=> k = i
        BY <4>2, <1>5 DEF UsesApart
      <4>4. d2.region_fds[i] = f <=> k = i
        BY <4>1, <3>0, <1>1, NoFdIsNone
      <4> QED
        BY <4>3, <4>4
    <3>2. CASE \A k \in 1..n : fds[k] # f
      <4>1. tb2[f] # MemUse(t2, i)
        BY <3>2, <1>17
      <4>2. d2.region_fds[i] # f
        BY <3>2, <3>0, NoFdIsNone
      <4> QED
        BY <4>1, <4>2
    <3> QED
      BY <3>1, <3>2
  <2> QED
    BY <2>1 DEF RegionsOwned
<1>19. KnownUses(tb2, t2)
  <2>1. ASSUME NEW f \in Fd
        PROVE  \/ tb2[f] \in {Closed, ConnUse, ReqUse}
               \/ \E q \in Queue : tb2[f] \in {KickUse(q), CallUse(q)}
               \/ \E i \in Region : tb2[f] = MemUse(t2, i)
    <3>1. CASE \E k \in 1..n : fds[k] = f
      BY <3>1, <1>8, <1>10
    <3>2. CASE \A k \in 1..n : fds[k] # f
      <4>1. tb2[f] \in {Closed, tb[f]} /\ \A s, i : tb2[f] # MemUse(s, i)
        BY <3>2, <1>17
      <4> QED
        BY <4>1 DEF Owned, KnownUses
    <3> QED
      BY <3>1, <3>2
  <2> QED
    BY <2>1 DEF KnownUses
<1> QED
  BY <1>11, <1>13, <1>14, <1>15, <1>16, <1>18, <1>19 DEF Owned, op, tb2

(***************************************************************************)
(* The end of a device: whatever was open is closed, field by field, and   *)
(* nothing is closed twice.                                                *)
(***************************************************************************)
Kicks(d) == [q \in {r \in Queue : d.kick[r] # NoFd} |-> d.kick[q]]
T1(tb, d) == Shut(tb, Kicks(d))
T2(tb, d) == Shut(T1(tb, d), d.call_fd)
T3(tb, d) == Shut(T2(tb, d), d.region_fds)
T4(tb, d) == Shut(T3(tb, d), <<d.req_fd>>)
T5(tb, d) == Shut(T4(tb, d), <<d.entry>>)

\* the descriptors of a field are open for uses of its own, each for one
LEMMA ClosedOnce ==
    ASSUME NEW tb, NEW field, \A i \in DOMAIN field : field[i] \in FdOrNone,
           NEW u, \A i \in DOMAIN field : u[i] # Closed,
           \A i, j \in DOMAIN field : u[i] = u[j] => i = j,
           \A f \in Fd, i \in DOMAIN field : field[i] = f => tb[f] = u[i]
    PROVE  ~ClosedTwice(tb, field)
<1>1. SUFFICES ASSUME NEW i \in DOMAIN field, field[i] # NoFd,
                      \/ tb[field[i]] = Closed
                      \/ \E j \in DOMAIN field \ {i} : field[j] = field[i]
               PROVE FALSE
  BY DEF ClosedTwice
<1>2. field[i] \in Fd
  BY <1>1, NoFdIsNone
<1>3. tb[field[i]] = u[i] /\ u[i] # Closed
  BY <1>2
<1>4. PICK j \in DOMAIN field \ {i} : field[j] = field[i]
  BY <1>1, <1>3
<1>5. tb[field[i]] = u[j]
  BY <1>2, <1>4
<1> QED
  BY <1>3, <1>4, <1>5

LEMMA DeviceClosed ==
    ASSUME NEW tb, NEW d \in DevType, NEW t, Owned(tb, d, t)
    PROVE  /\ ~ClosedTwice(tb, Kicks(d)) /\ ~ClosedTwice(T1(tb, d), d.call_fd)
           /\ ~ClosedTwice(T2(tb, d), d.region_fds)
           /\ ~ClosedTwice(T3(tb, d), <<d.req_fd>>)
           /\ ~ClosedTwice(T4(tb, d), <<d.entry>>)
           /\ T5(tb, d) = [f \in Fd |-> Closed]
<1>1. UsesApart
  BY UsesAreApart
<1>2. /\ d.entry \in FdOrNone /\ d.req_fd \in FdOrNone
      /\ d.call_fd \in [Queue -> FdOrNone] /\ d.region_fds \in [Region -> FdOrNone]
      /\ d.kick \in [Queue -> FdOrNone]
  BY DEF DevType
<1> DEFINE S == {r \in Queue : d.kick[r] # NoFd}
           kicks == Kicks(d)
           a == T1(tb, d)
           b == T2(tb, d)
           c == T3(tb, d)
           e == T4(tb, d)
           z == T5(tb, d)
<1>3. DOMAIN kicks = S /\ \A q \in S : kicks[q] = d.kick[q]
  BY DEF Kicks
<1>4. \A f \in Fd, q \in Queue : tb[f] = KickUse(q) <=> d.kick[q] = f
  BY DEF Owned, KicksOwned
<1>5. \A f \in Fd, q \in Queue : tb[f] = CallUse(q) <=> d.call_fd[q] = f
  BY DEF Owned, CallsOwned
<1>6. \A f \in Fd, i \in Region : tb[f] = MemUse(t, i) <=> d.region_fds[i] = f
  BY DEF Owned, RegionsOwned
<1>7. \A f \in Fd : tb[f] = ReqUse <=> d.req_fd = f
  BY DEF Owned, ReqOwned
<1>8. \A f \in Fd : tb[f] = ConnUse <=> d.entry = f
  BY DEF Owned, EntryOwned
<1>9. DOMAIN <<d.req_fd>> = {1} /\ <<d.req_fd>>[1] = d.req_fd
      /\ DOMAIN <<d.entry>> = {1} /\ <<d.entry>>[1] = d.entry
  OBVIOUS
<1>10. \A f \in Fd : a[f] = IF \E q \in Queue : tb[f] = KickUse(q) THEN Closed ELSE tb[f]
  <2>1. \A f \in Fd : (\E q \in S : kicks[q] = f) <=> \E q \in Queue : tb[f] = KickUse(q)
    BY <1>3, <1>4, NoFdIsNone
  <2>2. \A f \in Fd : a[f] = IF \E q \in DOMAIN kicks : kicks[q] = f THEN Closed ELSE tb[f]
    BY ShutProperties DEF T1
  <2> HIDE DEF a, kicks, S
  <2> QED
    BY <2>1, <2>2, <1>3
<1> HIDE DEF a
<1>11. \A f \in Fd : b[f] = IF \E q \in Queue : tb[f] = CallUse(q) THEN Closed ELSE a[f]
  <2>1. \A f \in Fd : b[f] = IF \E q \in DOMAIN d.call_fd : d.call_fd[q] = f
                             THEN Closed ELSE a[f]
    BY ShutProperties DEF T2, a
  <2> HIDE DEF b
  <2> QED
    BY <2>1, <1>2, <1>5
<1> HIDE DEF b
<1>12. \A f \in Fd : c[f] = IF \E i \in Region : tb[f] = MemUse(t, i) THEN Closed ELSE b[f]
  <2>1. \A f \in Fd : c[f] = IF \E i \in DOMAIN d.region_fds : d.region_fds[i] = f
                             THEN Closed ELSE b[f]
    BY ShutProperties DEF T3, b
  <2> HIDE DEF c
  <2> QED
    BY <2>1, <1>2, <1>6
<1> HIDE DEF c
<1>13. \A f \in Fd : e[f] = IF tb[f] = ReqUse THEN Closed ELSE c[f]
  <2>1. \A f \in Fd : e[f] = IF \E i \in DOMAIN <<d.req_fd>> : <<d.req_fd>>[i] = f
                             THEN Closed ELSE c[f]
    BY ShutProperties DEF T4, c
  <2>2. \A f : (\E i \in DOMAIN <<d.req_fd>> : <<d.req_fd>>[i] = f) <=> d.req_fd = f
    BY <1>9
  <2> HIDE DEF e
  <2> QED
    BY <2>1, <2>2, <1>7
<1> HIDE DEF e
<1>14. /\ \A f \in Fd : z[f] = IF tb[f] = ConnUse THEN Closed ELSE e[f]
       /\ z = [f \in Fd |-> z[f]]
  <2>1. /\ \A f \in Fd : z[f] = IF \E i \in DOMAIN <<d.entry>> : <<d.entry>>[i] = f
                             THEN Closed ELSE e[f]
        /\ z = [f \in Fd |-> z[f]]
    BY ShutProperties DEF T5, e
  <2>2. \A f : (\E i \in DOMAIN <<d.entry>> : <<d.entry>>[i] = f) <=> d.entry = f
    BY <1>9
  <2> HIDE DEF z
  <2> QED
    BY <2>1, <2>2, <1>8
<1> HIDE DEF z
<1>15. ~ClosedTwice(tb, kicks)
  <2> DEFINE u == [q \in Queue |-> KickUse(q)]
  <2>1. \A i \in DOMAIN kicks : kicks[i] \in FdOrNone
    BY <1>2, <1>3
  <2>2. \A i \in DOMAIN kicks : u[i] # Closed
    BY <1>1, <1>3 DEF UsesApart
  <2>3. \A i, j \in DOMAIN kicks : u[i] = u[j] => i = j
    <3>1. ASSUME NEW i \in Queue, NEW j \in Queue, KickUse(i) = KickUse(j) PROVE i = j
      BY <3>1, <1>1 DEF UsesApart
    <3> QED
      BY <3>1, <1>3
  <2>4. \A f \in Fd, i \in DOMAIN kicks : kicks[i] = f => tb[f] = u[i]
    BY <1>3, <1>4
  <2> HIDE DEF u, kicks
  <2> QED
    BY <2>1, <2>2, <2>3, <2>4, ClosedOnce
<1>16. ~ClosedTwice(a, d.call_fd)
  <2> DEFINE u == [q \in Queue |-> CallUse(q)]
             fld == d.call_fd
  <2>1. DOMAIN fld = Queue /\ \A i \in DOMAIN fld : fld[i] \in FdOrNone
    BY <1>2
  <2>2. \A i \in DOMAIN fld : u[i] # Closed
    BY <1>1, <2>1 DEF UsesApart
  <2>3. \A i, j \in DOMAIN fld : u[i] = u[j] => i = j
    <3>1. ASSUME NEW i \in Queue, NEW j \in Queue, CallUse(i) = CallUse(j) PROVE i = j
      BY <3>1, <1>1 DEF UsesApart
    <3> QED
      BY <3>1, <2>1
  <2>4. \A f \in Fd, i \in DOMAIN fld : fld[i] = f => a[f] = u[i]
    <3>1. ASSUME NEW f \in Fd, NEW i \in Queue, tb[f] = CallUse(i) PROVE a[f] = CallUse(i)
      <4>1. \A q \in Queue : tb[f] # KickUse(q)
        BY <3>1, <1>1 DEF UsesApart
      <4> QED
        BY <4>1, <3>1, <1>10
    <3> QED
      BY <3>1, <1>5, <2>1
  <2> HIDE DEF u, fld
  <2>5. ~ClosedTwice(a, fld)
    BY <2>1, <2>2, <2>3, <2>4, ClosedOnce
  <2> QED
    BY <2>5 DEF fld
<1>17. ~ClosedTwice(b, d.region_fds)
  <2> DEFINE u == [i \in Region |-> MemUse(t, i)]
             fld == d.region_fds
  <2>1. DOMAIN fld = Region /\ \A i \in DOMAIN fld : fld[i] \in FdOrNone
    BY <1>2
  <2>2. \A i \in DOMAIN fld : u[i] # Closed
    BY <1>1, <2>1 DEF UsesApart
  <2>3. \A i, j \in DOMAIN fld : u[i] = u[j] => i = j
    <3>1. ASSUME NEW i \in Region, NEW j \in Region, MemUse(t, i) = MemUse(t, j) PROVE i = j
      BY <3>1, <1>1 DEF UsesApart
    <3> QED
      BY <3>1, <2>1
  <2>4. \A f \in Fd, i \in DOMAIN fld : fld[i] = f => b[f] = u[i]
    <3>1. ASSUME NEW f \in Fd, NEW i \in Region, tb[f] = MemUse(t, i) PROVE b[f] = MemUse(t, i)
      <4>1. \A q \in Queue : tb[f] # KickUse(q) /\ tb[f] # CallUse(q)
        BY <3>1, <1>1 DEF UsesApart
      <4> QED
        BY <4>1, <3>1, <1>10, <1>11
    <3> QED
      BY <3>1, <1>6, <2>1
  <2> HIDE DEF u, fld
  <2>5. ~ClosedTwice(b, fld)
    BY <2>1, <2>2, <2>3, <2>4, ClosedOnce
  <2> QED
    BY <2>5 DEF fld
<1>18. ASSUME NEW tx, NEW f \in FdOrNone, f \in Fd => tx[f] # Closed
       PROVE  ~ClosedTwice(tx, <<f>>)
  <2>1. DOMAIN <<f>> = {1} /\ <<f>>[1] = f
    OBVIOUS
  <2>2. SUFFICES ASSUME f # NoFd, tx[f] = Closed \/ \E j \in {1} \ {1} : <<f>>[j] = f
                 PROVE FALSE
    BY <2>1 DEF ClosedTwice
  <2> QED
    BY <2>2, <1>18, NoFdIsNone
<1>19. ~ClosedTwice(c, <<d.req_fd>>)
  <2>1. d.req_fd \in Fd => c[d.req_fd] = ReqUse
    BY <1>1, <1>7, <1>10, <1>11, <1>12 DEF UsesApart
  <2> QED
    BY <2>1, <1>1, <1>2, <1>18 DEF UsesApart
<1>20. ~ClosedTwice(e, <<d.entry>>)
  <2>1. d.entry \in Fd => e[d.entry] = ConnUse
    BY <1>1, <1>8, <1>10, <1>11, <1>12, <1>13 DEF UsesApart
  <2> QED
    BY <2>1, <1>1, <1>2, <1>18 DEF UsesApart
<1>21. \A f \in Fd : z[f] = Closed
  <2>1. ASSUME NEW f \in Fd PROVE z[f] = Closed
    <3>1. \/ tb[f] \in {Closed, ConnUse, ReqUse}
          \/ \E q \in Queue : tb[f] \in {KickUse(q), CallUse(q)}
          \/ \E i \in Region : tb[f] = MemUse(t, i)
      BY DEF Owned, KnownUses
    <3> QED
      BY <3>1, <1>10, <1>11, <1>12, <1>13, <1>14
  <2> QED
    BY <2>1
<1>22. z = [f \in Fd |-> Closed]
  BY <1>14, <1>21
<1> QED
  BY <1>15, <1>16, <1>17, <1>19, <1>20, <1>22 DEF a, b, c, e, z, kicks
-----------------------------------------------------------------------------
(* What the handlers make of the four variables.                           *)

Four(tb, d, m, fl) == [table |-> tb, dev |-> d, maps |-> m, faults |-> fl]

LEMMA FourFields ==
    ASSUME NEW tb, NEW d, NEW m, NEW fl
    PROVE  /\ Four(tb, d, m, fl).table = tb /\ Four(tb, d, m, fl).dev = d
           /\ Four(tb, d, m, fl).maps = m /\ Four(tb, d, m, fl).faults = fl
  BY DEF Four

LEMMA FourIsState ==
    ASSUME NEW tb, tb = [f \in Fd |-> tb[f]], NEW d \in DevType, NEW m,
           NEW fl \in SUBSET AllFaults
    PROVE  IsState(Four(tb, d, m, fl))
  BY DEF Four, IsState

FaultIf(fl, on, what) == IF on THEN fl \cup {what} ELSE fl

LEMMA FaultShape ==
    ASSUME NEW tb, NEW d, NEW m, NEW fl, NEW on \in BOOLEAN, NEW what
    PROVE  Fault(Four(tb, d, m, fl), on, what) = Four(tb, d, m, FaultIf(fl, on, what))
  BY DEF Fault, Four, FaultIf

LEMMA CloseAllShape ==
    ASSUME NEW tb, NEW d, NEW m, NEW fl, NEW field
    PROVE  CloseAll(Four(tb, d, m, fl), field) =
              Four(Shut(tb, field), d, m, FaultIf(fl, ClosedTwice(tb, field), "close"))
<1>1. ClosedTwice(tb, field) \in BOOLEAN
  BY DEF ClosedTwice
<1>2. Four(tb, d, m, fl).table = tb
  BY FourFields
<1> DEFINE on == ClosedTwice(tb, field)
           g == FaultIf(fl, on, "close")
<1>3. Fault(Four(tb, d, m, fl), on, "close") = Four(tb, d, m, g)
  <2> HIDE DEF on
  <2>1. on \in BOOLEAN
    BY <1>1 DEF on
  <2> QED
    BY <2>1, FaultShape
<1>4. CloseAll(Four(tb, d, m, fl), field) = [Four(tb, d, m, g) EXCEPT !.table = Shut(@, field)]
  BY <1>2, <1>3 DEF CloseAll
<1> HIDE DEF g
<1>5. [Four(tb, d, m, g) EXCEPT !.table = Shut(@, field)] = Four(Shut(tb, field), d, m, g)
  BY DEF Four
<1> QED
  BY <1>4, <1>5 DEF g

Unmapped(m, d) ==
    {x \in m : \A i \in Region :
        x # [file |-> d.region_vaddr[i].file,
             len |-> d.regions[i].size + d.regions[i].mmap_offset]}

Cleared(d) == [d EXCEPT !.region_vaddr = [i \in Region |-> NoMap],
                        !.region_fds = [i \in Region |-> NoFd]]

LEMMA ClearShape ==
    ASSUME NEW tb, NEW d, NEW m, NEW fl
    PROVE  clear_mappings(Four(tb, d, m, fl)) =
              Four(Shut(tb, d.region_fds), Cleared(d), Unmapped(m, d),
                   FaultIf(fl, ClosedTwice(tb, d.region_fds), "close"))
<1> DEFINE st == Four(tb, d, m, fl)
           g == FaultIf(fl, ClosedTwice(tb, d.region_fds), "close")
           s2 == Shut(tb, d.region_fds)
<1>1. st.dev = d
  BY FourFields
<1>2. CloseAll(st, st.dev.region_fds) = Four(s2, d, m, g)
  BY <1>1, CloseAllShape
<1> HIDE DEF g, s2, st
<1>3. clear_mappings(st) =
        [Four(s2, d, m, g) EXCEPT
            !.maps = {x \in @ : \A i \in Region :
                    x # [file |-> d.region_vaddr[i].file,
                         len |-> d.regions[i].size + d.regions[i].mmap_offset]},
            !.dev.region_vaddr = [i \in Region |-> NoMap],
            !.dev.region_fds = [i \in Region |-> NoFd]]
  BY <1>1, <1>2 DEF clear_mappings
<1>4. clear_mappings(st) = Four(s2, Cleared(d), Unmapped(m, d), g)
  BY <1>3, Zenon DEF Four, Cleared, Unmapped
<1> QED
  BY <1>4 DEF g, s2, st

KicksIn(d, qs) == {q \in qs : d.kick[q] # NoFd}
KickField(d, qs) == [q \in KicksIn(d, qs) |-> d.kick[q]]
Unregistered(d, qs) ==
    [d EXCEPT !.registered = [q \in Queue |-> d.registered[q] /\ q \notin KicksIn(d, qs)]]
DropFaults(fl, tb, d, qs) ==
    FaultIf(FaultIf(fl, \E q \in KicksIn(d, qs) : ~d.registered[q], "unlink"),
            ClosedTwice(tb, KickField(d, qs)), "close")

LEMMA DropShape ==
    ASSUME NEW tb, NEW d, NEW m, NEW fl, NEW qs
    PROVE  DropKicks(Four(tb, d, m, fl), qs) =
              Four(Shut(tb, KickField(d, qs)), Unregistered(d, qs), m,
                   DropFaults(fl, tb, d, qs))
<1> DEFINE st == Four(tb, d, m, fl)
           on == \E q \in KicksIn(d, qs) : ~d.registered[q]
           f1 == FaultIf(fl, on, "unlink")
           f2 == FaultIf(f1, ClosedTwice(tb, KickField(d, qs)), "close")
           s2 == Shut(tb, KickField(d, qs))
<1>1. st.dev = d
  BY FourFields
<1>2. Fault(st, on, "unlink") = Four(tb, d, m, f1)
  <2>1. on \in BOOLEAN
    OBVIOUS
  <2> HIDE DEF on
  <2> QED
    BY <2>1, FaultShape
<1> HIDE DEF f1
<1>3. CloseAll(Four(tb, d, m, f1), KickField(d, qs)) = Four(s2, d, m, f2)
  BY CloseAllShape
<1>4. CloseAll(Fault(st, on, "unlink"), KickField(d, qs)) = Four(s2, d, m, f2)
  BY <1>2, <1>3
<1> HIDE DEF f2, s2, st
<1>5. DropKicks(st, qs) =
        [CloseAll(Fault(st, on, "unlink"), KickField(d, qs)) EXCEPT
            !.dev.registered = [q \in Queue |-> @[q] /\ q \notin KicksIn(d, qs)]]
  BY <1>1, ZenonT(40) DEF DropKicks, KicksIn, KickField
<1>6. DropKicks(st, qs) = Four(s2, Unregistered(d, qs), m, f2)
  <2>1. [Four(s2, d, m, f2) EXCEPT
            !.dev.registered = [q \in Queue |-> @[q] /\ q \notin KicksIn(d, qs)]]
          = Four(s2, [d EXCEPT !.registered = [q \in Queue |-> @[q] /\ q \notin KicksIn(d, qs)]],
                 m, f2)
    BY DEF Four
  <2> QED
    BY <1>4, <1>5, <2>1, Zenon DEF Unregistered
<1> QED
  BY <1>6 DEF f1, f2, s2, st, DropFaults

\* the new kick descriptor of a queue, if any
Kicked(d, q, fd) ==
    IF fd = NoFd THEN Unregistered(d, {q})
    ELSE [Unregistered(d, {q}) EXCEPT !.kick[q] = fd, !.registered[q] = TRUE]

LEMMA NewKickShape ==
    ASSUME NEW tb, NEW d, NEW m, NEW fl, NEW q, NEW n, NEW fds
    PROVE  NewKick(Four(tb, d, m, fl), q, n, fds) =
              Four(Shut(Opened(tb, fds, <<KickUse(q)>>), KickField(d, {q})),
                   Kicked(d, q, First(n, fds)), m,
                   DropFaults(fl, Opened(tb, fds, <<KickUse(q)>>), d, {q}))
<1> DEFINE op == Opened(tb, fds, <<KickUse(q)>>)
           fd == First(n, fds)
           st == Four(op, d, m, fl)
           s2 == Shut(op, KickField(d, {q}))
           f2 == DropFaults(fl, op, d, {q})
<1>1. [Four(tb, d, m, fl) EXCEPT !.table = Opened(@, fds, <<KickUse(q)>>)] = st
  BY DEF Four
<1>2. DropKicks(st, {q}) = Four(s2, Unregistered(d, {q}), m, f2)
  BY DropShape
<1>3. NewKick(Four(tb, d, m, fl), q, n, fds) = update_virtq_kick(st, q, fd)
  BY <1>1 DEF NewKick
<1> HIDE DEF op, st, s2, f2, fd
<1>4. CASE fd = NoFd
  <2>1. update_virtq_kick(st, q, fd) = Four(s2, Unregistered(d, {q}), m, f2)
    BY <1>2, <1>4 DEF update_virtq_kick
  <2> QED
    BY <2>1, <1>3, <1>4 DEF Kicked, op, s2, f2, fd
<1>5. CASE fd # NoFd
  <2>1. update_virtq_kick(st, q, fd) =
          [Four(s2, Unregistered(d, {q}), m, f2) EXCEPT
              !.dev = [@ EXCEPT !.kick[q] = fd, !.registered[q] = TRUE]]
    BY <1>2, <1>5 DEF update_virtq_kick
  <2> DEFINE x == Unregistered(d, {q})
  <2> HIDE DEF x
  <2>2. [Four(s2, x, m, f2) EXCEPT !.dev = [@ EXCEPT !.kick[q] = fd, !.registered[q] = TRUE]]
          = Four(s2, [x EXCEPT !.kick[q] = fd, !.registered[q] = TRUE], m, f2)
    BY DEF Four
  <2>3. Kicked(d, q, fd) = [x EXCEPT !.kick[q] = fd, !.registered[q] = TRUE]
    BY <1>5 DEF Kicked, x
  <2> QED
    BY <2>1, <2>2, <2>3, <1>3 DEF x, op, s2, f2, fd
<1> QED
  BY <1>4, <1>5

WithCall(d, q, fd) == [d EXCEPT !.call_fd[q] = fd]

LEMMA NewCallShape ==
    ASSUME NEW tb, NEW d, NEW m, NEW fl, NEW q, NEW n, NEW fds
    PROVE  NewCall(Four(tb, d, m, fl), q, n, fds) =
              Four(Shut(Opened(tb, fds, <<CallUse(q)>>), <<d.call_fd[q]>>),
                   WithCall(d, q, First(n, fds)), m,
                   FaultIf(fl, ClosedTwice(Opened(tb, fds, <<CallUse(q)>>),
                                           <<d.call_fd[q]>>), "close"))
<1> DEFINE op == Opened(tb, fds, <<CallUse(q)>>)
           fd == First(n, fds)
           st == Four(op, d, m, fl)
           s2 == Shut(op, <<d.call_fd[q]>>)
           f2 == FaultIf(fl, ClosedTwice(op, <<d.call_fd[q]>>), "close")
<1>1. [Four(tb, d, m, fl) EXCEPT !.table = Opened(@, fds, <<CallUse(q)>>)] = st
  BY DEF Four
<1>2. Four(tb, d, m, fl).dev = d
  BY FourFields
<1>3. CloseAll(st, <<d.call_fd[q]>>) = Four(s2, d, m, f2)
  BY CloseAllShape
<1> HIDE DEF op, st, s2, f2, fd
<1>4. NewCall(Four(tb, d, m, fl), q, n, fds) =
        [Four(s2, d, m, f2) EXCEPT !.dev.call_fd[q] = fd]
  BY <1>1, <1>2, <1>3 DEF NewCall, op, fd
<1>5. [Four(s2, d, m, f2) EXCEPT !.dev.call_fd[q] = fd]
        = Four(s2, WithCall(d, q, fd), m, f2)
  BY DEF Four, WithCall
<1> QED
  BY <1>4, <1>5 DEF op, s2, f2, fd

LEMMA NewReqShape ==
    ASSUME NEW tb, NEW d, NEW m, NEW fl, NEW fds
    PROVE  NewReq(Four(tb, d, m, fl), fds) =
              Four(Shut(Opened(tb, fds, <<ReqUse>>), <<d.req_fd>>),
                   [d EXCEPT !.req_fd = fds[1]], m,
                   FaultIf(fl, ClosedTwice(Opened(tb, fds, <<ReqUse>>), <<d.req_fd>>),
                           "close"))
<1> DEFINE op == Opened(tb, fds, <<ReqUse>>)
           st == Four(op, d, m, fl)
           s2 == Shut(op, <<d.req_fd>>)
           f2 == FaultIf(fl, ClosedTwice(op, <<d.req_fd>>), "close")
<1>1. [Four(tb, d, m, fl) EXCEPT !.table = Opened(@, fds, <<ReqUse>>)] = st
  BY DEF Four
<1>2. Four(tb, d, m, fl).dev = d
  BY FourFields
<1>3. CloseAll(st, <<d.req_fd>>) = Four(s2, d, m, f2)
  BY CloseAllShape
<1> HIDE DEF op, st, s2, f2
<1>4. NewReq(Four(tb, d, m, fl), fds) = [Four(s2, d, m, f2) EXCEPT !.dev.req_fd = fds[1]]
  BY <1>1, <1>2, <1>3 DEF NewReq, op
<1>5. [Four(s2, d, m, f2) EXCEPT !.dev.req_fd = fds[1]]
        = Four(s2, [d EXCEPT !.req_fd = fds[1]], m, f2)
  BY DEF Four
<1> QED
  BY <1>4, <1>5 DEF op, s2, f2

MemUses(t) == [i \in DOMAIN Tables[t] |-> MemUse(t, i)]

Remapped(d, t, fds) == setup_mappings(Cleared(d), t, fds)

NewMaps(t) == {MappingOf(t, i) : i \in DOMAIN Tables[t]}
MapsAfter(m, d, t) == Unmapped(m, d) \cup NewMaps(t)

LEMMA MappedTableShape ==
    ASSUME NEW tb, NEW d, NEW m, NEW fl, NEW t, NEW fds
    PROVE  MappedTable(Four(tb, d, m, fl), t, fds) =
              Four(Shut(Opened(tb, fds, MemUses(t)), d.region_fds), Remapped(d, t, fds),
                   MapsAfter(m, d, t),
                   FaultIf(fl, ClosedTwice(Opened(tb, fds, MemUses(t)), d.region_fds),
                           "close"))
<1> DEFINE op == Opened(tb, fds, MemUses(t))
           st == Four(op, d, m, fl)
           s2 == Shut(op, d.region_fds)
           f2 == FaultIf(fl, ClosedTwice(op, d.region_fds), "close")
           c == Cleared(d)
           u == Unmapped(m, d)
<1>1. [Four(tb, d, m, fl) EXCEPT !.table = op] = st
  BY DEF Four
<1>2. Four(tb, d, m, fl).table = tb
  BY FourFields
<1>3. clear_mappings(st) = Four(s2, c, u, f2)
  BY ClearShape
<1> HIDE DEF op, st, s2, f2, c, u
<1>4. op = Opened(tb, fds, [i \in DOMAIN Tables[t] |-> MemUse(t, i)])
  BY DEF op, MemUses
<1> DEFINE new == NewMaps(t)
<1>5. Four(s2, c, u, f2).dev = c /\ Four(s2, c, u, f2).maps = u
  BY FourFields
<1>6. MappedTable(Four(tb, d, m, fl), t, fds) =
        [Four(s2, c, u, f2) EXCEPT !.maps = @ \cup new, !.dev = setup_mappings(@, t, fds)]
  BY <1>1, <1>2, <1>3, <1>4 DEF MappedTable, NewMaps
<1>7. Remapped(d, t, fds) = setup_mappings(c, t, fds)
  BY DEF Remapped, c
<1> HIDE DEF new
<1>8. MappedTable(Four(tb, d, m, fl), t, fds) = Four(s2, Remapped(d, t, fds), u \cup new, f2)
  BY <1>6, <1>7 DEF Four
<1> QED
  BY <1>8 DEF op, s2, f2, u, new, MapsAfter

FreeFaults(fl, tb, d) ==
    FaultIf(FaultIf(FaultIf(FaultIf(DropFaults(fl, tb, d, Queue),
        ClosedTwice(T1(tb, d), d.call_fd), "close"),
        ClosedTwice(T2(tb, d), d.region_fds), "close"),
        ClosedTwice(T3(tb, d), <<d.req_fd>>), "close"),
        ClosedTwice(T4(tb, d), <<d.entry>>), "close")

LEMMA FreeShape ==
    ASSUME NEW tb, NEW d \in DevType, NEW m, NEW fl
    PROVE  dev_free(Four(tb, d, m, fl)) =
              Four(T5(tb, d), NoDev, Unmapped(m, d), FreeFaults(fl, tb, d))
<1> DEFINE st == Four(tb, d, m, fl)
           x == Unregistered(d, Queue)
           f1 == DropFaults(fl, tb, d, Queue)
           f2 == FaultIf(f1, ClosedTwice(T1(tb, d), d.call_fd), "close")
           f3 == FaultIf(f2, ClosedTwice(T2(tb, d), d.region_fds), "close")
           f4 == FaultIf(f3, ClosedTwice(T3(tb, d), <<d.req_fd>>), "close")
           f5 == FaultIf(f4, ClosedTwice(T4(tb, d), <<d.entry>>), "close")
<1>1. st.dev = d
  BY FourFields
<1>2. /\ x.call_fd = d.call_fd /\ x.region_fds = d.region_fds
      /\ x.region_vaddr = d.region_vaddr /\ x.regions = d.regions
  BY DEF Unregistered, DevType
<1>3. KickField(d, Queue) = Kicks(d)
  BY DEF KickField, KicksIn, Kicks
<1>4. DropKicks(st, Queue) = Four(T1(tb, d), x, m, f1)
  BY <1>3, DropShape DEF T1
<1> HIDE DEF f1, x
<1>5. CloseAll(Four(T1(tb, d), x, m, f1), d.call_fd) = Four(T2(tb, d), x, m, f2)
  BY CloseAllShape DEF T2
<1> HIDE DEF f2
<1>6. clear_mappings(Four(T2(tb, d), x, m, f2)) = Four(T3(tb, d), Cleared(x), Unmapped(m, x), f3)
  BY <1>2, ClearShape DEF T3
<1> HIDE DEF f3
<1>7. Unmapped(m, x) = Unmapped(m, d)
  BY <1>2 DEF Unmapped
<1> DEFINE c == Cleared(x)
           u == Unmapped(m, d)
<1> HIDE DEF c, u
<1>8. CloseAll(Four(T3(tb, d), c, u, f3), <<d.req_fd>>) = Four(T4(tb, d), c, u, f4)
  BY CloseAllShape DEF T4
<1> HIDE DEF f4
<1>9. CloseAll(Four(T4(tb, d), c, u, f4), <<d.entry>>) = Four(T5(tb, d), c, u, f5)
  BY CloseAllShape DEF T5
<1> HIDE DEF f5, st
<1>10. clear_mappings(CloseAll(DropKicks(st, Queue), st.dev.call_fd))
         = Four(T3(tb, d), c, u, f3)
  BY <1>1, <1>4, <1>5, <1>6, <1>7 DEF c, u
<1>11. dev_free(st) = [Four(T5(tb, d), c, u, f5) EXCEPT !.dev = NoDev]
  BY <1>1, <1>8, <1>9, <1>10 DEF dev_free
<1>12. dev_free(st) = Four(T5(tb, d), NoDev, u, f5)
  BY <1>11 DEF Four
<1> QED
  BY <1>12 DEF FreeFaults, f1, f2, f3, f4, f5, u, st

LEMMA FaultIfBounds ==
    ASSUME NEW fl, NEW on, NEW what
    PROVE  /\ FaultIf(fl, on, what) \subseteq fl \cup {what}
           /\ ~on => FaultIf(fl, on, what) = fl
  BY DEF FaultIf

LEMMA DropFaultsBounds ==
    ASSUME NEW fl, NEW tb, NEW d, NEW qs
    PROVE  /\ DropFaults(fl, tb, d, qs) \subseteq fl \cup {"close", "unlink"}
           /\ /\ \A q \in KicksIn(d, qs) : d.registered[q]
              /\ ~ClosedTwice(tb, KickField(d, qs))
              => DropFaults(fl, tb, d, qs) = fl
<1> DEFINE on == \E q \in KicksIn(d, qs) : ~d.registered[q]
           f1 == FaultIf(fl, on, "unlink")
           tw == ClosedTwice(tb, KickField(d, qs))
<1>1. f1 \subseteq fl \cup {"unlink"} /\ (~on => f1 = fl)
  <2> HIDE DEF on
  <2> QED
    BY FaultIfBounds
<1> HIDE DEF f1
<1>2. FaultIf(f1, tw, "close") \subseteq f1 \cup {"close"} /\ (~tw => FaultIf(f1, tw, "close") = f1)
  <2> HIDE DEF tw
  <2> QED
    BY FaultIfBounds
<1>3. DropFaults(fl, tb, d, qs) = FaultIf(f1, tw, "close")
  BY DEF DropFaults, f1
<1> QED
  BY <1>1, <1>2, <1>3

LEMMA FreeFaultsBounds ==
    ASSUME NEW fl, NEW tb, NEW d
    PROVE  /\ FreeFaults(fl, tb, d) \subseteq fl \cup {"close", "unlink"}
           /\ /\ \A q \in KicksIn(d, Queue) : d.registered[q]
              /\ ~ClosedTwice(tb, KickField(d, Queue))
              /\ ~ClosedTwice(T1(tb, d), d.call_fd)
              /\ ~ClosedTwice(T2(tb, d), d.region_fds)
              /\ ~ClosedTwice(T3(tb, d), <<d.req_fd>>)
              /\ ~ClosedTwice(T4(tb, d), <<d.entry>>)
              => FreeFaults(fl, tb, d) = fl
<1> DEFINE f1 == DropFaults(fl, tb, d, Queue)
           a == ClosedTwice(T1(tb, d), d.call_fd)
           b == ClosedTwice(T2(tb, d), d.region_fds)
           c == ClosedTwice(T3(tb, d), <<d.req_fd>>)
           e == ClosedTwice(T4(tb, d), <<d.entry>>)
           f2 == FaultIf(f1, a, "close")
           f3 == FaultIf(f2, b, "close")
           f4 == FaultIf(f3, c, "close")
           f5 == FaultIf(f4, e, "close")
<1>1. /\ f1 \subseteq fl \cup {"close", "unlink"}
      /\ /\ \A q \in KicksIn(d, Queue) : d.registered[q]
         /\ ~ClosedTwice(tb, KickField(d, Queue))
         => f1 = fl
  BY DropFaultsBounds
<1>2. FreeFaults(fl, tb, d) = f5
  BY DEF FreeFaults
<1> HIDE DEF f1, a, b, c, e
<1>3. f2 \subseteq f1 \cup {"close"} /\ (~a => f2 = f1)
  BY FaultIfBounds
<1> HIDE DEF f2
<1>4. f3 \subseteq f2 \cup {"close"} /\ (~b => f3 = f2)
  BY FaultIfBounds
<1> HIDE DEF f3
<1>5. f4 \subseteq f3 \cup {"close"} /\ (~c => f4 = f3)
  BY FaultIfBounds
<1> HIDE DEF f4
<1>6. f5 \subseteq f4 \cup {"close"} /\ (~e => f5 = f4)
  BY FaultIfBounds
<1> HIDE DEF f5
<1>7. f5 \subseteq fl \cup {"close", "unlink"}
  BY <1>1, <1>3, <1>4, <1>5, <1>6
<1> QED
  BY <1>1, <1>2, <1>3, <1>4, <1>5, <1>6, <1>7 DEF a, b, c, e
-----------------------------------------------------------------------------
(* The handlers keep the device, its memory and its descriptors in order.  *)

StateOK(st, t) == IsState(st) /\ MemoryOK(st, t) /\ (~Withdraws => FdsOK(st, t))

\* of the faults, closing descriptors adds only these
OnlyFds(fl, new) == new \subseteq fl \cup {"close", "unlink"}

LEMMA StateIsFour ==
    ASSUME NEW st, IsState(st)
    PROVE  /\ st = Four(st.table, st.dev, st.maps, st.faults)
           /\ st.table = [f \in Fd |-> st.table[f]]
           /\ st.dev \in DevType
           /\ st.faults \subseteq AllFaults
  BY DEF IsState, Four

LEMMA NoDevType == NoDev \in DevType /\ ~NoDev.up
<1>1. NoMap \in Mapping /\ Null \in Ptr /\ NoRegion \in Area
  <2>1. <<>> \in Seq(Nat)
    OBVIOUS
  <2> QED
    BY <2>1 DEF NoMap, Mapping, Null, Ptr, NoRegion, Area
<1>2. NoFd \in FdOrNone
  BY DEF FdOrNone
<1> QED
  BY <1>1, <1>2 DEF NoDev, DevType

LEMMA NothingOwned ==
    ASSUME NEW t PROVE Owned([f \in Fd |-> Closed], NoDev, t) /\ Registered(NoDev)
<1>1. UsesApart /\ NoFd \notin Fd
  BY UsesAreApart, NoFdIsNone
<1> DEFINE tb == [f \in Fd |-> Closed]
<1>2. \A f \in Fd : tb[f] = Closed
  OBVIOUS
<1> HIDE DEF tb
<1>3. /\ NoDev.entry = NoFd /\ NoDev.req_fd = NoFd
      /\ \A q \in Queue : NoDev.kick[q] = NoFd /\ NoDev.call_fd[q] = NoFd
      /\ \A i \in Region : NoDev.region_fds[i] = NoFd
  BY DEF NoDev
<1>4. EntryOwned(tb, NoDev) /\ ReqOwned(tb, NoDev)
  BY <1>1, <1>2, <1>3 DEF EntryOwned, ReqOwned, UsesApart
<1>5. KicksOwned(tb, NoDev) /\ CallsOwned(tb, NoDev) /\ RegionsOwned(tb, NoDev, t)
  BY <1>1, <1>2, <1>3 DEF KicksOwned, CallsOwned, RegionsOwned, UsesApart
<1>6. KnownUses(tb, t) /\ Registered(NoDev)
  BY <1>2, <1>3 DEF KnownUses, Registered
<1> QED
  BY <1>4, <1>5, <1>6 DEF Owned, tb

LEMMA AllUnmapped ==
    ASSUME NEW d, NEW t, RegionsOf(d, t), t \in 0..Len(Tables)
    PROVE  Unmapped(MapsOf(t), d) = {}
<1>1. ASSUME NEW x \in MapsOf(t) PROVE x \notin Unmapped(MapsOf(t), d)
  <2>1. PICK i \in 1..Len(TableOf(t)) : x = MappingOf(t, i)
    BY DEF MapsOf
  <2>2. i \in Region /\ i <= Len(TableOf(t)) /\ t # 0
    <3>1. t # 0
      BY <2>1 DEF TableOf
    <3>2. t \in DOMAIN Tables /\ Len(Tables[t]) \in Nat /\ Len(Tables[t]) <= MaxRegions
      BY <3>1, TablesAssumption
    <3> QED
      BY <3>1, <3>2, BoundAssumption DEF TableOf, Region
  <2>3. d.regions[i] = Tables[t][i] /\ d.region_vaddr[i] = MappingOf(t, i)
    BY <2>2 DEF RegionsOf, TableOf
  <2>4. MappingOf(t, i).file = <<t, i>>
    BY DEF MappingOf
  <2>5. x = [file |-> d.region_vaddr[i].file,
             len |-> d.regions[i].size + d.regions[i].mmap_offset]
    <3> DEFINE n == d.regions[i].size + d.regions[i].mmap_offset
    <3>1. n = Tables[t][i].size + Tables[t][i].mmap_offset
      BY <2>3
    <3>2. d.region_vaddr[i].file = <<t, i>>
      BY <2>3, <2>4
    <3> HIDE DEF n
    <3>3. x = [file |-> <<t, i>>, len |-> n]
      BY <2>1, <3>1 DEF MappingOf
    <3> QED
      BY <3>2, <3>3 DEF n
  <2> QED
    BY <2>2, <2>5 DEF Unmapped
<1> QED
  BY <1>1 DEF Unmapped

LEMMA FreeOK ==
    ASSUME NEW st, NEW t \in 0..Len(Tables), StateOK(st, t), st.dev.up
    PROVE  /\ StateOK(dev_free(st), t)
           /\ dev_free(st).dev = NoDev
           /\ OnlyFds(st.faults, dev_free(st).faults)
<1> DEFINE tb == st.table
           d == st.dev
           m == st.maps
           fl == st.faults
           g == FreeFaults(fl, tb, d)
<1>1. st = Four(tb, d, m, fl) /\ d \in DevType /\ fl \subseteq AllFaults
  BY StateIsFour DEF StateOK
<1>2. RegionsOf(d, t) /\ m = MapsOf(t)
  BY DEF StateOK, MemoryOK
<1>3. Unmapped(m, d) = {}
  BY <1>2, AllUnmapped
<1> HIDE DEF tb, d, m, fl
<1>4. dev_free(st) = Four(T5(tb, d), NoDev, {}, g)
  BY <1>1, <1>3, FreeShape
<1>5. g \subseteq fl \cup {"close", "unlink"} /\ g \subseteq AllFaults
  BY <1>1, FreeFaultsBounds DEF AllFaults
<1> HIDE DEF g
<1>6. T5(tb, d) = [f \in Fd |-> T5(tb, d)[f]]
  BY ShutProperties DEF T5
<1>7. IsState(dev_free(st))
  BY <1>4, <1>5, <1>6, NoDevType, FourIsState
<1>8. MemoryOK(dev_free(st), t)
  BY <1>4, NoDevType, FourFields DEF MemoryOK
<1>9. ASSUME ~Withdraws PROVE FdsOK(dev_free(st), t)
  <2>1. Owned(tb, d, t) /\ Registered(d) /\ fl \cap {"close", "unlink"} = {}
    BY <1>9 DEF StateOK, FdsOK, tb, d, fl
  <2>2. /\ ~ClosedTwice(tb, Kicks(d)) /\ ~ClosedTwice(T1(tb, d), d.call_fd)
        /\ ~ClosedTwice(T2(tb, d), d.region_fds)
        /\ ~ClosedTwice(T3(tb, d), <<d.req_fd>>)
        /\ ~ClosedTwice(T4(tb, d), <<d.entry>>)
        /\ T5(tb, d) = [f \in Fd |-> Closed]
    BY <1>1, <2>1, DeviceClosed
  <2>3. KickField(d, Queue) = Kicks(d)
    BY DEF KickField, KicksIn, Kicks
  <2>4. \A q \in KicksIn(d, Queue) : d.registered[q]
    BY <2>1 DEF Registered, KicksIn
  <2>5. g = fl
    BY <2>2, <2>3, <2>4, FreeFaultsBounds DEF g
  <2> QED
    BY <1>4, <2>1, <2>2, <2>5, NothingOwned, FourFields DEF FdsOK
<1> QED
  BY <1>4, <1>5, <1>7, <1>8, <1>9, FourFields DEF StateOK, OnlyFds, fl

\* the fields that no handler but the one for them changes
SameQueues(d, d2) ==
    d2.enabled = d.enabled /\ d2.triggered = d.triggered /\ d2.virtq = d.virtq

SameMemory(d, d2) ==
    /\ d2.up = d.up /\ d2.n_regions = d.n_regions
    /\ d2.regions = d.regions /\ d2.region_vaddr = d.region_vaddr
    /\ d2.region_fds = d.region_fds

SameFds(d, d2) ==
    /\ d2.entry = d.entry /\ d2.req_fd = d.req_fd /\ d2.kick = d.kick
    /\ d2.call_fd = d.call_fd /\ d2.registered = d.registered

LEMMA MemoryKept ==
    ASSUME NEW st, NEW t, StateOK(st, t), st.dev.up,
           NEW tb2, tb2 = [f \in Fd |-> tb2[f]], NEW d2 \in DevType,
           \A i \in Region : st.dev.region_fds[i] = NoFd => d2.region_fds[i] = NoFd,
           d2.up = st.dev.up, d2.n_regions = st.dev.n_regions,
           d2.regions = st.dev.regions, d2.region_vaddr = st.dev.region_vaddr,
           NEW fl2, OnlyFds(st.faults, fl2)
    PROVE  /\ IsState(Four(tb2, d2, st.maps, fl2))
           /\ MemoryOK(Four(tb2, d2, st.maps, fl2), t)
<1>1. st.faults \subseteq AllFaults
  BY StateIsFour DEF StateOK
<1>2. fl2 \subseteq AllFaults
  BY <1>1 DEF OnlyFds, AllFaults
<1>3. IsState(Four(tb2, d2, st.maps, fl2))
  BY <1>2, FourIsState
<1>4. RegionsOf(st.dev, t) /\ st.maps = MapsOf(t)
  BY DEF StateOK, MemoryOK
<1>5. RegionsOf(d2, t)
  BY <1>4 DEF RegionsOf
<1> DEFINE new == Four(tb2, d2, st.maps, fl2)
<1>6. new.dev = d2 /\ new.maps = st.maps
  BY FourFields
<1> HIDE DEF new
<1>7. MemoryOK(new, t)
  BY <1>4, <1>5, <1>6 DEF MemoryOK
<1> QED
  BY <1>3, <1>7 DEF new

(***************************************************************************)
(* A message that changes neither descriptors nor memory.                  *)
(***************************************************************************)
LEMMA QueuesOK ==
    ASSUME NEW st, NEW t, StateOK(st, t), st.dev.up, NEW d2 \in DevType,
           SameMemory(st.dev, d2), SameFds(st.dev, d2)
    PROVE  StateOK(Four(st.table, d2, st.maps, st.faults), t)
<1>1. st.table = [f \in Fd |-> st.table[f]]
  BY StateIsFour DEF StateOK
<1>2. OnlyFds(st.faults, st.faults)
  BY DEF OnlyFds
<1>3. /\ IsState(Four(st.table, d2, st.maps, st.faults))
      /\ MemoryOK(Four(st.table, d2, st.maps, st.faults), t)
  BY <1>1, <1>2, MemoryKept DEF SameMemory
<1>4. ASSUME ~Withdraws PROVE FdsOK(Four(st.table, d2, st.maps, st.faults), t)
  <2>1. Owned(st.table, st.dev, t) /\ Registered(st.dev)
        /\ st.faults \cap {"close", "unlink"} = {}
    BY <1>4 DEF StateOK, FdsOK
  <2>2. Owned(st.table, d2, t)
    BY <2>1 DEF Owned, EntryOwned, ReqOwned, KicksOwned, CallsOwned, RegionsOwned,
                SameMemory, SameFds
  <2>3. Registered(d2)
    BY <2>1 DEF Registered, SameFds
  <2> QED
    BY <2>1, <2>2, <2>3, FourFields DEF FdsOK
<1> QED
  BY <1>3, <1>4 DEF StateOK

LEMMA CallOK ==
    ASSUME NEW st, NEW t, StateOK(st, t), st.dev.up, NEW q \in Queue,
           NEW n \in 0..1, NEW fds \in Given(st.table, n)
    PROVE  /\ StateOK(NewCall(st, q, n, fds), t)
           /\ NewCall(st, q, n, fds).dev.up
           /\ SameQueues(st.dev, NewCall(st, q, n, fds).dev)
           /\ NewCall(st, q, n, fds).maps = st.maps
           /\ OnlyFds(st.faults, NewCall(st, q, n, fds).faults)
           /\ \A r \in Queue \ {q} : NewCall(st, q, n, fds).dev.call_fd[r] = st.dev.call_fd[r]
           /\ NewCall(st, q, n, fds).dev.req_fd = st.dev.req_fd
           /\ NewCall(st, q, n, fds).dev.protocol_features = st.dev.protocol_features
<1> DEFINE tb == st.table
           d == st.dev
           fl == st.faults
           op == Opened(tb, fds, <<CallUse(q)>>)
           tb2 == Shut(op, <<d.call_fd[q]>>)
           fd == First(n, fds)
           d2 == WithCall(d, q, fd)
           tw == ClosedTwice(op, <<d.call_fd[q]>>)
           fl2 == FaultIf(fl, tw, "close")
<1>1. st = Four(tb, d, st.maps, fl) /\ d \in DevType
  BY StateIsFour DEF StateOK
<1>2. NewCall(st, q, n, fds) = Four(tb2, d2, st.maps, fl2)
  <2> HIDE DEF tb, d, fl
  <2> QED
    BY <1>1, NewCallShape
<1>3. fd \in FdOrNone
  <2>1. n \in Nat /\ fds \in [1..n -> Fd]
    BY GivenProperties
  <2>2. n # 0 => fds[1] \in Fd
    BY <2>1
  <2> QED
    BY <2>2 DEF First, FdOrNone
<1> HIDE DEF fd
<1>4. /\ d2 \in DevType /\ d2.up = d.up /\ d2.n_regions = d.n_regions
      /\ d2.regions = d.regions /\ d2.region_vaddr = d.region_vaddr
      /\ d2.region_fds = d.region_fds /\ d2.kick = d.kick /\ d2.registered = d.registered
      /\ d2.enabled = d.enabled /\ d2.triggered = d.triggered /\ d2.virtq = d.virtq
      /\ d2.req_fd = d.req_fd /\ d2.protocol_features = d.protocol_features
      /\ \A r \in Queue \ {q} : d2.call_fd[r] = d.call_fd[r]
  BY <1>1, <1>3 DEF DevType, WithCall
<1>5. tb2 = [f \in Fd |-> tb2[f]]
  BY ShutProperties
<1>6. OnlyFds(fl, fl2)
  <2> HIDE DEF tw
  <2> QED
    BY FaultIfBounds DEF OnlyFds
<1> HIDE DEF d2, fl2, tb2
<1>7. IsState(Four(tb2, d2, st.maps, fl2)) /\ MemoryOK(Four(tb2, d2, st.maps, fl2), t)
  BY <1>4, <1>5, <1>6, MemoryKept
<1>8. ASSUME ~Withdraws PROVE FdsOK(Four(tb2, d2, st.maps, fl2), t)
  <2>1. Owned(tb, d, t) /\ Registered(d) /\ fl \cap {"close", "unlink"} = {}
    BY <1>8 DEF StateOK, FdsOK
  <2>2. \A f \in Fd : tb[f] = CallUse(q) <=> d.call_fd[q] = f
    BY <2>1 DEF Owned, CallsOwned
  <2>3. CallUse(q) # Closed /\ d.call_fd[q] \in FdOrNone
    BY <1>1, UsesAreApart DEF UsesApart, DevType
  <2>4. /\ \A i \in DOMAIN <<d.call_fd[q]>> : <<d.call_fd[q]>>[i] = d.call_fd[q]
        /\ \A i, j \in DOMAIN <<d.call_fd[q]>> : i = j
        /\ DOMAIN <<d.call_fd[q]>> # {}
    OBVIOUS
  <2>5. ~tw /\ IsReplaced(tb, CallUse(q), fd, tb2)
    <3> HIDE DEF tb, d
    <3>1. fds \in Given(tb, n)
      BY DEF tb
    <3> QED
      BY <2>2, <2>3, <2>4, <3>1, FieldReplaced DEF fd, tb2
  <2>6. fl2 = fl
    <3> HIDE DEF tw
    <3> QED
      BY <2>5, FaultIfBounds DEF fl2
  <2>7. Owned(tb2, d2, t)
    BY <1>1, <2>1, <2>5, CallReplaced DEF d2, WithCall
  <2>8. Registered(d2)
    BY <2>1, <1>4 DEF Registered
  <2> QED
    BY <2>1, <2>6, <2>7, <2>8, FourFields DEF FdsOK
<1>9. StateOK(NewCall(st, q, n, fds), t)
  BY <1>2, <1>7, <1>8 DEF StateOK
<1>10. /\ NewCall(st, q, n, fds).dev = d2 /\ NewCall(st, q, n, fds).maps = st.maps
       /\ NewCall(st, q, n, fds).faults = fl2
  BY <1>2, FourFields
<1> QED
  BY <1>4, <1>6, <1>9, <1>10 DEF SameQueues

LEMMA ReqOK ==
    ASSUME NEW st, NEW t, StateOK(st, t), st.dev.up, NEW fds \in Given(st.table, 1)
    PROVE  /\ StateOK(NewReq(st, fds), t)
           /\ NewReq(st, fds).dev.up
           /\ SameQueues(st.dev, NewReq(st, fds).dev)
           /\ NewReq(st, fds).maps = st.maps
           /\ OnlyFds(st.faults, NewReq(st, fds).faults)
           /\ NewReq(st, fds).dev.call_fd = st.dev.call_fd
           /\ NewReq(st, fds).dev.req_fd # NoFd
           /\ NewReq(st, fds).dev.protocol_features = st.dev.protocol_features
<1> DEFINE tb == st.table
           d == st.dev
           fl == st.faults
           op == Opened(tb, fds, <<ReqUse>>)
           tb2 == Shut(op, <<d.req_fd>>)
           fd == fds[1]
           d2 == [d EXCEPT !.req_fd = fd]
           tw == ClosedTwice(op, <<d.req_fd>>)
           fl2 == FaultIf(fl, tw, "close")
<1>1. st = Four(tb, d, st.maps, fl) /\ d \in DevType
  BY StateIsFour DEF StateOK
<1>2. NewReq(st, fds) = Four(tb2, d2, st.maps, fl2)
  <2> HIDE DEF tb, d, fl
  <2> QED
    BY <1>1, NewReqShape
<1>3. fd \in FdOrNone /\ fd \in Fd /\ fd # NoFd
  <2>1. fds \in [1..1 -> Fd]
    BY GivenProperties
  <2>2. fds[1] \in Fd
    BY <2>1
  <2> QED
    BY <2>2, NoFdIsNone
<1>4. First(1, fds) = fd
  BY DEF First
<1> HIDE DEF fd
<1>5. /\ d2 \in DevType /\ d2.up = d.up /\ d2.n_regions = d.n_regions
      /\ d2.regions = d.regions /\ d2.region_vaddr = d.region_vaddr
      /\ d2.region_fds = d.region_fds /\ d2.kick = d.kick /\ d2.registered = d.registered
      /\ d2.enabled = d.enabled /\ d2.triggered = d.triggered /\ d2.virtq = d.virtq
      /\ d2.req_fd = fd /\ d2.protocol_features = d.protocol_features
      /\ d2.call_fd = d.call_fd
  BY <1>1, <1>3 DEF DevType
<1>6. tb2 = [f \in Fd |-> tb2[f]]
  BY ShutProperties
<1>7. OnlyFds(fl, fl2)
  <2> HIDE DEF tw
  <2> QED
    BY FaultIfBounds DEF OnlyFds
<1> HIDE DEF d2, fl2, tb2
<1>8. IsState(Four(tb2, d2, st.maps, fl2)) /\ MemoryOK(Four(tb2, d2, st.maps, fl2), t)
  BY <1>5, <1>6, <1>7, MemoryKept
<1>9. ASSUME ~Withdraws PROVE FdsOK(Four(tb2, d2, st.maps, fl2), t)
  <2>1. Owned(tb, d, t) /\ Registered(d) /\ fl \cap {"close", "unlink"} = {}
    BY <1>9 DEF StateOK, FdsOK
  <2>2. \A f \in Fd : tb[f] = ReqUse <=> d.req_fd = f
    BY <2>1 DEF Owned, ReqOwned
  <2>3. ReqUse # Closed /\ d.req_fd \in FdOrNone
    BY <1>1, UsesAreApart DEF UsesApart, DevType
  <2>4. /\ \A i \in DOMAIN <<d.req_fd>> : <<d.req_fd>>[i] = d.req_fd
        /\ \A i, j \in DOMAIN <<d.req_fd>> : i = j
        /\ DOMAIN <<d.req_fd>> # {}
    OBVIOUS
  <2>5. ~tw /\ IsReplaced(tb, ReqUse, fd, tb2)
    <3> HIDE DEF tb, d
    <3>1. fds \in Given(tb, 1)
      BY <1>4 DEF tb
    <3>2. ~tw /\ IsReplaced(tb, ReqUse, First(1, fds), tb2)
      BY <2>2, <2>3, <2>4, <3>1, FieldReplaced DEF tb2
    <3> QED
      BY <3>2, <1>4
  <2>6. fl2 = fl
    <3> HIDE DEF tw
    <3> QED
      BY <2>5, FaultIfBounds DEF fl2
  <2>7. Owned(tb2, d2, t)
    BY <1>1, <2>1, <2>5, ReqReplaced DEF d2
  <2>8. Registered(d2)
    BY <2>1, <1>5 DEF Registered
  <2> QED
    BY <2>1, <2>6, <2>7, <2>8, FourFields DEF FdsOK
<1>10. StateOK(NewReq(st, fds), t)
  BY <1>2, <1>8, <1>9 DEF StateOK
<1>11. /\ NewReq(st, fds).dev = d2 /\ NewReq(st, fds).maps = st.maps
       /\ NewReq(st, fds).faults = fl2
  BY <1>2, FourFields
<1> QED
  BY <1>3, <1>5, <1>7, <1>10, <1>11 DEF SameQueues

LEMMA KickOK ==
    ASSUME NEW st, NEW t, StateOK(st, t), st.dev.up, NEW q \in Queue,
           NEW n \in 0..1, NEW fds \in Given(st.table, n),
           n = 1 \/ Withdraws \/ st.dev.kick[q] = NoFd
    PROVE  /\ StateOK(NewKick(st, q, n, fds), t)
           /\ NewKick(st, q, n, fds).dev.up
           /\ SameQueues(st.dev, NewKick(st, q, n, fds).dev)
           /\ NewKick(st, q, n, fds).maps = st.maps
           /\ OnlyFds(st.faults, NewKick(st, q, n, fds).faults)
           /\ NewKick(st, q, n, fds).dev.call_fd = st.dev.call_fd
           /\ NewKick(st, q, n, fds).dev.req_fd = st.dev.req_fd
           /\ NewKick(st, q, n, fds).dev.protocol_features = st.dev.protocol_features
<1> DEFINE tb == st.table
           d == st.dev
           fl == st.faults
           op == Opened(tb, fds, <<KickUse(q)>>)
           tb2 == Shut(op, KickField(d, {q}))
           fd == First(n, fds)
           d2 == Kicked(d, q, fd)
           fl2 == DropFaults(fl, op, d, {q})
<1>1. st = Four(tb, d, st.maps, fl) /\ d \in DevType
  BY StateIsFour DEF StateOK
<1>2. NewKick(st, q, n, fds) = Four(tb2, d2, st.maps, fl2)
  <2> HIDE DEF tb, d, fl
  <2> QED
    BY <1>1, NewKickShape
<1>3. fd \in FdOrNone /\ (n = 1 => fd \in Fd) /\ (n = 0 => fd = NoFd)
  <2>1. n \in Nat /\ fds \in [1..n -> Fd]
    BY GivenProperties
  <2>2. n # 0 => fds[1] \in Fd
    BY <2>1
  <2> QED
    BY <2>2 DEF First, FdOrNone
<1> HIDE DEF fd
<1> DEFINE x == Unregistered(d, {q})
<1>4. /\ x \in DevType /\ x.up = d.up /\ x.n_regions = d.n_regions
      /\ x.regions = d.regions /\ x.region_vaddr = d.region_vaddr
      /\ x.region_fds = d.region_fds /\ x.kick = d.kick /\ x.entry = d.entry
      /\ x.enabled = d.enabled /\ x.triggered = d.triggered /\ x.virtq = d.virtq
      /\ x.req_fd = d.req_fd /\ x.protocol_features = d.protocol_features
      /\ x.call_fd = d.call_fd
      /\ \A r \in Queue : x.registered[r] = (d.registered[r] /\ r \notin KicksIn(d, {q}))
  <2> DEFINE z == [r \in Queue |-> d.registered[r] /\ r \notin KicksIn(d, {q})]
  <2>1. z \in [Queue -> BOOLEAN]
    BY <1>1 DEF DevType
  <2>2. \A r \in Queue : z[r] = (d.registered[r] /\ r \notin KicksIn(d, {q}))
    OBVIOUS
  <2>3. x = [d EXCEPT !.registered = z]
    BY DEF Unregistered
  <2> HIDE DEF z, x
  <2>4. x.registered = z
    BY <1>1, <2>1, <2>3 DEF DevType
  <2>5. /\ x \in DevType /\ x.up = d.up /\ x.n_regions = d.n_regions
      /\ x.regions = d.regions /\ x.region_vaddr = d.region_vaddr
      /\ x.region_fds = d.region_fds /\ x.kick = d.kick /\ x.entry = d.entry
      /\ x.enabled = d.enabled /\ x.triggered = d.triggered /\ x.virtq = d.virtq
      /\ x.req_fd = d.req_fd /\ x.protocol_features = d.protocol_features
      /\ x.call_fd = d.call_fd
    BY <1>1, <2>1, <2>3 DEF DevType
  <2> QED
    BY <2>2, <2>4, <2>5
<1> HIDE DEF x
<1>5. /\ d2 \in DevType /\ d2.up = d.up /\ d2.n_regions = d.n_regions
      /\ d2.regions = d.regions /\ d2.region_vaddr = d.region_vaddr
      /\ d2.region_fds = d.region_fds /\ d2.entry = d.entry
      /\ d2.enabled = d.enabled /\ d2.triggered = d.triggered /\ d2.virtq = d.virtq
      /\ d2.req_fd = d.req_fd /\ d2.protocol_features = d.protocol_features
      /\ d2.call_fd = d.call_fd
  <2>1. CASE fd = NoFd
    BY <2>1, <1>4 DEF Kicked, x
  <2>2. CASE fd # NoFd
    <3>1. d2 = [x EXCEPT !.kick[q] = fd, !.registered[q] = TRUE]
      BY <2>2 DEF Kicked, x
    <3> HIDE DEF d2, d
    <3> QED
      BY <3>1, <1>3, <1>4 DEF DevType
  <2> QED
    BY <2>1, <2>2
<1>6. fd # NoFd => \A r \in Queue : /\ d2.kick[r] = IF r = q THEN fd ELSE d.kick[r]
                                    /\ d2.registered[r] = (r = q \/ x.registered[r])
  <2>1. SUFFICES ASSUME fd # NoFd, NEW r \in Queue
                 PROVE  /\ d2.kick[r] = IF r = q THEN fd ELSE d.kick[r]
                        /\ d2.registered[r] = (r = q \/ x.registered[r])
    OBVIOUS
  <2>2. d2 = [x EXCEPT !.kick[q] = fd, !.registered[q] = TRUE]
    BY <2>1 DEF Kicked, x
  <2> HIDE DEF d2, d
  <2>3. d2.kick[r] = IF r = q THEN fd ELSE d.kick[r]
    BY <2>2, <1>4 DEF DevType
  <2>4. x.registered[r] \in BOOLEAN
    BY <1>4 DEF DevType
  <2>5. d2.registered = [x.registered EXCEPT ![q] = TRUE] /\ x.registered \in [Queue -> BOOLEAN]
    BY <2>2, <1>4 DEF DevType
  <2>6. d2.registered[r] = (r = q \/ x.registered[r])
    <3>1. CASE r = q
      BY <2>5, <3>1
    <3>2. CASE r # q
      BY <2>4, <2>5, <3>2
    <3> QED
      BY <3>1, <3>2
  <2> QED
    BY <2>3, <2>6
<1>7. fd = NoFd => d2 = x
  BY DEF Kicked, x
<1>8. tb2 = [f \in Fd |-> tb2[f]]
  <2> DEFINE fld == KickField(d, {q})
  <2> HIDE DEF fld, op
  <2>1. Shut(op, fld) = [f \in Fd |-> Shut(op, fld)[f]]
    BY ShutProperties
  <2> QED
    BY <2>1 DEF fld
<1>9. OnlyFds(fl, fl2)
  BY DropFaultsBounds DEF OnlyFds
<1> HIDE DEF d2, fl2, tb2
<1>10. IsState(Four(tb2, d2, st.maps, fl2)) /\ MemoryOK(Four(tb2, d2, st.maps, fl2), t)
  BY <1>5, <1>8, <1>9, MemoryKept
<1>11. ASSUME ~Withdraws PROVE FdsOK(Four(tb2, d2, st.maps, fl2), t)
  <2>1. Owned(tb, d, t) /\ Registered(d) /\ fl \cap {"close", "unlink"} = {}
    BY <1>11 DEF StateOK, FdsOK
  <2>2. \A f \in Fd : tb[f] = KickUse(q) <=> d.kick[q] = f
    BY <2>1 DEF Owned, KicksOwned
  <2>3. KickUse(q) # Closed /\ d.kick[q] \in FdOrNone
    BY <1>1, UsesAreApart DEF UsesApart, DevType
  <2> DEFINE fld == KickField(d, {q})
  <2>4. /\ \A i \in DOMAIN fld : fld[i] = d.kick[q] /\ i = q
        /\ d.kick[q] # NoFd => q \in DOMAIN fld
    BY DEF KickField, KicksIn
  <2>5. ~ClosedTwice(op, fld) /\ IsReplaced(tb, KickUse(q), fd, tb2)
    <3> HIDE DEF tb, d, fld
    <3>1. fds \in Given(tb, n)
      BY DEF tb
    <3>2. /\ \A i \in DOMAIN fld : fld[i] = d.kick[q]
          /\ \A i, j \in DOMAIN fld : i = j
          /\ d.kick[q] # NoFd => DOMAIN fld # {}
      BY <2>4
    <3>3. tb2 = Shut(op, fld)
      BY DEF tb2, fld
    <3> QED
      BY <2>2, <2>3, <3>1, <3>2, <3>3, FieldReplaced DEF fd
  <2>6. \A r \in KicksIn(d, {q}) : d.registered[r]
    BY <2>1 DEF KicksIn, Registered
  <2>7. fl2 = fl
    BY <2>5, <2>6, DropFaultsBounds DEF fl2
  <2>8. /\ \A r \in Queue : d2.kick[r] = IF r = q THEN fd ELSE d.kick[r]
        /\ Registered(d2)
    <3>1. CASE fd # NoFd
      <4>1. Registered(d2)
        <5>1. ASSUME NEW r \in Queue, d2.kick[r] # NoFd PROVE d2.registered[r]
          <6>1. r # q => d.registered[r] /\ r \notin KicksIn(d, {q})
            BY <2>1, <3>1, <5>1, <1>6 DEF KicksIn, Registered
          <6>2. r # q => x.registered[r]
            BY <6>1, <1>4
          <6> QED
            BY <3>1, <6>2, <1>6
        <5> QED
          BY <5>1 DEF Registered
      <4> QED
        BY <3>1, <4>1, <1>6
    <3>2. CASE fd = NoFd
      <4>1. d2 = x /\ d.kick[q] = NoFd
        BY <3>2, <1>3, <1>7, <1>11, NoFdIsNone
      <4>2. \A r \in Queue : d2.kick[r] = d.kick[r]
        BY <4>1, <1>4
      <4>3. \A r \in Queue : r \notin KicksIn(d, {q})
        BY <4>1 DEF KicksIn
      <4>4. \A r \in Queue : d.registered[r] => d2.registered[r]
        BY <4>1, <4>3, <1>4
      <4> QED
        BY <3>2, <4>1, <4>2, <4>4, <2>1 DEF Registered
    <3> QED
      BY <3>1, <3>2
  <2>9. Owned(tb2, d2, t)
    <3> HIDE DEF tb, d
    <3> QED
      BY <1>1, <1>5, <2>1, <2>5, <2>8, KickReplaced
  <2> QED
    BY <2>1, <2>7, <2>8, <2>9, FourFields DEF FdsOK
<1>12. StateOK(NewKick(st, q, n, fds), t)
  BY <1>2, <1>10, <1>11 DEF StateOK
<1>13. /\ NewKick(st, q, n, fds).dev = d2 /\ NewKick(st, q, n, fds).maps = st.maps
       /\ NewKick(st, q, n, fds).faults = fl2
  BY <1>2, FourFields
<1> QED
  BY <1>5, <1>9, <1>12, <1>13 DEF SameQueues

LEMMA TableTypes ==
    ASSUME NEW t \in 1..Len(Tables)
    PROVE  /\ Len(Tables[t]) \in Nat /\ Len(Tables[t]) <= MaxRegions
           /\ DOMAIN Tables[t] = 1..Len(Tables[t])
           /\ \A i \in 1..Len(Tables[t]) :
                 /\ i \in Region
                 /\ Tables[t][i] \in Area
                 /\ MappingOf(t, i) \in Mapping
                 /\ MappingOf(t, i) # NoMap
                 /\ MappingOf(t, i).file = <<t, i>>
<1>1. Tables[t] \in Seq(Area) /\ Len(Tables[t]) <= MaxRegions
  BY TablesAssumption
<1>2. Len(Tables[t]) \in Nat /\ DOMAIN Tables[t] = 1..Len(Tables[t])
  BY <1>1
<1>3. ASSUME NEW i \in 1..Len(Tables[t])
      PROVE  /\ i \in Region
             /\ Tables[t][i] \in Area
             /\ MappingOf(t, i) \in Mapping
             /\ MappingOf(t, i) # NoMap
             /\ MappingOf(t, i).file = <<t, i>>
  <2>1. i \in Region
    BY <1>1, <1>2, BoundAssumption DEF Region
  <2>2. Tables[t][i] \in Area
    BY <1>1
  <2>3. Tables[t][i].size + Tables[t][i].mmap_offset \in Nat
    BY <2>2 DEF Area
  <2>4. <<t, i>> \in Seq(Nat) /\ <<t, i>> # <<>>
    <3>1. t \in Nat /\ i \in Nat
      BY <1>2
    <3> QED
      BY <3>1
  <2>5. MappingOf(t, i).file = <<t, i>> /\ NoMap.file = <<>>
    BY DEF MappingOf, NoMap
  <2>6. MappingOf(t, i) \in Mapping
    BY <2>3, <2>4 DEF MappingOf, Mapping
  <2> QED
    BY <2>1, <2>2, <2>4, <2>5, <2>6
<1> QED
  BY <1>1, <1>2, <1>3

LEMMA TableOK ==
    ASSUME NEW st, NEW t \in 0..Len(Tables), StateOK(st, t), st.dev.up,
           NEW t2 \in 1..Len(Tables), NEW fds \in Given(st.table, Len(Tables[t2]))
    PROVE  /\ StateOK(MappedTable(st, t2, fds), t2)
           /\ MappedTable(st, t2, fds).dev.up
           /\ SameQueues(st.dev, MappedTable(st, t2, fds).dev)
           /\ OnlyFds(st.faults, MappedTable(st, t2, fds).faults)
           /\ MappedTable(st, t2, fds).dev.call_fd = st.dev.call_fd
           /\ MappedTable(st, t2, fds).dev.req_fd = st.dev.req_fd
           /\ MappedTable(st, t2, fds).dev.protocol_features = st.dev.protocol_features
<1> DEFINE tb == st.table
           d == st.dev
           fl == st.faults
           T == Tables[t2]
           n == Len(T)
           uses == MemUses(t2)
           op == Opened(tb, fds, uses)
           tb2 == Shut(op, d.region_fds)
           c == Cleared(d)
           d2 == Remapped(d, t2, fds)
           new == NewMaps(t2)
           tw == ClosedTwice(op, d.region_fds)
           fl2 == FaultIf(fl, tw, "close")
<1>1. st = Four(tb, d, st.maps, fl) /\ d \in DevType /\ fl \subseteq AllFaults
  BY StateIsFour DEF StateOK
<1>2. MappedTable(st, t2, fds) = Four(tb2, d2, MapsAfter(st.maps, d, t2), fl2)
  <2> HIDE DEF tb, d, fl
  <2> QED
    BY <1>1, MappedTableShape
<1>3. MapsAfter(st.maps, d, t2) = new
  <2>1. RegionsOf(d, t) /\ st.maps = MapsOf(t)
    BY DEF StateOK, MemoryOK
  <2>2. Unmapped(st.maps, d) = {}
    BY <2>1, AllUnmapped
  <2> QED
    BY <2>2 DEF MapsAfter
<1>4. /\ n \in Nat /\ n <= MaxRegions /\ DOMAIN T = 1..n
      /\ \A i \in 1..n : i \in Region /\ T[i] \in Area /\ MappingOf(t2, i) \in Mapping
  BY TableTypes
<1>5. new = MapsOf(t2) /\ TableOf(t2) = T
  BY <1>4 DEF MapsOf, TableOf, NewMaps
<1>6. fds \in [1..n -> Fd]
  BY <1>4, GivenProperties
<1>7. /\ c \in DevType /\ c.up = d.up /\ c.regions = d.regions /\ c.n_regions = d.n_regions
      /\ c.entry = d.entry /\ c.req_fd = d.req_fd /\ c.kick = d.kick
      /\ c.call_fd = d.call_fd /\ c.registered = d.registered
      /\ c.enabled = d.enabled /\ c.triggered = d.triggered /\ c.virtq = d.virtq
      /\ c.protocol_features = d.protocol_features
      /\ \A i \in Region : c.region_vaddr[i] = NoMap /\ c.region_fds[i] = NoFd
  <2>1. NoMap \in Mapping /\ NoFd \in FdOrNone
    <3>1. <<>> \in Seq(Nat)
      OBVIOUS
    <3> QED
      BY <3>1 DEF NoMap, Mapping, FdOrNone
  <2> DEFINE nv == [i \in Region |-> NoMap]
             nf == [i \in Region |-> NoFd]
  <2>2. /\ nv \in [Region -> Mapping] /\ nf \in [Region -> FdOrNone]
        /\ \A i \in Region : nv[i] = NoMap /\ nf[i] = NoFd
    BY <2>1
  <2>3. c = [d EXCEPT !.region_vaddr = nv, !.region_fds = nf]
    BY DEF Cleared
  <2> HIDE DEF nv, nf, c, d
  <2> QED
    BY <1>1, <2>2, <2>3 DEF DevType
<1> DEFINE r == [i \in Region |-> IF i <= n THEN T[i] ELSE c.regions[i]]
           g == [i \in Region |-> IF i <= n THEN fds[i] ELSE c.region_fds[i]]
           v == [i \in Region |-> IF i <= n THEN MappingOf(t2, i) ELSE c.region_vaddr[i]]
<1>8. d2 = [c EXCEPT !.n_regions = n, !.regions = r, !.region_fds = g, !.region_vaddr = v]
  BY DEF Remapped, setup_mappings
<1>9. /\ \A i \in Region : i <= n <=> i \in 1..n
      /\ \A i \in Region : r[i] = IF i <= n THEN T[i] ELSE c.regions[i]
      /\ \A i \in Region : g[i] = IF i <= n THEN fds[i] ELSE NoFd
      /\ \A i \in Region : v[i] = IF i <= n THEN MappingOf(t2, i) ELSE NoMap
  BY <1>4, <1>7 DEF Region
<1>10. r \in [Region -> Area] /\ g \in [Region -> FdOrNone] /\ v \in [Region -> Mapping]
  <2>1. /\ \A i \in Region : c.regions[i] \in Area
        /\ \A i \in Region : c.region_vaddr[i] \in Mapping
        /\ \A i \in Region : c.region_fds[i] \in FdOrNone
    BY <1>7 DEF DevType
  <2>2. \A i \in 1..n : fds[i] \in FdOrNone
    BY <1>6 DEF FdOrNone
  <2> HIDE DEF T, n, c
  <2> QED
    BY <2>1, <2>2, <1>4, <1>9
<1> HIDE DEF r, g, v, c, n, T, d2
<1>11. /\ d2 \in DevType /\ d2.up = d.up /\ d2.n_regions = n
       /\ d2.regions = r /\ d2.region_fds = g /\ d2.region_vaddr = v
  BY <1>4, <1>7, <1>8, <1>10 DEF DevType
<1>12. /\ d2.entry = d.entry /\ d2.req_fd = d.req_fd /\ d2.kick = d.kick
       /\ d2.call_fd = d.call_fd /\ d2.registered = d.registered
       /\ d2.enabled = d.enabled /\ d2.triggered = d.triggered /\ d2.virtq = d.virtq
       /\ d2.protocol_features = d.protocol_features
  BY <1>7, <1>8 DEF DevType
<1>13. tb2 = [f \in Fd |-> tb2[f]]
  BY ShutProperties
<1>14. OnlyFds(fl, fl2) /\ fl2 \subseteq AllFaults
  <2> HIDE DEF tw, fl
  <2>1. fl2 \subseteq fl \cup {"close"}
    BY FaultIfBounds
  <2> QED
    BY <1>1, <2>1 DEF OnlyFds, AllFaults
<1> DEFINE end == Four(tb2, d2, MapsOf(t2), fl2)
<1>15. MappedTable(st, t2, fds) = end
  BY <1>2, <1>3, <1>5
<1> HIDE DEF fl2, tb2
<1>16. /\ end.table = tb2 /\ end.dev = d2 /\ end.maps = MapsOf(t2) /\ end.faults = fl2
       /\ IsState(end)
  BY <1>11, <1>13, <1>14, FourFields, FourIsState
<1> HIDE DEF end
<1>17. RegionsOf(d2, t2)
  <2>1. TableOf(t2) = T /\ Len(TableOf(t2)) = n
    BY <1>5 DEF n
  <2> QED
    BY <2>1, <1>9, <1>11 DEF RegionsOf
<1>18. MemoryOK(end, t2)
  BY <1>11, <1>16, <1>17 DEF MemoryOK
<1>19. ASSUME ~Withdraws PROVE FdsOK(end, t2)
  <2>1. Owned(tb, d, t) /\ Registered(d) /\ fl \cap {"close", "unlink"} = {}
    BY <1>19 DEF StateOK, FdsOK
  <2>2. \A i \in 1..n : uses[i] = MemUse(t2, i)
    BY <1>4 DEF MemUses, T
  <2>3. fds \in Given(tb, n)
    BY DEF n, T
  <2>4. \A i \in Region : d2.region_fds[i] = IF i <= n THEN fds[i] ELSE NoFd
    BY <1>9, <1>11
  <2>5. ~tw /\ Owned(tb2, d2, t2)
    <3> HIDE DEF tb, d, uses
    <3> QED
      BY <1>1, <1>4, <1>12, <2>1, <2>2, <2>3, <2>4, RegionsReplaced DEF tb2
  <2>6. fl2 = fl
    <3> HIDE DEF tw
    <3> QED
      BY <2>5, FaultIfBounds DEF fl2
  <2>7. Registered(d2)
    BY <2>1, <1>12 DEF Registered
  <2> QED
    BY <2>1, <2>5, <2>6, <2>7, <1>16 DEF FdsOK
<1> QED
  BY <1>11, <1>12, <1>14, <1>15, <1>16, <1>18, <1>19 DEF StateOK, SameQueues
-----------------------------------------------------------------------------
(* Addresses.                                                              *)

(***************************************************************************)
(* A search from the front ends: a non-empty set of numbers has a first    *)
(* one, which Min() is.                                                    *)
(***************************************************************************)
LEMMA FirstPosition ==
    ASSUME NEW T, T \subseteq Nat, T # {}
    PROVE  \E x \in T : \A y \in T : x <= y
<1>1. PICK x \in T : \A y \in T : ~(<<y, x>> \in OpToRel(<, Nat))
  BY NatLessThanWellFounded, WFMin
<1>2. \A y \in T : ~(y < x)
  BY <1>1 DEF OpToRel
<1> QED
  BY <1>2

LEMMA MinProperties ==
    ASSUME NEW T, T \subseteq Nat, T # {}
    PROVE  Min(T) \in T /\ \A y \in T : Min(T) <= y
<1>1. \E x \in T : \A y \in T : x <= y
  BY FirstPosition
<1> QED
  BY <1>1 DEF Min

Froms == {"user_addr", "guest_phys_addr"}

LEMMA FromTypes ==
    ASSUME NEW r \in Area, NEW from \in Froms
    PROVE  r[from] \in Nat /\ r.size \in Nat /\ r.mmap_offset \in Nat
<1>1. r.user_addr \in Nat /\ r.guest_phys_addr \in Nat /\ r.size \in Nat /\ r.mmap_offset \in Nat
  BY DEF Area
<1>2. CASE from = "user_addr"
  BY <1>1, <1>2
<1>3. CASE from = "guest_phys_addr"
  BY <1>1, <1>3
<1> QED
  BY <1>2, <1>3 DEF Froms

(***************************************************************************)
(* The translation of an address that some region of the table covers: a   *)
(* place in the file of one that does, as far from its start, behind the   *)
(* part of the file that is mapped only to align it.                       *)
(***************************************************************************)
LEMMA Translates ==
    ASSUME NEW d, NEW t \in 1..Len(Tables), RegionsOf(d, t),
           NEW from \in Froms, NEW addr \in Nat,
           \E i \in DOMAIN Tables[t] : Covers(Tables[t][i], from, addr)
    PROVE  \E i \in 1..Len(Tables[t]) :
              /\ Covers(Tables[t][i], from, addr)
              /\ to_va(d, from, addr).file = <<t, i>>
              /\ to_va(d, from, addr).at =
                    Tables[t][i].mmap_offset + (addr - Tables[t][i][from])
              /\ to_va(d, from, addr) = [file |-> <<t, i>>, at |-> to_va(d, from, addr).at]
<1> DEFINE T == Tables[t]
           n == Len(T)
           hits == {i \in 1..d.n_regions : Covers(d.regions[i], from, addr)}
           i == Min(hits)
<1>1. /\ n \in Nat /\ DOMAIN T = 1..n
      /\ \A j \in 1..n : j \in Region /\ T[j] \in Area /\ MappingOf(t, j).file = <<t, j>>
  BY TableTypes
<1>2. TableOf(t) = T
  BY DEF TableOf
<1>3. /\ d.n_regions = n
      /\ \A j \in 1..n : d.regions[j] = T[j] /\ d.region_vaddr[j] = MappingOf(t, j)
  BY <1>1, <1>2 DEF RegionsOf
<1>4. hits \subseteq Nat /\ hits # {}
  <2>1. PICK j \in 1..n : Covers(T[j], from, addr)
    BY <1>1
  <2>2. j \in hits
    BY <2>1, <1>3
  <2>3. hits \subseteq Nat
    BY <1>1, <1>3
  <2> QED
    BY <2>2, <2>3
<1>5. i \in hits
  <2> HIDE DEF hits
  <2> QED
    BY <1>4, MinProperties
<1>6. i \in 1..n /\ Covers(T[i], from, addr)
  BY <1>3, <1>5
<1>7. to_va(d, from, addr) = [file |-> d.region_vaddr[i].file,
                              at |-> OffsetIn(d.regions[i], from, addr)]
  BY <1>4 DEF to_va
<1> HIDE DEF hits, i
<1>8. OffsetIn(d.regions[i], from, addr) = T[i].mmap_offset + (addr - T[i][from])
  <2>1. T[i][from] \in Nat /\ T[i].mmap_offset \in Nat
    BY <1>1, <1>6, FromTypes
  <2>2. d.regions[i] = T[i]
    BY <1>3, <1>6
  <2> HIDE DEF T
  <2>3. OffsetIn(d.regions[i], from, addr) = addr - T[i][from] + T[i].mmap_offset
    BY <2>2 DEF OffsetIn
  <2> QED
    BY <2>1, <2>3
<1>9. d.region_vaddr[i].file = <<t, i>>
  BY <1>1, <1>3, <1>6
<1> DEFINE off == T[i].mmap_offset + (addr - T[i][from])
<1> HIDE DEF off
<1>10. to_va(d, from, addr) = [file |-> <<t, i>>, at |-> off]
  BY <1>7, <1>8, <1>9 DEF off
<1>11. to_va(d, from, addr).file = <<t, i>> /\ to_va(d, from, addr).at = off
  BY <1>10
<1> QED
  BY <1>6, <1>10, <1>11 DEF off

\* Mapped(ptr), of the maps of a table
MappedIn(t, ptr) == \E m \in MapsOf(t) : m.file = ptr.file /\ ptr.at < m.len

(***************************************************************************)
(* A place k bytes on is the driver's, and mapped, as long as the region   *)
(* goes on.                                                                *)
(***************************************************************************)
LEMMA PlaceMeant ==
    ASSUME NEW t \in 1..Len(Tables), NEW i \in 1..Len(Tables[t]), NEW from \in Froms,
           NEW addr \in Nat, NEW k \in Nat, Covers(Tables[t][i], from, addr),
           addr + k < Tables[t][i][from] + Tables[t][i].size,
           NEW at, at = Tables[t][i].mmap_offset + (addr - Tables[t][i][from]) + k
    PROVE  /\ Meant([file |-> <<t, i>>, at |-> at], t, from, addr + k)
           /\ MappedIn(t, [file |-> <<t, i>>, at |-> at])
           /\ at \in Nat
<1> DEFINE r == Tables[t][i]
           n == (addr - r[from]) + k
           ptr == [file |-> <<t, i>>, at |-> at]
<1>1. /\ r \in Area /\ i \in Region /\ DOMAIN Tables[t] = 1..Len(Tables[t])
      /\ MappingOf(t, i).file = <<t, i>>
  BY TableTypes
<1>2. r[from] \in Nat /\ r.size \in Nat /\ r.mmap_offset \in Nat
  BY <1>1, FromTypes
<1> DEFINE b == r[from]
           sz == r.size
           o == r.mmap_offset
<1>3. /\ b \in Nat /\ sz \in Nat /\ o \in Nat
      /\ addr >= b /\ addr + k < b + sz /\ at = o + (addr - b) + k
  BY <1>2 DEF Covers
<1>4. n = (addr - b) + k
  OBVIOUS
<1> HIDE DEF r, b, sz, o, n
<1>5. /\ n \in 0..(sz - 1) /\ b + n = addr + k /\ at = o + n
      /\ at \in Nat /\ at < sz + o
  BY <1>3, <1>4
<1>6. Meant(ptr, t, from, addr + k)
  <2>1. ptr = [file |-> <<t, i>>, at |-> o + n]
    BY <1>5
  <2> HIDE DEF ptr
  <2> QED
    BY <1>1, <1>5, <2>1 DEF Meant, r, b, sz, o
<1>7. MappingOf(t, i) \in MapsOf(t)
  <2>1. TableOf(t) = Tables[t]
    BY DEF TableOf
  <2> QED
    BY <2>1 DEF MapsOf
<1>8. MappingOf(t, i).len = sz + o
  BY DEF MappingOf, r, sz, o
<1>9. MappedIn(t, ptr)
  BY <1>1, <1>5, <1>7, <1>8 DEF MappedIn
<1> QED
  BY <1>5, <1>6, <1>9

(***************************************************************************)
(* The translation of an address is the driver's byte with it, and k bytes *)
(* on comes the one with the address plus k, as long as every region that  *)
(* covers the address goes on.                                             *)
(***************************************************************************)
LEMMA ByteMeant ==
    ASSUME NEW d, NEW t \in 1..Len(Tables), RegionsOf(d, t),
           NEW from \in Froms, NEW addr \in Nat, NEW k \in Nat,
           \E i \in DOMAIN Tables[t] : Covers(Tables[t][i], from, addr),
           \A i \in DOMAIN Tables[t] : Covers(Tables[t][i], from, addr) =>
                addr + k < Tables[t][i][from] + Tables[t][i].size,
           NEW ptr, ptr = [file |-> to_va(d, from, addr).file,
                           at |-> to_va(d, from, addr).at + k]
    PROVE  /\ Meant(ptr, t, from, addr + k)
           /\ MappedIn(t, ptr)
           /\ to_va(d, from, addr) \in Ptr
<1> DEFINE v == to_va(d, from, addr)
<1>1. PICK i \in 1..Len(Tables[t]) :
              /\ Covers(Tables[t][i], from, addr)
              /\ v.file = <<t, i>>
              /\ v.at = Tables[t][i].mmap_offset + (addr - Tables[t][i][from])
              /\ v = [file |-> <<t, i>>, at |-> v.at]
  BY Translates
<1> HIDE DEF v
<1>2. i \in DOMAIN Tables[t] /\ Tables[t][i] \in Area
  BY TableTypes
<1>3. addr + k < Tables[t][i][from] + Tables[t][i].size
  BY <1>1, <1>2
<1>4. Tables[t][i][from] \in Nat /\ Tables[t][i].mmap_offset \in Nat
  BY <1>2, FromTypes
<1>5. v.at \in Int
  BY <1>1, <1>4
<1>6. v.at + k = Tables[t][i].mmap_offset + (addr - Tables[t][i][from]) + k
  BY <1>1
<1>7. ptr = [file |-> <<t, i>>, at |-> v.at + k]
  BY <1>1 DEF v
<1>8. /\ Meant([file |-> <<t, i>>, at |-> v.at + k], t, from, addr + k)
      /\ MappedIn(t, [file |-> <<t, i>>, at |-> v.at + k])
  BY <1>1, <1>3, <1>6, PlaceMeant
<1>9. <<t, i>> \in Seq(Nat)
  BY TablesAssumption
<1>10. v \in Ptr
  BY <1>1, <1>5, <1>9 DEF Ptr
<1> QED
  BY <1>7, <1>8, <1>10 DEF v

LEMMA PlaceTypes == \A p \in Part : Place[p] \in Nat
  BY DEF Part, Place

Ring(d, base) == [p \in Part |-> to_va(d, "user_addr", base + Place[p])]

(***************************************************************************)
(* The parts of a ring, at three user addresses.                           *)
(***************************************************************************)
LEMMA RingMeant ==
    ASSUME NEW d, NEW t \in 1..Len(Tables), RegionsOf(d, t), NEW base \in Nat,
           \A p \in Part : \E i \in DOMAIN Tables[t] :
                Covers(Tables[t][i], "user_addr", base + Place[p])
    PROVE  /\ Ring(d, base) \in [Part -> Ptr]
           /\ \A p \in Part :
                 /\ Meant(Ring(d, base)[p], t, "user_addr", base + Place[p])
                 /\ MappedIn(t, Ring(d, base)[p])
<1>1. ASSUME NEW p \in Part
      PROVE  /\ Ring(d, base)[p] \in Ptr
             /\ Meant(Ring(d, base)[p], t, "user_addr", base + Place[p])
             /\ MappedIn(t, Ring(d, base)[p])
  <2> DEFINE addr == base + Place[p]
             v == to_va(d, "user_addr", addr)
  <2>1. addr \in Nat /\ "user_addr" \in Froms
    BY PlaceTypes DEF Froms
  <2>2. \E i \in DOMAIN Tables[t] : Covers(Tables[t][i], "user_addr", addr)
    OBVIOUS
  <2> HIDE DEF addr
  <2>3. PICK i \in 1..Len(Tables[t]) : v.file = <<t, i>>
              /\ v.at = Tables[t][i].mmap_offset + (addr - Tables[t][i]["user_addr"])
              /\ v = [file |-> <<t, i>>, at |-> v.at]
    BY <2>1, <2>2, Translates
  <2>4. Tables[t][i]["user_addr"] \in Nat /\ Tables[t][i].mmap_offset \in Nat
    BY <2>1, TableTypes, FromTypes
  <2> HIDE DEF v
  <2>5. v.at \in Int
    BY <2>1, <2>3, <2>4
  <2>6. v = [file |-> v.file, at |-> v.at + 0]
    BY <2>3, <2>5
  <2>7. \A j \in DOMAIN Tables[t] : Covers(Tables[t][j], "user_addr", addr) =>
                addr + 0 < Tables[t][j]["user_addr"] + Tables[t][j].size
    BY <2>1, TableTypes, FromTypes DEF Covers
  <2>8. v = [file |-> to_va(d, "user_addr", addr).file,
             at |-> to_va(d, "user_addr", addr).at + 0]
    BY <2>6 DEF v
  <2>9. /\ Meant(v, t, "user_addr", addr + 0)
        /\ MappedIn(t, v)
        /\ to_va(d, "user_addr", addr) \in Ptr
    BY <2>1, <2>2, <2>7, <2>8, ByteMeant
  <2>10. addr + 0 = addr
    BY <2>1
  <2>11. Ring(d, base)[p] = v
    BY DEF Ring, v, addr
  <2> QED
    BY <2>9, <2>10, <2>11 DEF v, addr
<1> QED
  BY <1>1 DEF Ring
-----------------------------------------------------------------------------
(* Buffers.                                                                *)

(***************************************************************************)
(* Induction up to a bound, for a set instead of a predicate: the smallest *)
(* number outside of it would have a predecessor inside.                   *)
(***************************************************************************)
LEMMA Induct ==
    ASSUME NEW N \in Nat, NEW T, 0 \in T, \A n \in 0..(N - 1) : n \in T => n + 1 \in T
    PROVE  \A n \in 0..N : n \in T
<1> DEFINE Out == {n \in 0..N : n \notin T}
<1>1. SUFFICES ASSUME Out # {} PROVE FALSE
  OBVIOUS
<1>2. Out \subseteq Nat
  OBVIOUS
<1>3. PICK x \in Out : \A y \in Out : x <= y
  <2> HIDE DEF Out
  <2> QED
    BY <1>1, <1>2, FirstPosition
<1>4. x # 0
  BY <1>3
<1>5. x - 1 \in 0..(N - 1) /\ x - 1 \in T
  BY <1>3, <1>4
<1> QED
  BY <1>3, <1>5

(***************************************************************************)
(* A loop that goes from one value of a set to the next defines its        *)
(* values.                                                                 *)
(***************************************************************************)
Steps(step, N, S) == step \in [S \X (1..N) -> S]
Loop(g, N, S, b, step) ==
    g \in [0..N -> S] /\ g[0] = b /\ \A n \in 1..N : g[n] = step[<<g[n - 1], n>>]

LEMMA Recursion ==
    ASSUME NEW N \in Nat, NEW S, NEW b \in S, NEW step, Steps(step, N, S)
    PROVE  \E g : Loop(g, N, S, b, step)
<1>0. step \in [S \X (1..N) -> S]
  BY DEF Steps
<1> DEFINE T == {m \in 0..N : \E g \in [0..m -> S] :
                    g[0] = b /\ \A n \in 1..m : g[n] = step[<<g[n - 1], n>>]}
<1>1. 0 \in T
  <2> DEFINE g == [n \in 0..0 |-> b]
  <2>1. g \in [0..0 -> S] /\ g[0] = b
    OBVIOUS
  <2>2. \A n \in 1..0 : g[n] = step[<<g[n - 1], n>>]
    OBVIOUS
  <2> HIDE DEF g
  <2> QED
    BY <2>1, <2>2
<1>2. ASSUME NEW m \in 0..(N - 1), m \in T PROVE m + 1 \in T
  <2>1. PICK g \in [0..m -> S] :
            g[0] = b /\ \A n \in 1..m : g[n] = step[<<g[n - 1], n>>]
    BY <1>2
  <2> DEFINE h == [n \in 0..(m + 1) |-> IF n <= m THEN g[n] ELSE step[<<g[m], m + 1>>]]
  <2>2. g[m] \in S /\ m + 1 \in 1..N /\ m \in Nat
    BY <2>1
  <2>3. step[<<g[m], m + 1>>] \in S
    BY <2>2, <1>0
  <2>4. h \in [0..(m + 1) -> S]
    BY <2>3
  <2>5. h[0] = b
    BY <2>1
  <2>6. ASSUME NEW n \in 1..(m + 1) PROVE h[n] = step[<<h[n - 1], n>>]
    <3>1. n - 1 \in 0..m /\ h[n - 1] = g[n - 1]
      OBVIOUS
    <3>2. CASE n <= m
      BY <3>2, <3>1, <2>1
    <3>3. CASE n = m + 1
      <4>1. h[n] = step[<<g[m], m + 1>>] /\ n - 1 = m
        BY <3>3, <2>2
      <4> QED
        BY <3>3, <3>1, <4>1
    <3> QED
      BY <3>2, <3>3
  <2> HIDE DEF h
  <2>7. m + 1 \in 0..N
    BY <2>2
  <2> QED
    BY <2>4, <2>5, <2>6, <2>7
<1> HIDE DEF T
<1>3. N \in T
  BY <1>1, <1>2, Induct
<1> QED
  BY <1>3 DEF T, Loop

LEMMA SmallerOfTwo ==
    ASSUME NEW a \in Nat, NEW b \in Nat
    PROVE  Min({a, b}) = IF a <= b THEN a ELSE b
<1>1. {a, b} \subseteq Nat /\ {a, b} # {}
  OBVIOUS
<1>2. Min({a, b}) \in {a, b} /\ \A y \in {a, b} : Min({a, b}) <= y
  BY <1>1, MinProperties
<1> QED
  BY <1>2

(***************************************************************************)
(* The addresses of the bytes of a chain, descriptor by descriptor.        *)
(***************************************************************************)
AddrsOf(e) == [k \in 1..e.len |-> e.addr + k - 1]

BytesEq(chain, f) ==
    f = [n \in 0..Len(chain) |->
            IF n = 0 THEN <<>>
            ELSE f[n - 1] \o [k \in 1..chain[n].len |-> chain[n].addr + k - 1]]

LEMMA AddrsTypes ==
    ASSUME NEW e \in Elem
    PROVE  /\ e.addr \in Nat /\ e.len \in Nat
           /\ AddrsOf(e) \in Seq(Nat) /\ Len(AddrsOf(e)) = e.len
           /\ \A k \in 1..e.len : AddrsOf(e)[k] = e.addr + k - 1
<1> DEFINE l == e.len a == e.addr
<1>1. a \in Nat /\ l \in Nat
  BY DEF Elem
<1> HIDE DEF a, l
<1>2. [k \in 1..l |-> a + k - 1] \in Seq(Nat)
  BY <1>1
<1>3. Len([k \in 1..l |-> a + k - 1]) = l
  BY <1>1
<1>4. AddrsOf(e) = [k \in 1..l |-> a + k - 1]
  BY DEF AddrsOf, a, l
<1> QED
  BY <1>1, <1>2, <1>3, <1>4 DEF a, l

LEMMA BytesSteps ==
    ASSUME NEW chain \in Seq(Elem)
    PROVE  \E u \in [0..Len(chain) -> Seq(Nat)] :
              /\ Bytes(chain) = u[Len(chain)]
              /\ u[0] = <<>>
              /\ \A n \in 1..Len(chain) : u[n] = u[n - 1] \o AddrsOf(chain[n])
<1> DEFINE N == Len(chain)
           S == Seq(Nat)
           step == [x \in S \X (1..N) |-> x[1] \o AddrsOf(chain[x[2]])]
<1>1. N \in Nat /\ \A n \in 1..N : chain[n] \in Elem
  OBVIOUS
<1>2. \A n \in 1..N : AddrsOf(chain[n]) \in S
  BY <1>1, AddrsTypes
<1>3. step \in [S \X (1..N) -> S]
  <2> SUFFICES ASSUME NEW x \in S \X (1..N) PROVE x[1] \o AddrsOf(chain[x[2]]) \in S
    OBVIOUS
  <2>1. x[1] \in Seq(Nat) /\ AddrsOf(chain[x[2]]) \in Seq(Nat)
    BY <1>2
  <2> QED
    BY <2>1
<1>4. \A s \in S, n \in 1..N : step[<<s, n>>] = s \o AddrsOf(chain[n])
  OBVIOUS
<1>5. <<>> \in S
  OBVIOUS
<1> HIDE DEF step, S
<1>6. PICK g \in [0..N -> S] : g[0] = <<>> /\ \A n \in 1..N : g[n] = step[<<g[n - 1], n>>]
  <2> DEFINE b == <<>>
  <2>1. b \in S
    BY <1>5
  <2> HIDE DEF N, b
  <2>2. Steps(step, N, S)
    BY <1>3 DEF Steps
  <2>3. \E g : Loop(g, N, S, b, step)
    BY <1>1, <2>1, <2>2, Recursion
  <2> QED
    BY <2>3 DEF b, Loop
<1>7. \A n \in 1..N : g[n] = g[n - 1] \o AddrsOf(chain[n])
  <2> SUFFICES ASSUME NEW n \in 1..N PROVE g[n] = g[n - 1] \o AddrsOf(chain[n])
    OBVIOUS
  <2>1. n - 1 \in 0..N
    BY <1>1
  <2>2. g[n - 1] \in S
    BY <2>1, <1>6
  <2> QED
    BY <2>2, <1>4, <1>6
<1>8. BytesEq(chain, g)
  <2>1. \A n \in 0..N : g[n] = IF n = 0 THEN <<>> ELSE g[n - 1] \o AddrsOf(chain[n])
    BY <1>1, <1>6, <1>7
  <2>2. g = [n \in 0..N |-> IF n = 0 THEN <<>> ELSE g[n - 1] \o AddrsOf(chain[n])]
    BY <2>1, <1>6
  <2> QED
    BY <2>2 DEF BytesEq, AddrsOf
<1> DEFINE u == CHOOSE h : BytesEq(chain, h)
<1>9. BytesEq(chain, u)
  BY <1>8, Zenon
<1>10. Bytes(chain) = u[Len(chain)]
  BY Zenon DEF Bytes, BytesEq
<1> HIDE DEF u
<1>11. u = [n \in 0..N |-> IF n = 0 THEN <<>> ELSE u[n - 1] \o AddrsOf(chain[n])]
  BY <1>9 DEF BytesEq, AddrsOf
<1>12. /\ u[0] = <<>>
       /\ \A n \in 1..N : u[n] = u[n - 1] \o AddrsOf(chain[n])
  BY <1>1, <1>11
<1>13. \A n \in 0..N : n \in {m \in 0..N : u[m] \in Seq(Nat)}
  <2> DEFINE T == {m \in 0..N : u[m] \in Seq(Nat)}
  <2>1. 0 \in T
    BY <1>1, <1>12
  <2>2. ASSUME NEW n \in 0..(N - 1), n \in T PROVE n + 1 \in T
    <3>1. n + 1 \in 1..N /\ (n + 1) - 1 = n
      BY <1>1
    <3>2. u[n + 1] = u[n] \o AddrsOf(chain[n + 1])
      BY <3>1, <1>12
    <3>3. u[n] \in Seq(Nat) /\ AddrsOf(chain[n + 1]) \in Seq(Nat)
      BY <2>2, <3>1, <1>2 DEF S
    <3>4. u[n + 1] \in Seq(Nat)
      BY <3>2, <3>3
    <3> QED
      BY <3>1, <3>4
  <2> HIDE DEF T
  <2>3. \A n \in 0..N : n \in T
    BY <2>1, <2>2, <1>1, Induct
  <2> QED
    BY <2>3 DEF T
<1>14. u \in [0..N -> Seq(Nat)]
  BY <1>11, <1>13
<1> QED
  BY <1>10, <1>12, <1>14

(***************************************************************************)
(* The places of iov_fill() and iov_read(), segment by segment.            *)
(***************************************************************************)
Seg == [base : Ptr, len : Nat]
UpTo(limit) == {s \in Seq(Ptr) : Len(s) <= limit}
PlacesOf(s, m) == [k \in 1..m |-> [file |-> s.base.file, at |-> s.base.at + k - 1]]
Room(c, s, limit) == Min({limit - Len(c), s.len})

CopyEq(sg, buflen, f) ==
    f = [n \in 0..Len(sg) |->
            IF n = 0 THEN <<>>
            ELSE f[n - 1] \o
                    [k \in 1..Min({buflen - Len(f[n - 1]), sg[n].len}) |->
                        [file |-> sg[n].base.file, at |-> sg[n].base.at + k - 1]]]

LEMMA PlacesTypes ==
    ASSUME NEW s \in Seg, NEW m \in Nat
    PROVE  /\ PlacesOf(s, m) \in Seq(Ptr) /\ Len(PlacesOf(s, m)) = m
           /\ \A k \in 1..m :
                PlacesOf(s, m)[k] = [file |-> s.base.file, at |-> s.base.at + k - 1]
<1> DEFINE p(k) == [file |-> s.base.file, at |-> s.base.at + k - 1]
<1>1. s.base \in Ptr
  BY DEF Seg
<1>2. s.base.file \in Seq(Nat) /\ s.base.at \in Int
  BY <1>1 DEF Ptr
<1>3. \A k \in 1..m : p(k) \in Ptr
  BY <1>2 DEF Ptr
<1>4. PlacesOf(s, m) = [k \in 1..m |-> p(k)]
  BY DEF PlacesOf
<1> HIDE DEF p
<1>5. [k \in 1..m |-> p(k)] \in Seq(Ptr) /\ Len([k \in 1..m |-> p(k)]) = m
  BY <1>3
<1>6. \A k \in 1..m : PlacesOf(s, m)[k] = p(k)
  BY <1>4
<1> QED
  BY <1>4, <1>5, <1>6 DEF p

LEMMA RoomProperties ==
    ASSUME NEW limit \in Nat, NEW c \in UpTo(limit), NEW s \in Seg
    PROVE  /\ Room(c, s, limit) \in Nat
           /\ Len(c) + Room(c, s, limit) <= limit
           /\ Room(c, s, limit) = IF limit - Len(c) <= s.len THEN limit - Len(c) ELSE s.len
<1> DEFINE a == limit - Len(c) b == s.len
<1>1. c \in Seq(Ptr) /\ Len(c) <= limit
  BY DEF UpTo
<1>2. a \in Nat /\ b \in Nat /\ Len(c) \in Nat
  BY <1>1 DEF Seg
<1>3. Room(c, s, limit) = Min({a, b})
  BY DEF Room
<1>4. Len(c) + a = limit
  BY <1>2
<1> HIDE DEF a, b
<1>5. Min({a, b}) = IF a <= b THEN a ELSE b
  BY <1>2, SmallerOfTwo
<1> QED
  BY <1>2, <1>3, <1>4, <1>5 DEF a, b

LEMMA CopyOne ==
    ASSUME NEW limit \in Nat, NEW c \in UpTo(limit), NEW s \in Seg
    PROVE  c \o PlacesOf(s, Room(c, s, limit)) \in UpTo(limit)
<1> DEFINE m == Room(c, s, limit) p == PlacesOf(s, m)
<1>1. m \in Nat /\ Len(c) + m <= limit
  BY RoomProperties
<1> HIDE DEF m
<1>2. p \in Seq(Ptr) /\ Len(p) = m
  BY <1>1, PlacesTypes
<1> HIDE DEF p
<1>3. c \in Seq(Ptr)
  BY DEF UpTo
<1>4. c \o p \in Seq(Ptr) /\ Len(c \o p) = Len(c) + Len(p)
  BY <1>2, <1>3
<1>5. c \o p \in UpTo(limit)
  BY <1>1, <1>2, <1>4 DEF UpTo
<1> QED
  BY <1>5 DEF p, m

LEMMA CopySteps ==
    ASSUME NEW sg \in Seq(Seg), NEW limit \in Nat
    PROVE  \E c \in [0..Len(sg) -> UpTo(limit)] :
              /\ iov_copy(sg, limit) = c[Len(sg)]
              /\ c[0] = <<>>
              /\ \A n \in 1..Len(sg) :
                    c[n] = c[n - 1] \o PlacesOf(sg[n], Room(c[n - 1], sg[n], limit))
<1> DEFINE N == Len(sg)
           S == UpTo(limit)
           step == [x \in S \X (1..N) |->
                        x[1] \o PlacesOf(sg[x[2]], Room(x[1], sg[x[2]], limit))]
<1>1. N \in Nat /\ \A n \in 1..N : sg[n] \in Seg
  OBVIOUS
<1>2. \A s \in S, n \in 1..N : s \o PlacesOf(sg[n], Room(s, sg[n], limit)) \in S
  BY <1>1, CopyOne
<1>3. Steps(step, N, S)
  <2> SUFFICES ASSUME NEW x \in S \X (1..N)
               PROVE  x[1] \o PlacesOf(sg[x[2]], Room(x[1], sg[x[2]], limit)) \in S
    BY DEF Steps
  <2>1. x[1] \in S /\ x[2] \in 1..N
    OBVIOUS
  <2> HIDE DEF S, N
  <2> QED
    BY <2>1, <1>2
<1>4. \A s \in S, n \in 1..N :
        step[<<s, n>>] = s \o PlacesOf(sg[n], Room(s, sg[n], limit))
  <2> HIDE DEF S
  <2> QED
    OBVIOUS
<1>5. <<>> \in S
  BY DEF UpTo
<1> HIDE DEF step, S
<1>6. PICK g \in [0..N -> S] : g[0] = <<>> /\ \A n \in 1..N : g[n] = step[<<g[n - 1], n>>]
  <2> DEFINE b == <<>>
  <2>1. b \in S
    BY <1>5
  <2> HIDE DEF N, b
  <2>2. \E g : Loop(g, N, S, b, step)
    BY <1>1, <1>3, <2>1, Recursion
  <2> QED
    BY <2>2 DEF b, Loop
<1>7. \A n \in 1..N : g[n] = g[n - 1] \o PlacesOf(sg[n], Room(g[n - 1], sg[n], limit))
  <2> SUFFICES ASSUME NEW n \in 1..N
               PROVE g[n] = g[n - 1] \o PlacesOf(sg[n], Room(g[n - 1], sg[n], limit))
    OBVIOUS
  <2>1. n - 1 \in 0..N
    BY <1>1
  <2>2. g[n - 1] \in S
    BY <2>1, <1>6
  <2> QED
    BY <2>2, <1>4, <1>6
<1>8. CopyEq(sg, limit, g)
  <2> DEFINE nxt(n) == g[n - 1] \o PlacesOf(sg[n], Room(g[n - 1], sg[n], limit))
  <2>1. \A n \in 1..N : g[n] = nxt(n)
    BY <1>7
  <2> HIDE DEF nxt
  <2>2. \A n \in 0..N : g[n] = IF n = 0 THEN <<>> ELSE nxt(n)
    BY <1>1, <1>6, <2>1
  <2>3. g = [n \in 0..N |-> IF n = 0 THEN <<>> ELSE nxt(n)]
    BY <2>2, <1>6
  <2> QED
    BY <2>3, Zenon DEF CopyEq, nxt, PlacesOf, Room
<1> DEFINE c == CHOOSE h : CopyEq(sg, limit, h)
<1>9. CopyEq(sg, limit, c)
  BY <1>8, Zenon
<1>10. iov_copy(sg, limit) = c[Len(sg)]
  BY Zenon DEF iov_copy, CopyEq
<1> HIDE DEF c
<1> DEFINE nxt(n) == c[n - 1] \o PlacesOf(sg[n], Room(c[n - 1], sg[n], limit))
<1>11. c = [n \in 0..N |-> IF n = 0 THEN <<>> ELSE nxt(n)]
  BY <1>9, Zenon DEF CopyEq, PlacesOf, Room
<1>12. c[0] = <<>> /\ \A n \in 1..N : c[n] = nxt(n)
  <2> HIDE DEF nxt
  <2> QED
    BY <1>1, <1>11
<1>13. \A n \in 0..N : n \in {m \in 0..N : c[m] \in S}
  <2> DEFINE T == {m \in 0..N : c[m] \in S}
  <2>1. 0 \in T
    BY <1>1, <1>12, <1>5
  <2>2. ASSUME NEW n \in 0..(N - 1), n \in T PROVE n + 1 \in T
    <3>1. n + 1 \in 1..N /\ (n + 1) - 1 = n
      BY <1>1
    <3>2. c[n + 1] = c[n] \o PlacesOf(sg[n + 1], Room(c[n], sg[n + 1], limit))
      BY <3>1, <1>12
    <3>3. c[n] \in S
      BY <2>2
    <3>4. c[n + 1] \in S
      BY <3>1, <3>2, <3>3, <1>2
    <3> QED
      BY <3>1, <3>4
  <2> HIDE DEF T
  <2>3. \A n \in 0..N : n \in T
    BY <2>1, <2>2, <1>1, Induct
  <2> QED
    BY <2>3 DEF T
<1>14. c \in [0..N -> S]
  <2> HIDE DEF nxt
  <2> QED
    BY <1>11, <1>13
<1> QED
  BY <1>10, <1>12, <1>14 DEF S

(***************************************************************************)
(* The segments of a chain that is all for reading, or all for writing.    *)
(***************************************************************************)
Segs(chain) == [k \in 1..Len(chain) |-> Segment(dev, chain[k])]

GatherEq(chain, w, f) ==
    f = [n \in 0..Len(chain) |->
            IF n = 0 THEN <<>>
            ELSE IF chain[n].write = w THEN Append(f[n - 1], Segment(dev, chain[n]))
            ELSE f[n - 1]]

LEMMA GatherAll ==
    ASSUME NEW chain \in Seq(Elem), NEW w, \A k \in 1..Len(chain) : chain[k].write = w,
           \A k \in 1..Len(chain) : Segment(dev, chain[k]) \in Seg
    PROVE  Gather(chain, w) = Segs(chain)
<1> DEFINE N == Len(chain)
           x(k) == Segment(dev, chain[k])
           h(n) == [k \in 1..n |-> x(k)]
           g == [n \in 0..N |-> h(n)]
<1>1. N \in Nat /\ \A k \in 1..N : x(k) \in Seg
  OBVIOUS
<1> HIDE DEF N, x
<1>2. \A n \in 0..N : h(n) \in Seq(Seg) /\ Len(h(n)) = n
  BY <1>1
<1>3. ASSUME NEW n \in 1..N PROVE h(n) = Append(h(n - 1), x(n))
  <2>1. n - 1 \in 0..N /\ n \in 0..N
    BY <1>1
  <2>2. /\ h(n) \in Seq(Seg) /\ Len(h(n)) = n
        /\ h(n - 1) \in Seq(Seg) /\ Len(h(n - 1)) = n - 1
        /\ x(n) \in Seg
    BY <2>1, <1>1, <1>2
  <2>3. /\ Append(h(n - 1), x(n)) \in Seq(Seg)
        /\ Len(Append(h(n - 1), x(n))) = n
    BY <2>2
  <2>4. \A k \in 1..n : Append(h(n - 1), x(n))[k] = IF k = n THEN x(n) ELSE h(n - 1)[k]
    <3> HIDE DEF h
    <3> QED
      BY <2>2
  <2>5. \A k \in 1..n : h(n)[k] = x(k)
    OBVIOUS
  <2>6. \A k \in 1..n : k # n => h(n - 1)[k] = x(k)
    OBVIOUS
  <2>7. \A k \in 1..n : h(n)[k] = Append(h(n - 1), x(n))[k]
    <3> HIDE DEF h
    <3> QED
      BY <2>4, <2>5, <2>6
  <2> HIDE DEF h
  <2> QED
    BY <2>2, <2>3, <2>7, SeqEqual
<1>4. h(0) = <<>>
  BY <1>1
<1> HIDE DEF h
<1>5. \A n \in 0..N : g[n] = h(n)
  OBVIOUS
<1>6. \A n \in 1..N : chain[n].write = w
  BY DEF N
<1>7. GatherEq(chain, w, g)
  <2>1. \A n \in 0..N : g[n] = IF n = 0 THEN <<>>
                              ELSE IF chain[n].write = w THEN Append(g[n - 1], x(n))
                              ELSE g[n - 1]
    <3> SUFFICES ASSUME NEW n \in 0..N
                 PROVE  g[n] = IF n = 0 THEN <<>>
                              ELSE IF chain[n].write = w THEN Append(g[n - 1], x(n))
                              ELSE g[n - 1]
      OBVIOUS
    <3>1. CASE n = 0
      BY <3>1, <1>4, <1>5
    <3>2. CASE n # 0
      <4>1. n \in 1..N /\ n - 1 \in 0..N
        BY <3>2, <1>1
      <4>2. g[n - 1] = h(n - 1) /\ g[n] = h(n) /\ chain[n].write = w
        BY <4>1, <1>5, <1>6
      <4> HIDE DEF g
      <4> QED
        BY <3>2, <4>1, <4>2, <1>3
    <3> QED
      BY <3>1, <3>2
  <2>2. g = [n \in 0..N |-> IF n = 0 THEN <<>>
                            ELSE IF chain[n].write = w THEN Append(g[n - 1], x(n))
                            ELSE g[n - 1]]
    <3>1. g = [n \in 0..N |-> g[n]]
      OBVIOUS
    <3> HIDE DEF g
    <3> QED
      BY <2>1, <3>1
  <2> QED
    BY <2>2, Zenon DEF GatherEq, N, x
<1> DEFINE f == CHOOSE s : GatherEq(chain, w, s)
<1>8. GatherEq(chain, w, f)
  BY <1>7, Zenon
<1>9. Gather(chain, w) = f[N]
  BY Zenon DEF Gather, GatherEq, N
<1> HIDE DEF f
<1>10. f = [n \in 0..N |-> IF n = 0 THEN <<>>
                           ELSE IF chain[n].write = w THEN Append(f[n - 1], x(n))
                           ELSE f[n - 1]]
  BY <1>8, Zenon DEF GatherEq, N, x
<1>11. \A n \in 0..N : n \in {m \in 0..N : f[m] = h(m)}
  <2> DEFINE T == {m \in 0..N : f[m] = h(m)}
  <2>1. 0 \in T
    BY <1>1, <1>4, <1>10
  <2>2. ASSUME NEW n \in 0..(N - 1), n \in T PROVE n + 1 \in T
    <3>1. n + 1 \in 1..N /\ n + 1 \in 0..N /\ (n + 1) - 1 = n /\ n + 1 # 0
      BY <1>1
    <3>2. f[n + 1] = Append(f[n], x(n + 1))
      BY <3>1, <1>6, <1>10
    <3>3. f[n + 1] = h(n + 1)
      BY <2>2, <3>1, <3>2, <1>3
    <3> QED
      BY <3>1, <3>3
  <2> HIDE DEF T
  <2>3. \A n \in 0..N : n \in T
    BY <2>1, <2>2, <1>1, Induct
  <2> QED
    BY <2>3 DEF T
<1>12. f[N] = h(N)
  BY <1>1, <1>11
<1> QED
  BY <1>9, <1>12 DEF h, N, x, Segs

LEMMA GatherNone ==
    ASSUME NEW chain \in Seq(Elem), NEW w, \A k \in 1..Len(chain) : chain[k].write # w
    PROVE  Gather(chain, w) = <<>>
<1> DEFINE N == Len(chain)
           x(k) == Segment(dev, chain[k])
           g == [n \in 0..N |-> <<>>]
<1>1. N \in Nat
  OBVIOUS
<1> HIDE DEF N, x
<1>2. \A n \in 1..N : chain[n].write # w
  BY DEF N
<1>3. GatherEq(chain, w, g)
  <2>1. \A n \in 0..N : g[n] = <<>>
    OBVIOUS
  <2>2. \A n \in 0..N : n # 0 => n - 1 \in 0..N /\ n \in 1..N
    BY <1>1
  <2>3. g = [n \in 0..N |-> g[n]]
    OBVIOUS
  <2> HIDE DEF g
  <2>4. \A n \in 0..N : g[n] = IF n = 0 THEN <<>>
                              ELSE IF chain[n].write = w THEN Append(g[n - 1], x(n))
                              ELSE g[n - 1]
    BY <2>1, <2>2, <1>2
  <2>5. g = [n \in 0..N |-> IF n = 0 THEN <<>>
                            ELSE IF chain[n].write = w THEN Append(g[n - 1], x(n))
                            ELSE g[n - 1]]
    BY <2>3, <2>4
  <2> QED
    BY <2>5, Zenon DEF GatherEq, N, x
<1> DEFINE f == CHOOSE s : GatherEq(chain, w, s)
<1>4. GatherEq(chain, w, f)
  BY <1>3, Zenon
<1>5. Gather(chain, w) = f[N]
  BY Zenon DEF Gather, GatherEq, N
<1> HIDE DEF f
<1>6. f = [n \in 0..N |-> IF n = 0 THEN <<>>
                           ELSE IF chain[n].write = w THEN Append(f[n - 1], x(n))
                           ELSE f[n - 1]]
  BY <1>4, Zenon DEF GatherEq, N, x
<1>7. \A n \in 0..N : n \in {m \in 0..N : f[m] = <<>>}
  <2> DEFINE T == {m \in 0..N : f[m] = <<>>}
  <2>1. 0 \in T
    BY <1>1, <1>6
  <2>2. ASSUME NEW n \in 0..(N - 1), n \in T PROVE n + 1 \in T
    <3>1. n + 1 \in 1..N /\ n + 1 \in 0..N /\ (n + 1) - 1 = n /\ n + 1 # 0
      BY <1>1
    <3>2. f[n + 1] = f[n]
      BY <3>1, <1>2, <1>6
    <3> QED
      BY <2>2, <3>1, <3>2
  <2> HIDE DEF T
  <2>3. \A n \in 0..N : n \in T
    BY <2>1, <2>2, <1>1, Induct
  <2> QED
    BY <2>3 DEF T
<1> QED
  BY <1>1, <1>5, <1>7

(***************************************************************************)
(* The segment of a descriptor: its bytes are the driver's, each where the *)
(* driver has it.                                                          *)
(***************************************************************************)
LEMMA SegmentMeant ==
    ASSUME NEW t \in 1..Len(Tables), RegionsOf(dev, t), NEW chain \in Chains
    PROVE  /\ chain \in Seq(Elem)
           /\ \A n \in 1..Len(chain) :
                /\ chain[n] \in Elem
                /\ Segment(dev, chain[n]) \in Seg
                /\ Segment(dev, chain[n]).len = chain[n].len
                /\ \A m \in 0..chain[n].len : \A k \in 1..m :
                      /\ Meant(PlacesOf(Segment(dev, chain[n]), m)[k], t,
                               "guest_phys_addr", AddrsOf(chain[n])[k])
                      /\ MappedIn(t, PlacesOf(Segment(dev, chain[n]), m)[k])
<1>1. chain \in Seq(Elem)
  BY DriverAssumption
<1>2. ASSUME NEW n \in 1..Len(chain)
      PROVE  /\ chain[n] \in Elem
             /\ Segment(dev, chain[n]) \in Seg
             /\ Segment(dev, chain[n]).len = chain[n].len
             /\ \A m \in 0..chain[n].len : \A k \in 1..m :
                   /\ Meant(PlacesOf(Segment(dev, chain[n]), m)[k], t,
                            "guest_phys_addr", AddrsOf(chain[n])[k])
                   /\ MappedIn(t, PlacesOf(Segment(dev, chain[n]), m)[k])
  <2> DEFINE e == chain[n] addr == e.addr s == Segment(dev, e)
             v == to_va(dev, "guest_phys_addr", addr) l == e.len
  <2>1. e \in Elem /\ n \in DOMAIN chain /\ t \in DOMAIN Tables
    BY <1>1, TablesAssumption
  <2>2. Inside(Tables[t], e)
    BY <2>1, DriverAssumption
  <2> HIDE DEF e
  <2>3. addr \in Nat /\ l \in Nat
    BY <2>1, AddrsTypes
  <2>4. /\ \E i \in DOMAIN Tables[t] : Covers(Tables[t][i], "guest_phys_addr", addr)
        /\ \A i \in DOMAIN Tables[t] : Covers(Tables[t][i], "guest_phys_addr", addr) =>
              addr + l <= Tables[t][i]["guest_phys_addr"] + Tables[t][i].size
    BY <2>2 DEF Inside
  <2>5. "guest_phys_addr" \in Froms
    BY DEF Froms
  <2>6. \A i \in DOMAIN Tables[t] :
            Tables[t][i]["guest_phys_addr"] \in Nat /\ Tables[t][i].size \in Nat
    BY <2>5, TableTypes, FromTypes
  <2>7. s = [base |-> v, len |-> l]
    BY DEF Segment
  <2>8. s.base = v /\ s.len = l
    BY <2>7
  <2> HIDE DEF addr, l, s
  <2>9. v \in Ptr
    <3>1. PICK i \in 1..Len(Tables[t]) :
                /\ v.file = <<t, i>>
                /\ v.at = Tables[t][i].mmap_offset + (addr - Tables[t][i]["guest_phys_addr"])
                /\ v = [file |-> <<t, i>>, at |-> v.at]
      BY <2>3, <2>4, <2>5, Translates
    <3>2. Tables[t][i]["guest_phys_addr"] \in Nat /\ Tables[t][i].mmap_offset \in Nat
      BY <2>5, TableTypes, FromTypes
    <3> HIDE DEF v
    <3>3. v.at \in Int
      BY <2>3, <3>1, <3>2, SMTT(30)
    <3>4. <<t, i>> \in Seq(Nat)
      BY TablesAssumption
    <3> QED
      BY <3>1, <3>3, <3>4 DEF Ptr
  <2>10. s \in Seg
    <3> HIDE DEF v
    <3> QED
      BY <2>3, <2>7, <2>9 DEF Seg
  <2>11. ASSUME NEW m \in 0..l, NEW k \in 1..m
        PROVE  /\ Meant(PlacesOf(s, m)[k], t, "guest_phys_addr", AddrsOf(e)[k])
               /\ MappedIn(t, PlacesOf(s, m)[k])
    <3> DEFINE p == PlacesOf(s, m)[k]
    <3>1. m \in Nat /\ k - 1 \in Nat /\ k \in 1..l /\ k - 1 < l /\ k \in Nat
      BY <2>3
    <3>2. p = [file |-> v.file, at |-> v.at + k - 1]
      BY <2>8, <2>10, <3>1, PlacesTypes
    <3>3. AddrsOf(e)[k] = addr + k - 1
      BY <2>1, <3>1, AddrsTypes DEF addr, l
    <3>4. addr + k - 1 = addr + (k - 1)
      BY <2>3, <3>1
    <3>5. v.at + k - 1 = v.at + (k - 1)
      <4>1. v.at \in Int
        BY <2>9 DEF Ptr
      <4> HIDE DEF v
      <4> QED
        BY <3>1, <4>1
    <3> DEFINE j == k - 1
    <3>6. p = [file |-> to_va(dev, "guest_phys_addr", addr).file,
               at |-> to_va(dev, "guest_phys_addr", addr).at + j]
      BY <3>2, <3>5
    <3>7. j \in Nat /\ j < l
      BY <3>1
    <3> HIDE DEF j, p, v
    <3>8. \A i \in DOMAIN Tables[t] : Covers(Tables[t][i], "guest_phys_addr", addr) =>
              addr + j < Tables[t][i]["guest_phys_addr"] + Tables[t][i].size
      BY <2>3, <2>4, <2>6, <3>7
    <3>9. Meant(p, t, "guest_phys_addr", addr + j) /\ MappedIn(t, p)
      BY <2>3, <2>4, <2>5, <3>6, <3>7, <3>8, ByteMeant
    <3> QED
      BY <3>3, <3>4, <3>9 DEF j, p
  <2> QED
    BY <2>1, <2>8, <2>10, <2>11 DEF e, s, l
<1> QED
  BY <1>1, <1>2

(***************************************************************************)
(* What is copied: as many bytes as the chain and the data have, each      *)
(* where the driver has the byte of the chain that it is.                  *)
(***************************************************************************)
LEMMA CopyMeant ==
    ASSUME NEW t \in 1..Len(Tables), RegionsOf(dev, t), NEW chain \in Chains,
           NEW limit \in Nat, NEW c, c = iov_copy(Segs(chain), limit)
    PROVE  /\ c \in Seq(Ptr)
           /\ Len(c) = Min({Len(Bytes(chain)), limit})
           /\ \A k \in DOMAIN c :
                 /\ Meant(c[k], t, "guest_phys_addr", Bytes(chain)[k])
                 /\ MappedIn(t, c[k])
<1> DEFINE N == Len(chain)
           sg == Segs(chain)
<1>1. /\ chain \in Seq(Elem) /\ N \in Nat
      /\ \A n \in 1..N : chain[n] \in Elem /\ Segment(dev, chain[n]) \in Seg
  BY SegmentMeant
<1>2. /\ sg \in Seq(Seg) /\ Len(sg) = N
      /\ \A n \in 1..N : sg[n] = Segment(dev, chain[n])
  <2> DEFINE x(n) == Segment(dev, chain[n])
  <2>1. sg = [n \in 1..N |-> x(n)]
    BY DEF Segs
  <2>2. \A n \in 1..N : x(n) \in Seg
    BY <1>1
  <2> HIDE DEF x, N, sg
  <2> QED
    BY <1>1, <2>1, <2>2 DEF x
<1> HIDE DEF sg
<1>3. PICK u \in [0..N -> Seq(Nat)] :
              /\ Bytes(chain) = u[N]
              /\ u[0] = <<>>
              /\ \A n \in 1..N : u[n] = u[n - 1] \o AddrsOf(chain[n])
  BY <1>1, BytesSteps
<1>4. PICK p \in [0..N -> UpTo(limit)] :
              /\ iov_copy(sg, limit) = p[N]
              /\ p[0] = <<>>
              /\ \A n \in 1..N :
                    p[n] = p[n - 1] \o PlacesOf(sg[n], Room(p[n - 1], sg[n], limit))
  <2>1. \E p \in [0..Len(sg) -> UpTo(limit)] :
              /\ iov_copy(sg, limit) = p[Len(sg)]
              /\ p[0] = <<>>
              /\ \A n \in 1..Len(sg) :
                    p[n] = p[n - 1] \o PlacesOf(sg[n], Room(p[n - 1], sg[n], limit))
    BY <1>2, CopySteps
  <2> HIDE DEF N
  <2> QED
    BY <2>1, <1>2, Zenon
<1> DEFINE Right(a, b) ==
              /\ Len(a) = IF Len(b) <= limit THEN Len(b) ELSE limit
              /\ \A k \in 1..Len(a) :
                    Meant(a[k], t, "guest_phys_addr", b[k]) /\ MappedIn(t, a[k])
           T == {n \in 0..N : Right(p[n], u[n])}
<1>5. 0 \in T
  BY <1>1, <1>3, <1>4
<1>6. ASSUME NEW n \in 0..(N - 1), n \in T PROVE n + 1 \in T
  <2>1. n + 1 \in 1..N /\ n + 1 \in 0..N /\ n \in 0..N /\ (n + 1) - 1 = n
    BY <1>1
  <2> DEFINE a == p[n] b == u[n] e == chain[n + 1] s == sg[n + 1]
             m == Room(a, s, limit) pl == PlacesOf(s, m) ad == AddrsOf(e)
  <2>2. p[n + 1] = a \o pl /\ u[n + 1] = b \o ad
    BY <2>1, <1>3, <1>4
  <2>3. a \in UpTo(limit) /\ b \in Seq(Nat) /\ e \in Elem /\ s \in Seg
    BY <2>1, <1>1, <1>2, <1>3, <1>4
  <2>4. s = Segment(dev, e) /\ s.len = e.len
    BY <2>1, <1>2, SegmentMeant
  <2>5. Right(a, b)
    BY <1>6
  <2>6. \A j \in 0..e.len : \A k \in 1..j :
            /\ Meant(PlacesOf(s, j)[k], t, "guest_phys_addr", ad[k])
            /\ MappedIn(t, PlacesOf(s, j)[k])
    BY <2>1, <2>4, SegmentMeant
  <2> HIDE DEF a, b, e, s
  <2>7. e.len \in Nat /\ ad \in Seq(Nat) /\ Len(ad) = e.len
    BY <2>3, AddrsTypes
  <2>8. /\ m \in Nat /\ Len(a) + m <= limit
        /\ m = IF limit - Len(a) <= e.len THEN limit - Len(a) ELSE e.len
    BY <2>3, <2>4, RoomProperties
  <2> HIDE DEF m, ad
  <2>9. pl \in Seq(Ptr) /\ Len(pl) = m
    BY <2>3, <2>8, PlacesTypes
  <2>10. m \in 0..e.len
    <3> DEFINE l == e.len z == Len(a)
    <3>1. l \in Nat /\ z \in Nat /\ z <= limit
      BY <2>3, <2>7 DEF UpTo
    <3>2. m = IF limit - z <= l THEN limit - z ELSE l
      BY <2>8
    <3> HIDE DEF l, z
    <3>3. m \in 0..l
      BY <2>8, <3>1, <3>2
    <3> QED
      BY <3>3 DEF l
  <2>11. \A k \in 1..m : Meant(pl[k], t, "guest_phys_addr", ad[k]) /\ MappedIn(t, pl[k])
    BY <2>6, <2>10
  <2> HIDE DEF pl
  <2>12. a \in Seq(Ptr) /\ Len(a) \in Nat /\ Len(b) \in Nat
    BY <2>3 DEF UpTo
  <2>13. /\ Len(a \o pl) = Len(a) + m
         /\ Len(b \o ad) = Len(b) + e.len
         /\ \A k \in 1..(Len(a) + m) : (a \o pl)[k] =
                IF k <= Len(a) THEN a[k] ELSE pl[k - Len(a)]
         /\ \A k \in 1..(Len(b) + e.len) : (b \o ad)[k] =
                IF k <= Len(b) THEN b[k] ELSE ad[k - Len(b)]
    <3>1. Len(a \o pl) = Len(a) + Len(pl)
      BY <2>9, <2>12, ConcatProperties
    <3>4. Len(b \o ad) = Len(b) + Len(ad)
      BY <2>3, <2>7, ConcatProperties
    <3>2. \A k \in 1..(Len(a) + Len(pl)) : (a \o pl)[k] =
                IF k <= Len(a) THEN a[k] ELSE pl[k - Len(a)]
      BY <2>9, <2>12
    <3>3. \A k \in 1..(Len(b) + Len(ad)) : (b \o ad)[k] =
                IF k <= Len(b) THEN b[k] ELSE ad[k - Len(b)]
      BY <2>3, <2>7
    <3> QED
      BY <3>1, <3>2, <3>3, <3>4, <2>7, <2>9
  <2> DEFINE x == a \o pl y == b \o ad l == e.len
             z == Len(a) w == Len(b)
  <2>14. z = IF w <= limit THEN w ELSE limit
    BY <2>5
  <2>15. \A k \in 1..z : Meant(a[k], t, "guest_phys_addr", b[k]) /\ MappedIn(t, a[k])
    BY <2>5
  <2>16. /\ Len(x) = z + m /\ Len(y) = w + l
         /\ \A k \in 1..(z + m) : x[k] = IF k <= z THEN a[k] ELSE pl[k - z]
         /\ \A k \in 1..(w + l) : y[k] = IF k <= w THEN b[k] ELSE ad[k - w]
    BY <2>13
  <2>17. z \in Nat /\ w \in Nat /\ l \in Nat /\ m \in Nat /\ z + m <= limit
         /\ m = IF limit - z <= l THEN limit - z ELSE l
    BY <2>7, <2>8, <2>12
  <2> HIDE DEF x, y, z, w, l
  <2>18. Len(x) = IF Len(y) <= limit THEN Len(y) ELSE limit
    <3>1. z + m = IF w + l <= limit THEN w + l ELSE limit
      BY <2>14, <2>17
    <3>2. Len(x) = z + m /\ Len(y) = w + l
      BY <2>16
    <3> QED
      BY <3>1, <3>2
  <2>19. ASSUME NEW k \in 1..(z + m)
         PROVE  Meant(x[k], t, "guest_phys_addr", y[k]) /\ MappedIn(t, x[k])
    <3>1. CASE k <= z
      <4>1. k \in 1..z /\ k <= w /\ k \in 1..(w + l)
        BY <3>1, <2>14, <2>17, <2>8
      <4>2. x[k] = a[k] /\ y[k] = b[k]
        BY <3>1, <4>1, <2>16
      <4> QED
        BY <4>1, <4>2, <2>15
    <3>2. CASE ~(k <= z)
      <4>1. z = w /\ m <= l
        BY <3>2, <2>14, <2>17, <2>8
      <4>2. k - z \in 1..m /\ ~(k <= w) /\ k \in 1..(w + l)
        BY <3>2, <4>1, <2>17, <2>8
      <4>3. x[k] = pl[k - z] /\ y[k] = ad[k - z]
        BY <3>2, <4>1, <4>2, <2>16
      <4> QED
        BY <4>2, <4>3, <2>11
    <3> QED
      BY <3>1, <3>2
  <2>20. Right(x, y)
    BY <2>16, <2>18, <2>19
  <2>21. Right(p[n + 1], u[n + 1])
    BY <2>2, <2>20 DEF x, y
  <2> QED
    BY <2>1, <2>21
<1> HIDE DEF T
<1>7. N \in T
  <2> HIDE DEF N
  <2>1. \A n \in 0..N : n \in T
    BY <1>1, <1>5, <1>6, Induct
  <2> QED
    BY <2>1, <1>1
<1>8. Right(p[N], u[N])
  BY <1>7 DEF T
<1>9. c = p[N] /\ Bytes(chain) = u[N]
  BY <1>3, <1>4 DEF sg
<1>10. p[N] \in UpTo(limit) /\ u[N] \in Seq(Nat)
  BY <1>1, <1>3, <1>4
<1>11. c \in Seq(Ptr) /\ Len(Bytes(chain)) \in Nat
  BY <1>9, <1>10 DEF UpTo
<1>12. Len(c) = IF Len(Bytes(chain)) <= limit THEN Len(Bytes(chain)) ELSE limit
  BY <1>8, <1>9
<1>13. Len(c) = Min({Len(Bytes(chain)), limit})
  <2> DEFINE z == Len(Bytes(chain))
  <2>1. z \in Nat /\ Len(c) = IF z <= limit THEN z ELSE limit
    BY <1>11, <1>12
  <2> HIDE DEF z
  <2>2. Len(c) = Min({z, limit})
    BY <2>1, SmallerOfTwo
  <2> QED
    BY <2>2 DEF z
<1>14. DOMAIN c = 1..Len(c)
  BY <1>11
<1>15. \A k \in 1..Len(c) :
            Meant(c[k], t, "guest_phys_addr", Bytes(chain)[k]) /\ MappedIn(t, c[k])
  BY <1>8, <1>9
<1> QED
  BY <1>11, <1>13, <1>14, <1>15
-----------------------------------------------------------------------------
(* Steps.                                                                  *)

\* InUse() and Ready(), of a device that is not yet the variable
InHand(hs, q) == \E k \in DOMAIN hs : hs[k].virtq = q
Busy(d, q) == d.enabled[q] \/ d.triggered[q] \/ InHand(handling, q)
Calls(d, q, gone) ==
    d.call_fd[q] # NoFd \/ (InBand(d) /\ d.req_fd # NoFd /\ (Answers => ~gone))

RingsOK(d, tl) ==
    \A q \in Queue : tl.ring[q] # 0 =>
        \A p \in Part :
            /\ Meant(d.virtq[q][p], tl.table, "user_addr", tl.ring[q] + Place[p])
            /\ MappedIn(tl.table, d.virtq[q][p])

TellOK(tl) ==
    /\ tl \in [table : 0..Len(Tables), ring : [Queue -> Nat]]
    /\ \A q \in Queue : tl.ring[q] # 0 => tl.table # 0

BusyOK(d, tl) ==
    /\ \A q \in Queue : Busy(d, q) => tl.table # 0
    /\ \A q \in Queue : d.triggered[q] => q \in InputQueues
    /\ Quiesces => \A q \in Queue : Busy(d, q) => tl.ring[q] # 0 /\ Calls(d, q, hungup)

LEMMA TableNumber == Len(Tables) \in Nat /\ DOMAIN Tables = 1..Len(Tables)
  BY TablesAssumption

LEMMA MemoryFaults ==
    ASSUME NEW tb, NEW d, NEW m, NEW fl, NEW t, StateOK(Four(tb, d, m, fl), t),
           NEW fl2, fl2 \subseteq fl \cup {"ring", "abort", "SIGPIPE"}
    PROVE  StateOK(Four(tb, d, m, fl2), t)
<1>1. /\ tb = [f \in Fd |-> tb[f]] /\ d \in DevType /\ fl \subseteq AllFaults
  BY FourFields, StateIsFour DEF StateOK, IsState
<1>2. fl2 \in SUBSET AllFaults
  BY <1>1 DEF AllFaults
<1>3. IsState(Four(tb, d, m, fl2))
  BY <1>1, <1>2, FourIsState
<1>4. MemoryOK(Four(tb, d, m, fl2), t)
  BY FourFields DEF StateOK, MemoryOK
<1>5. ASSUME ~Withdraws PROVE FdsOK(Four(tb, d, m, fl2), t)
  <2>1. Owned(tb, d, t) /\ Registered(d) /\ fl \cap {"close", "unlink"} = {}
    BY <1>5, FourFields DEF StateOK, FdsOK
  <2>2. fl2 \cap {"close", "unlink"} = {}
    BY <2>1
  <2> QED
    BY <2>1, <2>2, FourFields DEF FdsOK
<1> QED
  BY <1>3, <1>4, <1>5 DEF StateOK

LEMMA NoBufFields ==
    /\ NoBuf.chain = <<>> /\ NoBuf.moved = <<>> /\ NoBuf.limit = 0
    /\ NoBuf.in_sg = <<>> /\ NoBuf.out_sg = <<>> /\ ~NoBuf.reply /\ IsBuf(NoBuf)
    /\ Bytes(<<>>) = <<>>
    /\ Min({Len(Bytes(<<>>)), 0}) = 0
<1>1. /\ NoBuf.chain = <<>> /\ NoBuf.moved = <<>> /\ NoBuf.limit = 0
      /\ NoBuf.in_sg = <<>> /\ NoBuf.out_sg = <<>> /\ ~NoBuf.reply /\ IsBuf(NoBuf)
  BY DEF NoBuf, IsBuf
<1>2. <<>> \in Seq(Elem) /\ Len(<<>>) = 0
  OBVIOUS
<1>3. Bytes(<<>>) = <<>>
  BY <1>2, BytesSteps
<1>4. Min({0, 0}) = 0
  BY SmallerOfTwo
<1> QED
  BY <1>1, <1>2, <1>3, <1>4

LEMMA HandlingVirtq ==
    ASSUME HandlingOK
    PROVE  /\ \A k \in DOMAIN handling :
                 /\ handling[k] \in HandlingRecord
                 /\ handling[k].virtq \in InputQueues /\ handling[k].virtq \in Queue
           /\ handling = Idle => \A q \in Queue : ~InHand(handling, q)
           /\ handling # Idle => Len(handling) \in DOMAIN handling
           /\ DOMAIN handling = 1..Len(handling) /\ Len(handling) \in Nat
<1>1. DOMAIN handling = 1..Len(handling) /\ Len(handling) \in Nat
  BY DEF HandlingOK
<1>2. \A k \in DOMAIN handling : handling[k] \in HandlingRecord
  BY <1>1 DEF HandlingOK
<1>3. \A k \in DOMAIN handling : handling[k].virtq \in InputQueues
  BY <1>2 DEF HandlingRecord
<1>4. InputQueues \subseteq Queue
  BY QueueAssumption
<1>5. handling = Idle => DOMAIN handling = {}
  BY <1>1 DEF Idle
<1>6. handling # Idle => Len(handling) # 0
  BY DEF Idle, HandlingOK
<1>7. handling # Idle => Len(handling) \in DOMAIN handling
  BY <1>1, <1>6
<1> QED
  BY <1>1, <1>2, <1>3, <1>4, <1>5, <1>7 DEF InHand

LEMMA InHandAppend ==
    ASSUME NEW hs \in Seq(HandlingRecord), NEW h \in HandlingRecord
    PROVE  /\ Append(hs, h) \in Seq(HandlingRecord)
           /\ \A q \in Queue : InHand(Append(hs, h), q) => InHand(hs, q) \/ q = h.virtq
<1> DEFINE n == Len(hs)
           new == Append(hs, h)
<1>1. /\ new \in Seq(HandlingRecord) /\ DOMAIN new = 1..(n + 1) /\ DOMAIN hs = 1..n
      /\ n \in Nat /\ \A k \in 1..n : new[k] = hs[k]
      /\ new[n + 1] = h
  OBVIOUS
<1>2. \A k \in 1..(n + 1) : k \in 1..n \/ k = n + 1
  BY <1>1
<1> HIDE DEF n, new
<1>3. \A q \in Queue : InHand(new, q) => InHand(hs, q) \/ q = h.virtq
  BY <1>1, <1>2 DEF InHand
<1> QED
  BY <1>1, <1>3 DEF new

LEMMA InHandFront ==
    ASSUME NEW hs \in Seq(HandlingRecord), hs # <<>>
    PROVE  /\ Front(hs) \in Seq(HandlingRecord)
           /\ \A q \in Queue : InHand(Front(hs), q) => InHand(hs, q)
           /\ Len(hs) = 1 => \A q \in Queue : ~InHand(Front(hs), q)
<1> DEFINE n == Len(hs)
           new == Front(hs)
<1>1. n \in Nat /\ n # 0 /\ n - 1 \in Nat /\ DOMAIN hs = 1..n
  OBVIOUS
<1>2. /\ new \in Seq(HandlingRecord) /\ DOMAIN new = 1..(n - 1)
      /\ \A k \in 1..(n - 1) : new[k] = hs[k]
  BY <1>1 DEF Front
<1>3. \A k \in 1..(n - 1) : k \in 1..n
  BY <1>1
<1>4. n = 1 => 1..(n - 1) = {}
  BY <1>1
<1> HIDE DEF n, new
<1>5. \A q \in Queue : InHand(new, q) => InHand(hs, q)
  BY <1>1, <1>2, <1>3 DEF InHand
<1>6. n = 1 => \A q \in Queue : ~InHand(new, q)
  BY <1>2, <1>4 DEF InHand
<1> QED
  BY <1>2, <1>5, <1>6 DEF n, new

LEMMA StateShape == State = Four(table, dev, maps, faults)
  BY DEF State, Four

(***************************************************************************)
(* The invariant of a state between two buffers, from what the steps say   *)
(* of their results.                                                       *)
(***************************************************************************)
LEMMA Settled ==
    ASSUME HandlingOK', TellOK(told'), buf' = NoBuf, FaultsOK', msgs' \in 0..MaxMsgs,
           StateOK(Four(table', dev', maps', faults'), told'.table),
           dev'.up => RingsOK(dev', told'),
           \A q \in Queue :
              dev'.enabled[q] \/ dev'.triggered[q] \/ InHand(handling', q) =>
                 /\ dev'.up /\ told'.table # 0
                 /\ dev'.triggered[q] => q \in InputQueues
                 /\ Quiesces => told'.ring[q] # 0 /\ Calls(dev', q, hungup')
    PROVE  SetupInv'
<1>1. State' = Four(table', dev', maps', faults')
  BY DEF State, Four
<1>2. /\ IsState(State') /\ MemoryOK(State', told'.table)
      /\ ~Withdraws => FdsOK(State', told'.table)
  BY <1>1 DEF StateOK
<1>3. ToldOK'
  BY DEF ToldOK, TellOK
<1>4. UseOK' /\ WaitOK'
  BY NoBufFields DEF UseOK, InUse, InHand, Ready, Calls, WaitOK
<1>5. dev'.up => maps' = MapsOf(told'.table)
  BY <1>1, <1>2, FourFields DEF MemoryOK
<1>6. RingsTranslated'
  <2> SUFFICES ASSUME NEW q \in Queue, dev'.up, told'.ring[q] # 0, NEW p \in Part
               PROVE  /\ Meant(dev'.virtq[q][p], told'.table, "user_addr",
                               told'.ring[q] + Place[p])
                      /\ Mapped(dev.virtq[q][p])'
    BY DEF RingsTranslated
  <2>1. /\ Meant(dev'.virtq[q][p], told'.table, "user_addr", told'.ring[q] + Place[p])
        /\ MappedIn(told'.table, dev'.virtq[q][p])
    BY DEF RingsOK
  <2> QED
    BY <2>1, <1>5 DEF Mapped, MappedIn
<1>7. BufOK'
  <2>1. BytesInOrder'
    <3>1. buf'.chain = <<>> /\ buf'.moved = <<>> /\ buf'.limit = 0
      BY NoBufFields
    <3>2. DOMAIN buf'.moved = {} /\ Len(buf'.moved) = 0
      BY <3>1
    <3>3. Len(buf'.moved) = Min({Len(Bytes(buf'.chain)), buf'.limit})
      BY <3>1, <3>2, NoBufFields
    <3> QED
      BY <3>2, <3>3 DEF BytesInOrder
  <2>2. SegmentsFit'
    <3>1. Len(buf'.in_sg) = 0 /\ Len(buf'.out_sg) = 0
      BY NoBufFields
    <3>2. Prealloc \in Nat
      BY BoundAssumption
    <3>3. Len(buf'.in_sg) <= Prealloc /\ Len(buf'.out_sg) <= Prealloc
      BY <3>1, <3>2
    <3> QED
      BY <3>3 DEF SegmentsFit
  <2> QED
    BY <2>1, <2>2, NoBufFields DEF BufOK
<1> QED
  BY <1>2, <1>3, <1>4, <1>6, <1>7 DEF SetupInv

(***************************************************************************)
(* The state at hand, in the same terms.                                   *)
(***************************************************************************)
LEMMA AtHand ==
    ASSUME SetupInv
    PROVE  /\ StateOK(Four(table, dev, maps, faults), told.table)
           /\ State = Four(table, dev, maps, faults)
           /\ State.table = table /\ State.dev = dev
           /\ State.maps = maps /\ State.faults = faults
           /\ dev \in DevType /\ faults \subseteq AllFaults
           /\ TellOK(told) /\ told.table \in 0..Len(Tables)
           /\ dev.up => /\ RegionsOf(dev, told.table) /\ maps = MapsOf(told.table)
                        /\ RingsOK(dev, told)
           /\ BusyOK(dev, told)
           /\ \A q \in Queue : Busy(dev, q) => dev.up
<1>1. State = Four(table, dev, maps, faults)
  BY StateShape
<1>2. StateOK(Four(table, dev, maps, faults), told.table)
  BY <1>1 DEF SetupInv, StateOK
<1>3. /\ State.table = table /\ State.dev = dev
      /\ State.maps = maps /\ State.faults = faults
  BY <1>1, FourFields
<1>4. dev \in DevType /\ faults \subseteq AllFaults
  BY <1>1, <1>2, <1>3 DEF StateOK, IsState
<1>5. TellOK(told)
  BY DEF SetupInv, ToldOK, TellOK
<1>6. told.table \in 0..Len(Tables)
  BY <1>5 DEF TellOK
<1>7. dev.up => RegionsOf(dev, told.table) /\ maps = MapsOf(told.table)
  BY <1>2, FourFields DEF StateOK, MemoryOK
<1>8. dev.up => RingsOK(dev, told)
  <2>1. ASSUME dev.up, NEW q \in Queue, told.ring[q] # 0, NEW p \in Part
        PROVE  /\ Meant(dev.virtq[q][p], told.table, "user_addr", told.ring[q] + Place[p])
               /\ MappedIn(told.table, dev.virtq[q][p])
    <3>1. /\ Meant(dev.virtq[q][p], told.table, "user_addr", told.ring[q] + Place[p])
          /\ Mapped(dev.virtq[q][p])
      BY <2>1 DEF SetupInv, RingsTranslated
    <3> QED
      BY <3>1, <2>1, <1>7 DEF Mapped, MappedIn
  <2> QED
    BY <2>1 DEF RingsOK
<1>9. \A q \in Queue : Busy(dev, q) <=> InUse(q)
  BY DEF Busy, InUse, InHand
<1>10. BusyOK(dev, told) /\ \A q \in Queue : Busy(dev, q) => dev.up
  BY <1>9 DEF SetupInv, UseOK, Ready, BusyOK, Calls
<1> QED
  BY <1>1, <1>2, <1>3, <1>4, <1>5, <1>6, <1>7, <1>8, <1>10

LEMMA NoDevIdle ==
    \A q \in Queue : ~NoDev.enabled[q] /\ ~NoDev.triggered[q]
  BY DEF NoDev

(***************************************************************************)
(* The reply, in a state new.                                              *)
(***************************************************************************)
LEMMA RepliedOK ==
    ASSUME SetupInv, NEW new, Replied(new), buf' = NoBuf, hungup' = hungup,
           HandlingOK', msgs' \in 0..MaxMsgs,
           \A q \in Queue : InHand(handling', q) => ~hungup /\ InHand(handling, q),
           TellOK(told'), StateOK(new, told'.table), new.dev.up,
           OnlyFds(faults, new.faults), RingsOK(new.dev, told'), BusyOK(new.dev, told')
    PROVE  SetupInv'
<1> DEFINE end == IF ~hungup THEN new
                  ELSE IF ApiSocket THEN dev_free(new) ELSE Fault(new, TRUE, "SIGPIPE")
<1>1. /\ table' = end.table /\ dev' = end.dev /\ maps' = end.maps /\ faults' = end.faults
  BY Zenon DEF Replied
<1>2. told'.table \in 0..Len(Tables)
  BY DEF TellOK
<1>3. new = Four(new.table, new.dev, new.maps, new.faults) /\ IsState(new)
  BY StateIsFour DEF StateOK
<1>4. /\ StateOK(end, told'.table)
      /\ end.dev = new.dev \/ (end.dev = NoDev /\ hungup)
      /\ end.faults \subseteq faults \cup {"close", "unlink", "SIGPIPE"}
      /\ ApiSocket => end.faults \subseteq faults \cup {"close", "unlink"}
  <2>1. CASE ~hungup
    <3>1. end = new
      BY <2>1
    <3> HIDE DEF end
    <3> QED
      BY <3>1 DEF OnlyFds
  <2>2. CASE hungup /\ ApiSocket
    <3>1. end = dev_free(new)
      BY <2>2
    <3> HIDE DEF end
    <3>2. /\ StateOK(end, told'.table) /\ end.dev = NoDev
          /\ OnlyFds(new.faults, end.faults)
      BY <3>1, <1>2, FreeOK
    <3> QED
      BY <3>2, <2>2 DEF OnlyFds
  <2>3. CASE hungup /\ ~ApiSocket
    <3> DEFINE fl == new.faults \cup {"SIGPIPE"}
    <3>1. end = Fault(new, TRUE, "SIGPIPE")
      BY <2>3
    <3>2. Fault(Four(new.table, new.dev, new.maps, new.faults), TRUE, "SIGPIPE") =
             Four(new.table, new.dev, new.maps, fl)
      BY DEF Fault, Four
    <3>3. end = Four(new.table, new.dev, new.maps, fl)
      BY <3>1, <3>2, <1>3
    <3>4. fl = new.faults \cup {"SIGPIPE"}
      OBVIOUS
    <3> HIDE DEF end, fl
    <3>5. StateOK(Four(new.table, new.dev, new.maps, new.faults), told'.table)
      BY <1>3
    <3>6. fl \subseteq new.faults \cup {"ring", "abort", "SIGPIPE"}
      BY <3>4
    <3>7. StateOK(end, told'.table)
      BY <3>3, <3>5, <3>6, MemoryFaults
    <3>8. end.dev = new.dev /\ end.faults = fl
      BY <3>3, FourFields
    <3> QED
      BY <3>4, <3>7, <3>8, <2>3 DEF OnlyFds
  <2> QED
    BY <2>1, <2>2, <2>3
<1> HIDE DEF end
<1>5. Four(table', dev', maps', faults') = end
  <2>1. end = Four(end.table, end.dev, end.maps, end.faults)
    BY <1>4, StateIsFour DEF StateOK
  <2> QED
    BY <2>1, <1>1
<1>7. FaultsOK'
  BY <1>1, <1>4 DEF SetupInv, FaultsOK
<1>9. dev'.up => RingsOK(dev', told')
  <2>1. CASE dev' = new.dev
    BY <2>1
  <2>2. CASE dev' = NoDev
    BY <2>2, NoDevType
  <2> QED
    BY <2>1, <2>2, <1>1, <1>4
<1>10. ASSUME NEW q \in Queue, dev'.enabled[q] \/ dev'.triggered[q] \/ InHand(handling', q)
       PROVE  /\ dev'.up /\ told'.table # 0
              /\ dev'.triggered[q] => q \in InputQueues
              /\ Quiesces => told'.ring[q] # 0 /\ Calls(dev', q, hungup')
  <2>1. CASE dev' = new.dev
    <3>1. Busy(new.dev, q)
      BY <2>1, <1>10, <1>1 DEF Busy
    <3> QED
      BY <2>1, <3>1 DEF BusyOK
  <2>2. CASE dev' = NoDev /\ hungup
    <3>1. ~InHand(handling', q)
      BY <2>2
    <3> QED
      BY <2>2, <3>1, <1>1, <1>10, NoDevIdle
  <2> QED
    BY <2>1, <2>2, <1>1, <1>4
<1>12. StateOK(Four(table', dev', maps', faults'), told'.table)
  BY <1>4, <1>5
<1> QED
  BY <1>7, <1>9, <1>10, <1>12, Settled

(***************************************************************************)
(* A message whose handler leaves the state new, before the reply.         *)
(***************************************************************************)
LEMMA HandledOK ==
    ASSUME SetupInv, NEW new, Handled(new), buf = NoBuf, hungup => handling = Idle,
           TellOK(told'), StateOK(new, told'.table), new.dev.up,
           OnlyFds(faults, new.faults), RingsOK(new.dev, told'), BusyOK(new.dev, told')
    PROVE  SetupInv'
<1>1. /\ Replied(new) /\ msgs < MaxMsgs /\ msgs' = msgs + 1
      /\ handling' = handling /\ buf' = buf /\ hungup' = hungup
  BY DEF Handled, Counted
<1>2. HandlingOK
  BY DEF SetupInv
<1>3. HandlingOK'
  BY <1>1, <1>2 DEF HandlingOK
<1>4. msgs' \in 0..MaxMsgs
  BY <1>1, BoundAssumption DEF SetupInv
<1>5. \A q \in Queue : InHand(handling', q) => ~hungup /\ InHand(handling, q)
  BY <1>1, <1>2, HandlingVirtq
<1> QED
  BY <1>1, <1>3, <1>4, <1>5, RepliedOK

(***************************************************************************)
(* What the messages that leave the queues and the rings alone keep.       *)
(***************************************************************************)
LEMMA QueuesKept ==
    ASSUME SetupInv, dev.up, NEW d2, SameQueues(dev, d2),
           \A q \in Queue : Busy(dev, q) /\ Calls(dev, q, hungup) => Calls(d2, q, hungup)
    PROVE  RingsOK(d2, told) /\ BusyOK(d2, told)
<1>1. RingsOK(dev, told) /\ BusyOK(dev, told)
  BY AtHand
<1>2. RingsOK(d2, told)
  BY <1>1 DEF RingsOK, SameQueues
<1>3. \A q \in Queue : Busy(d2, q) <=> Busy(dev, q)
  BY DEF Busy, SameQueues
<1>4. BusyOK(d2, told)
  BY <1>1, <1>3 DEF BusyOK, SameQueues
<1> QED
  BY <1>2, <1>4

(***************************************************************************)
(* What the messages that set one field of the queues leave.               *)
(***************************************************************************)
LEMMA QueueSet ==
    ASSUME SetupInv, dev.up, NEW d2 \in DevType, SameMemory(dev, d2), SameFds(dev, d2),
           NEW new, new = Four(table, d2, maps, faults)
    PROVE  /\ StateOK(new, told.table) /\ new.dev = d2 /\ new.dev.up
           /\ OnlyFds(faults, new.faults)
<1>1. /\ StateOK(State, told.table) /\ State.dev = dev /\ State.table = table
      /\ State.maps = maps /\ State.faults = faults
  BY AtHand
<1>2. StateOK(Four(State.table, d2, State.maps, State.faults), told.table)
  BY <1>1, QueuesOK
<1>3. StateOK(new, told.table)
  BY <1>1, <1>2
<1>4. new.dev = d2 /\ new.faults = faults
  BY FourFields
<1>5. d2.up
  BY DEF SameMemory
<1> QED
  BY <1>3, <1>4, <1>5 DEF OnlyFds

LEMMA SetMemTableOK ==
    ASSUME SetupInv, buf = NoBuf, hungup => handling = Idle,
           NEW t \in DOMAIN Tables, SetMemTable(t)
    PROVE  SetupInv'
<1>1. PICK fds \in Given(table, Len(Tables[t])) : Handled(MappedTable(State, t, fds))
  BY DEF SetMemTable
<1> DEFINE new == MappedTable(State, t, fds)
<1>2. dev.up
  BY <1>1 DEF Handled, Counted
<1>3. /\ StateOK(State, told.table) /\ State.dev = dev /\ State.table = table
      /\ State.faults = faults /\ told.table \in 0..Len(Tables) /\ TellOK(told)
  BY AtHand
<1>4. t \in 1..Len(Tables) /\ Len(Tables) \in Nat
  BY TableNumber
<1>5. /\ StateOK(new, t) /\ new.dev.up /\ SameQueues(dev, new.dev)
      /\ OnlyFds(faults, new.faults)
  BY <1>1, <1>2, <1>3, <1>4, TableOK
<1>6. told' = [Untold EXCEPT !.table = t]
  BY DEF SetMemTable
<1>7. told'.table = t /\ \A q \in Queue : told'.ring[q] = 0
  BY <1>6 DEF Untold
<1>8. TellOK(told')
  <2>1. told' = [table |-> t, ring |-> [q \in Queue |-> 0]]
    BY <1>6 DEF Untold
  <2>2. [q \in Queue |-> 0] \in [Queue -> Nat] /\ t \in 0..Len(Tables)
    BY <1>4
  <2>3. told' \in [table : 0..Len(Tables), ring : [Queue -> Nat]]
    BY <2>1, <2>2
  <2> QED
    BY <1>7, <2>3 DEF TellOK
<1> HIDE DEF new
<1>9. RingsOK(new.dev, told')
  BY <1>7 DEF RingsOK
<1>10. BusyOK(new.dev, told')
  <2>1. t # 0
    BY <1>4
  <2>2. ASSUME Quiesces, NEW q \in Queue PROVE ~Busy(new.dev, q)
    <3>1. ~InUse(q)
      BY <2>2 DEF SetMemTable
    <3> QED
      BY <3>1, <1>5 DEF InUse, Busy, InHand, SameQueues
  <2>3. \A q \in Queue : new.dev.triggered[q] => q \in InputQueues
    BY <1>5, AtHand DEF SameQueues, BusyOK
  <2> QED
    BY <1>7, <2>1, <2>2, <2>3 DEF BusyOK
<1>11. Handled(new)
  BY <1>1 DEF new
<1>12. StateOK(new, told'.table)
  BY <1>5, <1>7
<1> QED
  BY <1>5, <1>8, <1>9, <1>10, <1>11, <1>12, HandledOK

LEMMA SetVringAddrOK ==
    ASSUME SetupInv, buf = NoBuf, hungup => handling = Idle,
           NEW q \in Queue, NEW base \in Bases, SetVringAddr(q, base)
    PROVE  SetupInv'
<1> DEFINE d2 == [dev EXCEPT !.virtq[q] = Ring(dev, base)]
           new == Four(table, d2, maps, faults)
           t == told.table
<1>1. Handled(new)
  <2>1. [State EXCEPT !.dev.virtq[q] =
                    [p \in Part |-> to_va(dev, "user_addr", base + Place[p])]] = new
    BY DEF State, Four, Ring
  <2>2. Handled([State EXCEPT !.dev.virtq[q] =
                    [p \in Part |-> to_va(dev, "user_addr", base + Place[p])]])
    BY DEF SetVringAddr
  <2> QED
    BY <2>1, <2>2
<1>2. dev.up
  BY <1>1 DEF Handled, Counted
<1>3. /\ t # 0 /\ ~InUse(q) /\ told' = [told EXCEPT !.ring[q] = base]
      /\ \A p \in Part : \E i \in DOMAIN Tables[t] :
            Covers(Tables[t][i], "user_addr", base + Place[p])
  BY DEF SetVringAddr
<1>4. /\ dev \in DevType /\ TellOK(told) /\ t \in 0..Len(Tables)
      /\ RegionsOf(dev, t) /\ RingsOK(dev, told) /\ BusyOK(dev, told)
  BY <1>2, AtHand
<1>5. t \in 1..Len(Tables) /\ base \in Nat
  BY <1>3, <1>4, TableNumber, DriverAssumption
<1>6. /\ Ring(dev, base) \in [Part -> Ptr]
      /\ \A p \in Part :
            /\ Meant(Ring(dev, base)[p], t, "user_addr", base + Place[p])
            /\ MappedIn(t, Ring(dev, base)[p])
  BY <1>3, <1>4, <1>5, RingMeant
<1>7. d2 \in DevType
  BY <1>4, <1>6 DEF DevType
<1>8. /\ SameMemory(dev, d2) /\ SameFds(dev, d2)
      /\ d2.enabled = dev.enabled /\ d2.triggered = dev.triggered
      /\ d2.protocol_features = dev.protocol_features
      /\ d2.virtq[q] = Ring(dev, base)
      /\ \A r \in Queue \ {q} : d2.virtq[r] = dev.virtq[r]
  BY <1>4 DEF DevType, SameMemory, SameFds
<1>9. told.ring \in [Queue -> Nat] /\ told = [table |-> t, ring |-> told.ring]
  BY <1>4 DEF TellOK
<1>10. /\ told'.table = t /\ told'.ring[q] = base
       /\ \A r \in Queue \ {q} : told'.ring[r] = told.ring[r]
       /\ told' \in [table : 0..Len(Tables), ring : [Queue -> Nat]]
  BY <1>3, <1>4, <1>5, <1>9
<1> HIDE DEF d2, t
<1>11. /\ StateOK(new, t) /\ new.dev = d2 /\ new.dev.up /\ OnlyFds(faults, new.faults)
  BY <1>2, <1>7, <1>8, QueueSet DEF t
<1> HIDE DEF new
<1>12. TellOK(told')
  BY <1>3, <1>10 DEF TellOK
<1>13. RingsOK(d2, told')
  <2> SUFFICES ASSUME NEW r \in Queue, told'.ring[r] # 0, NEW p \in Part
               PROVE  /\ Meant(d2.virtq[r][p], t, "user_addr", told'.ring[r] + Place[p])
                      /\ MappedIn(t, d2.virtq[r][p])
    BY <1>10 DEF RingsOK
  <2>1. CASE r = q
    BY <2>1, <1>6, <1>8, <1>10
  <2>2. CASE r # q
    <3>1. told'.ring[r] = told.ring[r] /\ d2.virtq[r] = dev.virtq[r]
      BY <2>2, <1>8, <1>10
    <3> QED
      BY <3>1, <1>4 DEF RingsOK, t
  <2> QED
    BY <2>1, <2>2
<1>14. BusyOK(d2, told')
  <2>1. \A r \in Queue : Busy(d2, r) <=> Busy(dev, r)
    BY <1>8 DEF Busy
  <2>2. ~Busy(dev, q)
    BY <1>3 DEF Busy, InUse, InHand
  <2>3. \A r \in Queue : Calls(d2, r, hungup) <=> Calls(dev, r, hungup)
    BY <1>8 DEF Calls, InBand, SameFds
  <2>4. \A r \in Queue : Busy(d2, r) => told'.ring[r] = told.ring[r]
    BY <2>1, <2>2, <1>10
  <2> QED
    BY <2>1, <2>3, <2>4, <1>3, <1>4, <1>8, <1>10 DEF BusyOK
<1>15. RingsOK(new.dev, told') /\ BusyOK(new.dev, told') /\ StateOK(new, told'.table)
  BY <1>10, <1>11, <1>13, <1>14
<1> QED
  BY <1>1, <1>11, <1>12, <1>15, HandledOK

LEMMA SetVringKickOK ==
    ASSUME SetupInv, buf = NoBuf, hungup => handling = Idle,
           NEW q \in KickFds, NEW n \in 0..1, SetVringKick(q, n)
    PROVE  SetupInv'
<1>1. PICK fds \in Given(table, n) : Handled(NewKick(State, q, n, fds))
  BY DEF SetVringKick
<1>2. dev.up
  BY <1>1 DEF Handled, Counted
<1>3. /\ StateOK(State, told.table) /\ State.dev = dev /\ State.table = table
      /\ State.faults = faults /\ TellOK(told)
  BY AtHand
<1>4. q \in Queue
  BY QueueAssumption
<1>5. n = 1 \/ Withdraws \/ dev.kick[q] = NoFd
  BY DEF SetVringKick
<1> DEFINE new == NewKick(State, q, n, fds)
<1>6. /\ StateOK(new, told.table) /\ new.dev.up /\ SameQueues(dev, new.dev)
      /\ OnlyFds(faults, new.faults) /\ new.dev.call_fd = dev.call_fd
      /\ new.dev.req_fd = dev.req_fd
      /\ new.dev.protocol_features = dev.protocol_features
  BY <1>1, <1>2, <1>3, <1>4, <1>5, KickOK
<1>7. told' = told /\ Handled(new)
  BY <1>1 DEF SetVringKick
<1> HIDE DEF new
<1>8. \A r \in Queue : Calls(dev, r, hungup) => Calls(new.dev, r, hungup)
  BY <1>6 DEF Calls, InBand
<1>9. RingsOK(new.dev, told) /\ BusyOK(new.dev, told)
  BY <1>2, <1>6, <1>8, QueuesKept
<1> QED
  BY <1>3, <1>6, <1>7, <1>9, HandledOK

LEMMA SetVringCallOK ==
    ASSUME SetupInv, buf = NoBuf, hungup => handling = Idle,
           NEW q \in CallFds, NEW n \in 0..1, SetVringCall(q, n)
    PROVE  SetupInv'
<1>1. PICK fds \in Given(table, n) : /\ InUse(q) => Ready(NewCall(State, q, n, fds).dev, q)
                                     /\ Handled(NewCall(State, q, n, fds))
  BY DEF SetVringCall
<1>2. dev.up
  BY <1>1 DEF Handled, Counted
<1>3. /\ StateOK(State, told.table) /\ State.dev = dev /\ State.table = table
      /\ State.faults = faults /\ TellOK(told)
  BY AtHand
<1>4. q \in Queue
  BY QueueAssumption
<1> DEFINE new == NewCall(State, q, n, fds)
<1>5. /\ StateOK(new, told.table) /\ new.dev.up /\ SameQueues(dev, new.dev)
      /\ OnlyFds(faults, new.faults)
      /\ \A r \in Queue \ {q} : new.dev.call_fd[r] = dev.call_fd[r]
      /\ new.dev.req_fd = dev.req_fd
      /\ new.dev.protocol_features = dev.protocol_features
  BY <1>1, <1>2, <1>3, <1>4, CallOK
<1>6. told' = told /\ Handled(new)
  BY <1>1 DEF SetVringCall
<1>7. Busy(dev, q) => Calls(new.dev, q, hungup)
  BY <1>1 DEF Busy, InUse, InHand, Ready, Calls
<1> HIDE DEF new
<1>8. \A r \in Queue : Busy(dev, r) /\ Calls(dev, r, hungup) => Calls(new.dev, r, hungup)
  <2> SUFFICES ASSUME NEW r \in Queue, Busy(dev, r), Calls(dev, r, hungup) PROVE Calls(new.dev, r, hungup)
    OBVIOUS
  <2>1. CASE r = q
    BY <2>1, <1>7
  <2>2. CASE r # q
    BY <2>2, <1>5 DEF Calls, InBand
  <2> QED
    BY <2>1, <2>2
<1>9. RingsOK(new.dev, told) /\ BusyOK(new.dev, told)
  BY <1>2, <1>5, <1>8, QueuesKept
<1> QED
  BY <1>3, <1>5, <1>6, <1>9, HandledOK

LEMMA SetSlaveReqFdOK ==
    ASSUME SetupInv, buf = NoBuf, hungup => handling = Idle, SetSlaveReqFd
    PROVE  SetupInv'
<1>1. PICK fds \in Given(table, 1) : Handled(NewReq(State, fds))
  BY DEF SetSlaveReqFd
<1>2. dev.up
  BY <1>1 DEF Handled, Counted
<1>3. /\ StateOK(State, told.table) /\ State.dev = dev /\ State.table = table
      /\ State.faults = faults /\ TellOK(told)
  BY AtHand
<1> DEFINE new == NewReq(State, fds)
<1>4. /\ StateOK(new, told.table) /\ new.dev.up /\ SameQueues(dev, new.dev)
      /\ OnlyFds(faults, new.faults) /\ new.dev.call_fd = dev.call_fd
      /\ new.dev.req_fd # NoFd
      /\ new.dev.protocol_features = dev.protocol_features
  BY <1>1, <1>2, <1>3, ReqOK
<1>5. told' = told /\ Handled(new)
  BY <1>1 DEF SetSlaveReqFd
<1> HIDE DEF new
<1>6. \A r \in Queue : Calls(dev, r, hungup) => Calls(new.dev, r, hungup)
  BY <1>4 DEF Calls, InBand
<1>7. RingsOK(new.dev, told) /\ BusyOK(new.dev, told)
  BY <1>2, <1>4, <1>6, QueuesKept
<1> QED
  BY <1>3, <1>4, <1>5, <1>7, HandledOK

LEMMA SetProtocolFeaturesOK ==
    ASSUME SetupInv, buf = NoBuf, hungup => handling = Idle,
           NEW set \in Features, SetProtocolFeatures(set)
    PROVE  SetupInv'
<1> DEFINE d2 == [dev EXCEPT !.protocol_features = set]
           new == Four(table, d2, maps, faults)
<1>1. Handled(new)
  <2>1. [State EXCEPT !.dev.protocol_features = set] = new
    BY DEF State, Four
  <2>2. Handled([State EXCEPT !.dev.protocol_features = set])
    BY DEF SetProtocolFeatures
  <2> QED
    BY <2>1, <2>2
<1>2. dev.up /\ told' = told
  BY <1>1 DEF Handled, Counted, SetProtocolFeatures
<1>3. dev \in DevType /\ TellOK(told)
  BY AtHand
<1>4. d2 \in DevType
  <2>1. set \in SUBSET Feature
    BY FeaturesAssumption
  <2> QED
    BY <1>3, <2>1 DEF DevType
<1>5. SameMemory(dev, d2) /\ SameFds(dev, d2) /\ SameQueues(dev, d2)
  BY <1>3 DEF DevType, SameMemory, SameFds, SameQueues
<1>6. \A q \in Queue : ~Busy(dev, q)
  BY DEF SetProtocolFeatures, Busy, InUse, InHand
<1> HIDE DEF d2
<1>7. /\ StateOK(new, told.table) /\ new.dev = d2 /\ new.dev.up
      /\ OnlyFds(faults, new.faults)
  BY <1>2, <1>4, <1>5, QueueSet
<1>8. RingsOK(d2, told) /\ BusyOK(d2, told)
  BY <1>2, <1>5, <1>6, QueuesKept
<1> HIDE DEF new
<1> QED
  BY <1>1, <1>2, <1>3, <1>7, <1>8, HandledOK

LEMMA SetVringEnableOK ==
    ASSUME SetupInv, buf = NoBuf, hungup => handling = Idle,
           NEW q \in Queue, NEW on \in BOOLEAN, SetVringEnable(q, on)
    PROVE  SetupInv'
<1> DEFINE d2 == [dev EXCEPT !.enabled[q] = on]
           new == Four(table, d2, maps, faults)
<1>1. Handled(new)
  <2>1. [State EXCEPT !.dev.enabled[q] = on] = new
    BY DEF State, Four
  <2>2. Handled([State EXCEPT !.dev.enabled[q] = on])
    BY DEF SetVringEnable
  <2> QED
    BY <2>1, <2>2
<1>2. dev.up /\ told' = told
  BY <1>1 DEF Handled, Counted, SetVringEnable
<1>3. /\ dev \in DevType /\ TellOK(told) /\ RingsOK(dev, told) /\ BusyOK(dev, told)
  BY <1>2, AtHand
<1>4. d2 \in DevType
  BY <1>3 DEF DevType
<1>5. /\ SameMemory(dev, d2) /\ SameFds(dev, d2)
      /\ d2.triggered = dev.triggered /\ d2.virtq = dev.virtq
      /\ d2.protocol_features = dev.protocol_features
      /\ d2.enabled[q] = on /\ \A r \in Queue \ {q} : d2.enabled[r] = dev.enabled[r]
  BY <1>3 DEF DevType, SameMemory, SameFds
<1>6. on => told.ring[q] # 0 /\ Calls(dev, q, hungup)
  BY DEF SetVringEnable, Ready, Calls
<1> HIDE DEF d2
<1>7. /\ StateOK(new, told.table) /\ new.dev = d2 /\ new.dev.up
      /\ OnlyFds(faults, new.faults)
  BY <1>2, <1>4, <1>5, QueueSet
<1>8. RingsOK(d2, told)
  BY <1>3, <1>5 DEF RingsOK
<1>9. BusyOK(d2, told)
  <2>1. \A r \in Queue : Busy(d2, r) => Busy(dev, r) \/ (told.ring[r] # 0 /\ Calls(dev, r, hungup))
    <3> SUFFICES ASSUME NEW r \in Queue, Busy(d2, r)
                 PROVE  Busy(dev, r) \/ (told.ring[r] # 0 /\ Calls(dev, r, hungup))
      OBVIOUS
    <3>1. CASE r = q /\ on
      BY <3>1, <1>6
    <3>2. CASE r = q /\ ~on
      BY <3>2, <1>5 DEF Busy
    <3>3. CASE r # q
      BY <3>3, <1>5 DEF Busy
    <3> QED
      BY <3>1, <3>2, <3>3
  <2>2. \A r \in Queue : Calls(d2, r, hungup) <=> Calls(dev, r, hungup)
    BY <1>5 DEF Calls, InBand, SameFds
  <2> QED
    BY <2>1, <2>2, <1>3, <1>5 DEF BusyOK, TellOK
<1> HIDE DEF new
<1> QED
  BY <1>1, <1>2, <1>3, <1>7, <1>8, <1>9, HandledOK

(***************************************************************************)
(* A kick that is left to the job.                                         *)
(***************************************************************************)
LEMMA JobKickOK ==
    ASSUME SetupInv, buf = NoBuf, hungup => handling = Idle,
           NEW q \in Queue, Ready(dev, q), told' = told,
           Handled([State EXCEPT !.dev.triggered[q] = @ \/ q \in InputQueues])
    PROVE  SetupInv'
<1> DEFINE on == dev.triggered[q] \/ q \in InputQueues
           d2 == [dev EXCEPT !.triggered[q] = on]
           new == Four(table, d2, maps, faults)
<1>1. Handled(new)
  <2>1. [State EXCEPT !.dev.triggered[q] = @ \/ q \in InputQueues] = new
    BY DEF State, Four
  <2> QED
    BY <2>1
<1>2. dev.up
  BY <1>1 DEF Handled, Counted
<1>3. /\ dev \in DevType /\ TellOK(told) /\ RingsOK(dev, told) /\ BusyOK(dev, told)
  BY <1>2, AtHand
<1>4. d2 \in DevType
  BY <1>3 DEF DevType
<1>5. /\ SameMemory(dev, d2) /\ SameFds(dev, d2)
      /\ d2.enabled = dev.enabled /\ d2.virtq = dev.virtq
      /\ d2.protocol_features = dev.protocol_features
      /\ d2.triggered[q] <=> dev.triggered[q] \/ q \in InputQueues
      /\ \A r \in Queue \ {q} : d2.triggered[r] = dev.triggered[r]
  BY <1>3 DEF DevType, SameMemory, SameFds
<1>6. told.ring[q] # 0 /\ Calls(dev, q, hungup)
  BY DEF Ready, Calls
<1> HIDE DEF d2
<1>7. /\ StateOK(new, told.table) /\ new.dev = d2 /\ new.dev.up
      /\ OnlyFds(faults, new.faults)
  BY <1>2, <1>4, <1>5, QueueSet
<1>8. RingsOK(d2, told)
  BY <1>3, <1>5 DEF RingsOK
<1>9. BusyOK(d2, told)
  <2>1. \A r \in Queue : Busy(d2, r) => Busy(dev, r) \/ (told.ring[r] # 0 /\ Calls(dev, r, hungup))
    BY <1>5, <1>6 DEF Busy
  <2>2. \A r \in Queue : Calls(d2, r, hungup) <=> Calls(dev, r, hungup)
    BY <1>5 DEF Calls, InBand, SameFds
  <2> QED
    BY <2>1, <2>2, <1>3, <1>5 DEF BusyOK, TellOK
<1> HIDE DEF new
<1> QED
  BY <1>1, <1>2, <1>3, <1>7, <1>8, <1>9, HandledOK

(***************************************************************************)
(* A kick that is handled at once, before its reply.                       *)
(***************************************************************************)
LEMMA KickAtOnceOK ==
    ASSUME SetupInv, buf = NoBuf, NEW q \in InputQueues, Ready(dev, q), told' = told,
           Counted, handling' = Append(handling, Fixed(q)),
           table' = table, dev' = dev, maps' = maps, faults' = faults, buf' = buf,
           hungup' = hungup
    PROVE  SetupInv'
<1>1. /\ dev.up /\ msgs' = msgs + 1 /\ msgs < MaxMsgs
  BY DEF Counted
<1>2. /\ StateOK(Four(table, dev, maps, faults), told.table) /\ TellOK(told)
      /\ RingsOK(dev, told) /\ BusyOK(dev, told)
      /\ \A r \in Queue : Busy(dev, r) => dev.up
  BY <1>1, AtHand
<1>3. q \in Queue /\ told.ring[q] # 0 /\ Calls(dev, q, hungup)
  BY QueueAssumption DEF Ready, Calls
<1>4. told.table # 0
  BY <1>2, <1>3 DEF TellOK
<1>5. Fixed(q) \in HandlingRecord /\ Fixed(q).virtq = q
  <2>1. Prealloc \in 0..Prealloc
    BY BoundAssumption
  <2> QED
    BY <2>1 DEF Fixed, HandlingRecord
<1>6. handling \in Seq(HandlingRecord)
  BY DEF SetupInv, HandlingOK
<1>7. HandlingOK' /\ \A r \in Queue : InHand(handling', r) => InHand(handling, r) \/ r = q
  BY <1>5, <1>6, InHandAppend DEF HandlingOK
<1>8. FaultsOK' /\ msgs' \in 0..MaxMsgs
  BY <1>1, BoundAssumption DEF SetupInv, FaultsOK
<1>9. ASSUME NEW r \in Queue, dev'.enabled[r] \/ dev'.triggered[r] \/ InHand(handling', r)
      PROVE  /\ dev'.up /\ told'.table # 0
             /\ dev'.triggered[r] => r \in InputQueues
             /\ Quiesces => told'.ring[r] # 0 /\ Calls(dev', r, hungup')
  <2>1. CASE r = q
    BY <2>1, <1>1, <1>3, <1>4
  <2>2. CASE r # q
    <3>1. Busy(dev, r)
      BY <2>2, <1>7, <1>9 DEF Busy
    <3> QED
      BY <3>1, <1>1, <1>2 DEF BusyOK
  <2> QED
    BY <2>1, <2>2
<1>10. /\ TellOK(told') /\ RingsOK(dev', told')
       /\ StateOK(Four(table', dev', maps', faults'), told'.table)
  BY <1>2
<1> QED
  BY <1>7, <1>8, <1>9, <1>10, Settled

LEMMA VringKickOK ==
    ASSUME SetupInv, buf = NoBuf, hungup => handling = Idle,
           NEW q \in Queue, VringKick(q)
    PROVE  SetupInv'
<1>1. Ready(dev, q) /\ told' = told
  BY DEF VringKick
<1>2. CASE Handled([State EXCEPT !.dev.triggered[q] = @ \/ q \in InputQueues])
  BY <1>1, <1>2, JobKickOK
<1>3. CASE /\ q \in InputQueues /\ Counted
           /\ handling' = Append(handling, Fixed(q))
           /\ UNCHANGED <<table, dev, maps, faults, scheduler, buf, hungup>>
  BY <1>1, <1>3, KickAtOnceOK
<1> QED
  BY <1>2, <1>3 DEF VringKick

LEMMA MessageOK ==
    ASSUME SetupInv, Message
    PROVE  SetupInv'
<1>1. buf = NoBuf /\ (hungup => handling = Idle)
  BY DEF Message
<1>2. ASSUME NEW t \in DOMAIN Tables, SetMemTable(t) PROVE SetupInv'
  BY <1>1, <1>2, SetMemTableOK
<1>3. ASSUME NEW q \in Queue, NEW base \in Bases, SetVringAddr(q, base) PROVE SetupInv'
  BY <1>1, <1>3, SetVringAddrOK
<1>4. ASSUME NEW q \in Queue, VringKick(q) PROVE SetupInv'
  BY <1>1, <1>4, VringKickOK
<1>5. ASSUME NEW q \in Queue, NEW on \in BOOLEAN, SetVringEnable(q, on) PROVE SetupInv'
  BY <1>1, <1>5, SetVringEnableOK
<1>6. ASSUME NEW q \in KickFds, NEW n \in 0..1, SetVringKick(q, n) PROVE SetupInv'
  BY <1>1, <1>6, SetVringKickOK
<1>7. ASSUME NEW q \in CallFds, NEW n \in 0..1, SetVringCall(q, n) PROVE SetupInv'
  BY <1>1, <1>7, SetVringCallOK
<1>8. ASSUME SetSlaveReqFd PROVE SetupInv'
  BY <1>1, <1>8, SetSlaveReqFdOK
<1>9. ASSUME NEW set \in Features, SetProtocolFeatures(set) PROVE SetupInv'
  BY <1>1, <1>9, SetProtocolFeaturesOK
<1>10. ASSUME Query PROVE SetupInv'
  <2>1. Handled(State) /\ told' = told
    BY <1>10 DEF Query
  <2>2. dev.up
    BY <2>1 DEF Handled, Counted
  <2>3. /\ StateOK(State, told.table) /\ State.dev = dev /\ State.faults = faults
        /\ TellOK(told) /\ RingsOK(dev, told) /\ BusyOK(dev, told)
    BY <2>2, AtHand
  <2>4. OnlyFds(faults, State.faults)
    BY <2>3 DEF OnlyFds
  <2> QED
    BY <2>1, <2>2, <2>3, <2>4, <1>1, HandledOK
<1> QED
  BY <1>2, <1>3, <1>4, <1>5, <1>6, <1>7, <1>8, <1>9, <1>10 DEF Message

(***************************************************************************)
(* A queue in use has its ring mapped, and a way to call the driver, when  *)
(* the driver quiesces, and the driver is there when it answers: then      *)
(* usfstl_vhost_user_send_virtq_buf() meets no fault.                      *)
(***************************************************************************)
LEMMA SentOK ==
    ASSUME SetupInv, NEW q \in Queue, Busy(dev, q), Sent(q)
    PROVE  /\ faults' \subseteq faults \cup {"ring", "abort", "SIGPIPE"}
           /\ Quiesces => faults' \subseteq faults \cup {"abort", "SIGPIPE"}
           /\ Quiesces /\ Answers => faults' = faults
           /\ ApiSocket => faults' \subseteq faults \cup {"ring", "abort"}
           /\ Quiesces /\ Answers => ~(WaitsForReply(q) /\ hungup)
<1> DEFINE ring == \A p \in Part : \E m \in maps : m.file = dev.virtq[q][p].file
           none == dev.call_fd[q] = NoFd /\ (InBand(dev) => dev.req_fd = NoFd)
           lost == CalledInBand(q) /\ dev.req_fd # NoFd /\ hungup
           end  == IF lost /\ ~ApiSocket THEN "SIGPIPE" ELSE "abort"
           bad  == none \/ lost
<1>1. faults' = Fault(Fault(State, ~ring, "ring"), bad, end).faults
  BY DEF Sent
<1>2. State.faults = faults /\ State = Four(table, dev, maps, faults)
  BY AtHand
<1>3. Quiesces => ring /\ Calls(dev, q, hungup)
  <2> SUFFICES ASSUME Quiesces PROVE ring /\ Calls(dev, q, hungup)
    OBVIOUS
  <2>1. dev.up /\ told.ring[q] # 0 /\ Calls(dev, q, hungup)
    BY AtHand DEF BusyOK
  <2>2. \A p \in Part : Mapped(dev.virtq[q][p])
    BY <2>1 DEF SetupInv, RingsTranslated
  <2> QED
    BY <2>1, <2>2 DEF Mapped
<1>4. Quiesces /\ Answers => ~bad /\ ~(WaitsForReply(q) /\ hungup)
  BY <1>3 DEF Calls, CalledInBand, WaitsForReply
<1>5. end \in {"abort", "SIGPIPE"} /\ (ApiSocket => end = "abort")
  OBVIOUS
<1> HIDE DEF ring, bad, end
<1> DEFINE f1 == IF ~ring THEN faults \cup {"ring"} ELSE faults
           f2 == IF bad THEN f1 \cup {end} ELSE f1
<1>6. Fault(State, ~ring, "ring") = Four(table, dev, maps, f1)
  BY <1>2 DEF Fault, Four
<1> HIDE DEF f1
<1>7. Fault(Four(table, dev, maps, f1), bad, end) = Four(table, dev, maps, f2)
  BY DEF Fault, Four
<1>8. faults' = f2
  BY <1>1, <1>6, <1>7, FourFields
<1> QED
  BY <1>3, <1>4, <1>5, <1>8 DEF f1

(***************************************************************************)
(* A buffer whose chain is of one kind: its bytes, and its segments.       *)
(***************************************************************************)
LEMMA BufferMeant ==
    ASSUME SetupInv, dev.up, told.table # 0, NEW chain \in Chains, NEW limit \in Nat,
           dev' = dev, maps' = maps, told' = told, IsBuf(buf'),
           buf'.chain = chain, buf'.moved = iov_copy(Segs(chain), limit),
           buf'.limit = limit,
           ~buf'.allocated => Len(buf'.in_sg) <= Prealloc /\ Len(buf'.out_sg) <= Prealloc
    PROVE  BufOK'
<1> DEFINE t == told.table
<1>1. RegionsOf(dev, t) /\ maps = MapsOf(t) /\ t \in 0..Len(Tables)
  BY AtHand
<1>2. t \in 1..Len(Tables)
  BY <1>1, TableNumber
<1> DEFINE c == iov_copy(Segs(chain), limit)
<1> HIDE DEF t
<1>3. /\ Len(c) = Min({Len(Bytes(chain)), limit})
      /\ \A k \in DOMAIN c :
            Meant(c[k], t, "guest_phys_addr", Bytes(chain)[k]) /\ MappedIn(t, c[k])
  BY <1>1, <1>2, CopyMeant
<1>4. buf'.moved = c
  OBVIOUS
<1> HIDE DEF c
<1>5. BytesInOrder'
  <2>1. Len(buf'.moved) = Min({Len(Bytes(buf'.chain)), buf'.limit})
    BY <1>3, <1>4
  <2>2. ASSUME NEW k \in DOMAIN buf'.moved
        PROVE  /\ Meant(buf'.moved[k], told'.table, "guest_phys_addr", Bytes(buf'.chain)[k])
               /\ \E m \in maps' : m.file = buf'.moved[k].file /\ buf'.moved[k].at < m.len
    <3>1. /\ Meant(c[k], t, "guest_phys_addr", Bytes(chain)[k])
          /\ MappedIn(t, c[k])
      BY <2>2, <1>3, <1>4
    <3> QED
      BY <3>1, <1>1, <1>4 DEF MappedIn, t
  <2> QED
    BY <2>1, <2>2 DEF BytesInOrder, Mapped
<1> QED
  BY <1>5 DEF BufOK, SegmentsFit

(***************************************************************************)
(* A step that takes a buffer of a queue in use.                           *)
(***************************************************************************)
LEMMA BufferStep ==
    ASSUME SetupInv, NEW q \in Queue, Busy(dev, q), Sent(q), BufOK', HandlingOK',
           buf'.reply = WaitsForReply(q),
           \A r \in Queue : InHand(handling', r) => InHand(handling, r),
           dev' = dev, maps' = maps, told' = told, table' = table, msgs' = msgs,
           hungup' = hungup
    PROVE  SetupInv'
<1>1. /\ faults' \subseteq faults \cup {"ring", "abort", "SIGPIPE"}
      /\ Quiesces => faults' \subseteq faults \cup {"abort", "SIGPIPE"}
      /\ Quiesces /\ Answers => faults' = faults
      /\ ApiSocket => faults' \subseteq faults \cup {"ring", "abort"}
      /\ Quiesces /\ Answers => ~(WaitsForReply(q) /\ hungup)
  BY SentOK
<1>2. StateOK(Four(table, dev, maps, faults), told.table)
  BY AtHand
<1>4. StateOK(Four(table, dev, maps, faults'), told.table)
  BY <1>1, <1>2, MemoryFaults
<1>5. State' = Four(table, dev, maps, faults')
  BY DEF State, Four
<1>6. /\ IsState(State') /\ MemoryOK(State', told'.table)
      /\ ~Withdraws => FdsOK(State', told'.table)
  BY <1>4, <1>5 DEF StateOK
<1>7. ToldOK' /\ UseOK' /\ RingsTranslated'
  <2>1. ToldOK'
    BY DEF SetupInv, ToldOK
  <2>2. UseOK'
    BY DEF SetupInv, UseOK, InUse, InHand, Ready
  <2>3. RingsTranslated'
    BY DEF SetupInv, RingsTranslated, Mapped
  <2> QED
    BY <2>1, <2>2, <2>3
<1>8. FaultsOK'
  <2>1. /\ Quiesces => "ring" \notin faults
        /\ Quiesces /\ Answers => "abort" \notin faults
        /\ ApiSocket => "SIGPIPE" \notin faults
    BY DEF SetupInv, FaultsOK
  <2> QED
    BY <2>1, <1>1 DEF FaultsOK
<1>9. msgs' \in 0..MaxMsgs /\ WaitOK'
  BY <1>1 DEF SetupInv, WaitOK
<1> QED
  BY <1>6, <1>7, <1>8, <1>9 DEF SetupInv

(***************************************************************************)
(* usfstl_vhost_user_get_virtq_buf(), of a chain of one kind.              *)
(***************************************************************************)
LEMMA ChainSegments ==
    ASSUME SetupInv, dev.up, told.table # 0, NEW chain \in Chains
    PROVE  /\ (\A k \in DOMAIN chain : ~chain[k].write) =>
                 Gather(chain, TRUE) = <<>> /\ Gather(chain, FALSE) = Segs(chain)
           /\ (\A k \in DOMAIN chain : chain[k].write) =>
                 Gather(chain, TRUE) = Segs(chain) /\ Gather(chain, FALSE) = <<>>
           /\ Len(Segs(chain)) = Len(chain) /\ Len(chain) \in Nat
<1> DEFINE t == told.table
<1>1. RegionsOf(dev, t) /\ t \in 0..Len(Tables)
  BY AtHand
<1>2. t \in 1..Len(Tables)
  BY <1>1, TableNumber
<1> HIDE DEF t
<1>3. /\ chain \in Seq(Elem)
      /\ \A k \in 1..Len(chain) : chain[k] \in Elem /\ Segment(dev, chain[k]) \in Seg
  BY <1>1, <1>2, SegmentMeant
<1>4. \A k \in 1..Len(chain) : chain[k].write \in BOOLEAN
  BY <1>3 DEF Elem
<1>5. DOMAIN chain = 1..Len(chain) /\ Len(chain) \in Nat
  BY <1>3
<1>6. ASSUME \A k \in DOMAIN chain : ~chain[k].write
      PROVE  Gather(chain, TRUE) = <<>> /\ Gather(chain, FALSE) = Segs(chain)
  <2>1. \A k \in 1..Len(chain) : chain[k].write = FALSE /\ chain[k].write # TRUE
    BY <1>4, <1>5, <1>6, Zenon
  <2>2. Gather(chain, TRUE) = <<>>
    BY <2>1, <1>3, GatherNone
  <2>3. Gather(chain, FALSE) = Segs(chain)
    BY <2>1, <1>3, GatherAll
  <2> QED
    BY <2>2, <2>3
<1>7. ASSUME \A k \in DOMAIN chain : chain[k].write
      PROVE  Gather(chain, TRUE) = Segs(chain) /\ Gather(chain, FALSE) = <<>>
  <2>1. \A k \in 1..Len(chain) : chain[k].write = TRUE /\ chain[k].write # FALSE
    BY <1>4, <1>5, <1>7, Zenon
  <2>2. Gather(chain, FALSE) = <<>>
    BY <2>1, <1>3, GatherNone
  <2>3. Gather(chain, TRUE) = Segs(chain)
    BY <2>1, <1>3, GatherAll
  <2> QED
    BY <2>2, <2>3
<1>8. Len(Segs(chain)) = Len(chain)
  BY <1>5 DEF Segs
<1> QED
  BY <1>5, <1>6, <1>7, <1>8

LEMMA HandleBufferOK ==
    ASSUME SetupInv, NEW chain \in Chains, HandleBuffer(chain)
    PROVE  SetupInv'
<1> DEFINE top == Len(handling)
           h == handling[top]
           q == h.virtq
           in == Gather(chain, TRUE)
           out == Gather(chain, FALSE)
           al == TooMany(Len(in), Len(out), h)
           b == get_virtq_buf(chain, h)
<1>1. /\ handling # Idle /\ \A k \in DOMAIN chain : ~chain[k].write
      /\ buf' = [b EXCEPT !.moved = iov_copy(b.out_sg, ReadMax), !.limit = ReadMax,
                          !.reply = WaitsForReply(q)]
      /\ handling' = [handling EXCEPT ![top] = Reused(b, h)]
      /\ Sent(q)
      /\ table' = table /\ dev' = dev /\ maps' = maps /\ told' = told /\ msgs' = msgs
      /\ hungup' = hungup
  BY DEF HandleBuffer
<1>0. HandlingOK
  BY DEF SetupInv
<1>2. top \in DOMAIN handling /\ h \in HandlingRecord /\ q \in Queue /\ Busy(dev, q)
  BY <1>0, <1>1, HandlingVirtq DEF Busy, InHand
<1>3. dev.up /\ told.table # 0
  BY <1>2, AtHand DEF BusyOK
<1>4. in = <<>> /\ out = Segs(chain) /\ Len(out) \in Nat /\ Len(in) = 0
  <2>1. /\ (\A k \in DOMAIN chain : ~chain[k].write) => in = <<>> /\ out = Segs(chain)
        /\ Len(Segs(chain)) = Len(chain) /\ Len(chain) \in Nat
    BY <1>3, ChainSegments
  <2>2. in = <<>> /\ out = Segs(chain)
    BY <1>1, <2>1, Zenon
  <2> QED
    BY <2>1, <2>2
<1>5. h \in [virtq : InputQueues, n_in_sg : 0..Prealloc, n_out_sg : 0..Prealloc]
  BY <1>2 DEF HandlingRecord
<1> HIDE DEF h
<1>6. Prealloc \in Nat /\ ReadMax \in Nat
  BY BoundAssumption
<1>7. ~al => Len(in) <= h.n_in_sg /\ Len(out) <= h.n_out_sg
  <2> DEFINE x == h.n_in_sg y == h.n_out_sg
  <2>1. x \in Nat /\ y \in Nat
    BY <1>5, <1>6
  <2>2. al <=> Len(in) > x \/ Len(out) > y
    BY DEF TooMany
  <2> HIDE DEF x, y, al, in, out
  <2>3. ~al => Len(in) <= x /\ Len(out) <= y
    BY <1>4, <2>1, <2>2
  <2> QED
    BY <2>3 DEF x, y
<1>8. ~al => Len(in) <= Prealloc /\ Len(out) <= Prealloc
  <2> DEFINE x == h.n_in_sg y == h.n_out_sg
  <2>1. x \in 0..Prealloc /\ y \in 0..Prealloc
    BY <1>5
  <2>2. ~al => Len(in) <= x /\ Len(out) <= y
    BY <1>7
  <2> HIDE DEF x, y, al, in, out
  <2> QED
    BY <1>4, <1>6, <2>1, <2>2
<1>9. b = [NoBuf EXCEPT !.chain = chain, !.in_sg = in, !.out_sg = out, !.allocated = al]
  BY DEF get_virtq_buf
<1> HIDE DEF b, in, out, al, q
<1>10. b.in_sg = in /\ b.out_sg = out /\ b.allocated = al
  BY <1>9 DEF NoBuf
<1> DEFINE c == iov_copy(out, ReadMax)
           w == WaitsForReply(q)
<1>11. buf' = [b EXCEPT !.moved = c, !.limit = ReadMax, !.reply = w]
  BY <1>1, <1>10 DEF q
<1> HIDE DEF c, w
<1>12. /\ buf'.chain = chain /\ buf'.in_sg = in /\ buf'.out_sg = out
       /\ buf'.allocated = al /\ buf'.moved = c /\ buf'.limit = ReadMax
       /\ buf'.reply = w /\ IsBuf(buf')
  BY <1>9, <1>11 DEF NoBuf, IsBuf
<1>13. BufOK'
  <2>1. ~buf'.allocated => Len(buf'.in_sg) <= Prealloc /\ Len(buf'.out_sg) <= Prealloc
    BY <1>8, <1>12
  <2>2. buf'.moved = iov_copy(Segs(chain), ReadMax)
    BY <1>4, <1>12 DEF c
  <2> QED
    BY <1>1, <1>3, <1>6, <1>12, <2>1, <2>2, BufferMeant
<1> DEFINE new == IF al THEN h
                  ELSE [h EXCEPT !.n_in_sg = Len(in), !.n_out_sg = Len(out)]
<1>14. handling' = [handling EXCEPT ![top] = new]
  BY <1>1, <1>10 DEF Reused
<1>15. new \in HandlingRecord /\ new.virtq = h.virtq
  <2>1. CASE al
    BY <2>1, <1>5 DEF HandlingRecord
  <2>2. CASE ~al
    <3>1. Len(in) \in 0..Prealloc /\ Len(out) \in 0..Prealloc
      BY <2>2, <1>4, <1>6, <1>8
    <3> QED
      BY <2>2, <3>1, <1>5 DEF HandlingRecord
  <2> QED
    BY <2>1, <2>2
<1> HIDE DEF new
<1>16. /\ HandlingOK'
       /\ \A r \in Queue : InHand(handling', r) => InHand(handling, r)
  <2>1. /\ handling' \in Seq(HandlingRecord) /\ DOMAIN handling' = DOMAIN handling
        /\ handling'[top] = new /\ \A k \in DOMAIN handling \ {top} : handling'[k] = handling[k]
    BY <1>0, <1>2, <1>14, <1>15 DEF HandlingOK
  <2>2. \A k \in DOMAIN handling : handling'[k].virtq = handling[k].virtq
    BY <2>1, <1>15 DEF h
  <2> QED
    BY <2>1, <2>2 DEF HandlingOK, InHand
<1>17. Sent(q) /\ buf'.reply = WaitsForReply(q)
  BY <1>1, <1>12 DEF w
<1> QED
  BY <1>1, <1>2, <1>13, <1>16, <1>17, BufferStep

LEMMA NotifyOK ==
    ASSUME SetupInv, NEW q \in Queue, NEW chain \in Chains, NEW n \in Lengths,
           Notify(q, chain, n)
    PROVE  SetupInv'
<1> DEFINE in == Gather(chain, TRUE)
           out == Gather(chain, FALSE)
           al == TooMany(Len(in), Len(out), Fixed(q))
           b == get_virtq_buf(chain, Fixed(q))
<1>1. /\ dev.enabled[q] /\ \A k \in DOMAIN chain : chain[k].write
      /\ buf' = [b EXCEPT !.moved = iov_copy(b.in_sg, n), !.limit = n, !.written = n,
                          !.reply = WaitsForReply(q)]
      /\ Sent(q)
      /\ table' = table /\ dev' = dev /\ maps' = maps /\ told' = told /\ msgs' = msgs
      /\ handling' = handling /\ hungup' = hungup
  BY DEF Notify
<1>2. Busy(dev, q)
  BY <1>1 DEF Busy
<1>3. dev.up /\ told.table # 0
  BY <1>2, AtHand DEF BusyOK
<1>4. in = Segs(chain) /\ out = <<>> /\ Len(in) \in Nat /\ Len(out) = 0
  <2>1. /\ (\A k \in DOMAIN chain : chain[k].write) => in = Segs(chain) /\ out = <<>>
        /\ Len(Segs(chain)) = Len(chain) /\ Len(chain) \in Nat
    BY <1>3, ChainSegments
  <2>2. in = Segs(chain) /\ out = <<>>
    BY <1>1, <2>1, Zenon
  <2> QED
    BY <2>1, <2>2
<1>5. Prealloc \in Nat /\ n \in Nat
  BY BoundAssumption, DriverAssumption
<1>6. ~al => Len(in) <= Prealloc /\ Len(out) <= Prealloc
  <2>1. Fixed(q).n_in_sg = Prealloc /\ Fixed(q).n_out_sg = Prealloc
    BY DEF Fixed
  <2>2. al <=> Len(in) > Prealloc \/ Len(out) > Prealloc
    BY <2>1 DEF TooMany
  <2> HIDE DEF al, in, out
  <2> QED
    BY <1>4, <1>5, <2>2
<1>7. b = [NoBuf EXCEPT !.chain = chain, !.in_sg = in, !.out_sg = out, !.allocated = al]
  BY DEF get_virtq_buf
<1> HIDE DEF b, in, out, al
<1>8. b.in_sg = in
  BY <1>7 DEF NoBuf
<1> DEFINE c == iov_copy(in, n)
           w == WaitsForReply(q)
<1>9. buf' = [b EXCEPT !.moved = c, !.limit = n, !.written = n, !.reply = w]
  BY <1>1, <1>8
<1> HIDE DEF c, w
<1>10. /\ buf'.chain = chain /\ buf'.in_sg = in /\ buf'.out_sg = out
       /\ buf'.allocated = al /\ buf'.moved = c /\ buf'.limit = n
       /\ buf'.reply = w /\ IsBuf(buf')
  BY <1>7, <1>9 DEF NoBuf, IsBuf
<1>11. BufOK'
  <2>1. ~buf'.allocated => Len(buf'.in_sg) <= Prealloc /\ Len(buf'.out_sg) <= Prealloc
    BY <1>6, <1>10
  <2>2. buf'.moved = iov_copy(Segs(chain), n)
    BY <1>4, <1>10 DEF c
  <2> QED
    BY <1>1, <1>3, <1>5, <1>10, <2>1, <2>2, BufferMeant
<1>12. HandlingOK' /\ \A r \in Queue : InHand(handling', r) => InHand(handling, r)
  BY <1>1 DEF SetupInv, HandlingOK
<1>13. buf'.reply = WaitsForReply(q)
  BY <1>10 DEF w
<1> QED
  BY <1>1, <1>2, <1>11, <1>12, <1>13, BufferStep

(***************************************************************************)
(* A step that only ends the handling of a queue or of a buffer, or begins *)
(* it.                                                                     *)
(***************************************************************************)
LEMMA QueueStep ==
    ASSUME SetupInv, dev.up, buf' = NoBuf, HandlingOK', FaultsOK',
           faults' \subseteq faults \cup {"ring", "abort", "SIGPIPE"},
           table' = table, maps' = maps, told' = told, msgs' = msgs, hungup' = hungup,
           dev' \in DevType, SameMemory(dev, dev'), SameFds(dev, dev'),
           dev'.virtq = dev.virtq, dev'.protocol_features = dev.protocol_features,
           \A q \in Queue :
              dev'.enabled[q] \/ dev'.triggered[q] \/ InHand(handling', q) => Busy(dev, q),
           \A q \in Queue : dev'.triggered[q] => dev.triggered[q]
    PROVE  SetupInv'
<1>1. /\ StateOK(State, told.table) /\ State = Four(table, dev, maps, faults)
      /\ State.table = table /\ State.dev = dev /\ State.maps = maps
      /\ State.faults = faults /\ TellOK(told) /\ BusyOK(dev, told)
      /\ dev.up => RingsOK(dev, told)
      /\ \A q \in Queue : Busy(dev, q) => dev.up
  BY AtHand
<1>2. StateOK(Four(table, dev', maps, faults'), told.table)
  <2>1. StateOK(Four(table, dev', maps, faults), told.table)
    BY <1>1, QueuesOK
  <2> QED
    BY <2>1, MemoryFaults
<1>3. dev'.up => RingsOK(dev', told')
  BY <1>1 DEF SameMemory, RingsOK
<1>4. \A q \in Queue : Calls(dev', q, hungup) <=> Calls(dev, q, hungup)
  BY DEF Calls, InBand, SameFds
<1>5. \A q \in Queue :
              dev'.enabled[q] \/ dev'.triggered[q] \/ InHand(handling', q) =>
                 /\ dev'.up /\ told'.table # 0
                 /\ dev'.triggered[q] => q \in InputQueues
                 /\ Quiesces => told'.ring[q] # 0 /\ Calls(dev', q, hungup')
  BY <1>1, <1>4 DEF BusyOK, SameMemory
<1>6. msgs' \in 0..MaxMsgs
  BY DEF SetupInv
<1>7. StateOK(Four(table', dev', maps', faults'), told'.table) /\ TellOK(told')
  BY <1>1, <1>2
<1> QED
  BY <1>3, <1>5, <1>6, <1>7, Settled

LEMMA HandleQueueOK ==
    ASSUME SetupInv, NEW q \in Queue, HandleQueue(q)
    PROVE  SetupInv'
<1>1. /\ dev.triggered[q] /\ buf' = NoBuf
      /\ dev' = [dev EXCEPT !.triggered[q] = FALSE]
      /\ handling' = <<Fixed(q)>> /\ hungup' = hungup
      /\ table' = table /\ maps' = maps /\ faults' = faults /\ told' = told /\ msgs' = msgs
  BY DEF HandleQueue
<1>2. dev \in DevType
  BY AtHand
<1>3. dev' \in DevType
  BY <1>1, <1>2 DEF DevType
<1>4. /\ SameMemory(dev, dev') /\ SameFds(dev, dev')
      /\ dev'.virtq = dev.virtq /\ dev'.protocol_features = dev.protocol_features
      /\ dev'.enabled = dev.enabled
      /\ \A r \in Queue : dev'.triggered[r] => dev.triggered[r]
  BY <1>1, <1>2 DEF DevType, SameMemory, SameFds
<1>5. \A r \in Queue : InHand(handling', r) => r = q
  <2>1. Fixed(q).virtq = q
    BY DEF Fixed
  <2>2. DOMAIN handling' = {1} /\ handling'[1] = Fixed(q)
    BY <1>1
  <2> QED
    BY <2>1, <2>2 DEF InHand
<1>6. \A r \in Queue :
         dev'.enabled[r] \/ dev'.triggered[r] \/ InHand(handling', r) => Busy(dev, r)
  BY <1>1, <1>4, <1>5 DEF Busy
<1>7. dev.up /\ BusyOK(dev, told)
  BY <1>1, AtHand DEF Busy
<1>8. HandlingOK'
  <2>1. q \in InputQueues
    BY <1>1, <1>7 DEF BusyOK
  <2>2. Prealloc \in 0..Prealloc
    BY BoundAssumption
  <2>3. Fixed(q) \in HandlingRecord
    BY <2>1, <2>2 DEF Fixed, HandlingRecord
  <2> QED
    BY <1>1, <2>3 DEF HandlingOK
<1>9. FaultsOK' /\ faults' \subseteq faults \cup {"ring", "abort", "SIGPIPE"}
  BY <1>1 DEF SetupInv, FaultsOK
<1> QED
  BY <1>1, <1>3, <1>4, <1>6, <1>7, <1>8, <1>9, QueueStep

LEMMA FreeBufOK ==
    ASSUME SetupInv, FreeBuf
    PROVE  SetupInv'
<1>1. /\ buf # NoBuf /\ buf' = NoBuf /\ handling' = handling /\ dev' = dev
      /\ table' = table /\ maps' = maps /\ told' = told /\ msgs' = msgs
      /\ hungup' = hungup /\ (buf.reply => hungup)
      /\ faults' = Fault(State, buf.reply, "abort").faults
  BY DEF FreeBuf
<1>2. dev.up /\ dev \in DevType
  BY <1>1, AtHand DEF SetupInv, BufOK
<1>3. SameMemory(dev, dev') /\ SameFds(dev, dev')
  BY <1>1 DEF SameMemory, SameFds
<1>4. HandlingOK'
  BY <1>1 DEF SetupInv, HandlingOK
<1>5. \A q \in Queue :
         dev'.enabled[q] \/ dev'.triggered[q] \/ InHand(handling', q) => Busy(dev, q)
  BY <1>1 DEF Busy
<1>6. faults' = IF buf.reply THEN faults \cup {"abort"} ELSE faults
  BY <1>1 DEF Fault, State
<1>7. Quiesces /\ Answers => ~buf.reply
  BY <1>1 DEF SetupInv, WaitOK
<1>8. FaultsOK' /\ faults' \subseteq faults \cup {"ring", "abort", "SIGPIPE"}
  BY <1>6, <1>7 DEF SetupInv, FaultsOK
<1> QED
  BY <1>1, <1>2, <1>3, <1>4, <1>5, <1>8, QueueStep

LEMMA QueueDoneOK ==
    ASSUME SetupInv, QueueDone
    PROVE  SetupInv'
<1>1. /\ handling # <<>> /\ buf' = NoBuf /\ handling' = Front(handling)
      /\ told' = told /\ msgs' = msgs /\ hungup' = hungup
  BY DEF QueueDone, Idle
<1>2. handling \in Seq(HandlingRecord) /\ HandlingOK
  BY DEF SetupInv, HandlingOK
<1>3. /\ HandlingOK' /\ \A q \in Queue : InHand(handling', q) => InHand(handling, q)
      /\ Len(handling) = 1 => \A q \in Queue : ~InHand(handling', q)
  BY <1>1, <1>2, InHandFront DEF HandlingOK
<1>4. dev.up /\ dev \in DevType
  <2>1. PICK q \in Queue : InHand(handling, q)
    BY <1>1, <1>2, HandlingVirtq DEF InHand, Idle
  <2> QED
    BY <2>1, AtHand DEF Busy
<1>5. CASE table' = table /\ dev' = dev /\ maps' = maps /\ faults' = faults
  <2>1. SameMemory(dev, dev') /\ SameFds(dev, dev')
    BY <1>5 DEF SameMemory, SameFds
  <2>2. \A q \in Queue :
           dev'.enabled[q] \/ dev'.triggered[q] \/ InHand(handling', q) => Busy(dev, q)
    BY <1>3, <1>5 DEF Busy
  <2>3. FaultsOK' /\ faults' \subseteq faults \cup {"ring", "abort", "SIGPIPE"}
    BY <1>5 DEF SetupInv, FaultsOK
  <2> QED
    BY <1>1, <1>3, <1>4, <1>5, <2>1, <2>2, <2>3, QueueStep
<1>6. CASE Len(handling) = 1 /\ Replied(State)
  <2>1. /\ StateOK(State, told.table) /\ State.dev = dev /\ State.faults = faults
        /\ TellOK(told) /\ RingsOK(dev, told) /\ BusyOK(dev, told)
    BY <1>4, AtHand
  <2>2. OnlyFds(faults, State.faults)
    BY <2>1 DEF OnlyFds
  <2>3. \A q \in Queue : InHand(handling', q) => ~hungup /\ InHand(handling, q)
    BY <1>3, <1>6
  <2>4. msgs' \in 0..MaxMsgs
    BY <1>1 DEF SetupInv
  <2> QED
    BY <1>1, <1>3, <1>4, <1>6, <2>1, <2>2, <2>3, <2>4, RepliedOK
<1> QED
  BY <1>5, <1>6 DEF QueueDone

(***************************************************************************)
(* A step of the driver's: it hangs up, or answers a call.                 *)
(***************************************************************************)
LEMMA DriverStep ==
    ASSUME SetupInv, table' = table, dev' = dev, maps' = maps, faults' = faults,
           handling' = handling, told' = told, msgs' = msgs,
           BufOK', UseOK', WaitOK'
    PROVE  SetupInv'
<1>1. State' = State
  BY DEF State
<1>2. /\ IsState(State') /\ MemoryOK(State', told'.table)
      /\ ~Withdraws => FdsOK(State', told'.table)
  BY <1>1 DEF SetupInv
<1>3. ToldOK' /\ HandlingOK' /\ FaultsOK' /\ msgs' \in 0..MaxMsgs
  BY DEF SetupInv, ToldOK, HandlingOK, FaultsOK
<1>4. RingsTranslated'
  BY DEF SetupInv, RingsTranslated, Mapped
<1> QED
  BY <1>2, <1>3, <1>4 DEF SetupInv

LEMMA BufKept ==
    ASSUME SetupInv, dev' = dev, maps' = maps, told' = told, buf' = buf
    PROVE  BufOK'
<1>1. BytesInOrder'
  BY DEF SetupInv, BufOK, BytesInOrder, Mapped
<1> QED
  BY <1>1 DEF SetupInv, BufOK, SegmentsFit

LEMMA StutterOK == SetupInv /\ UNCHANGED vars => SetupInv'
<1> SUFFICES ASSUME SetupInv, UNCHANGED vars PROVE SetupInv'
  OBVIOUS
<1>1. /\ table' = table /\ dev' = dev /\ maps' = maps /\ faults' = faults
      /\ handling' = handling /\ buf' = buf /\ hungup' = hungup /\ told' = told
      /\ msgs' = msgs
  BY DEF vars
<1>2. BufOK'
  BY <1>1, BufKept
<1>3. UseOK' /\ WaitOK'
  BY <1>1 DEF SetupInv, UseOK, InUse, Ready, WaitOK
<1> QED
  BY <1>1, <1>2, <1>3, DriverStep

LEMMA HangupOK ==
    ASSUME SetupInv, Hangup
    PROVE  SetupInv'
<1>1. /\ table' = table /\ dev' = dev /\ maps' = maps /\ faults' = faults
      /\ handling' = handling /\ buf' = buf /\ told' = told /\ msgs' = msgs
      /\ Answers => ~buf.reply /\ \A q \in Queue : InUse(q) => dev.call_fd[q] # NoFd
  BY DEF Hangup
<1>2. BufOK'
  BY <1>1, BufKept
<1>3. \A q \in Queue : InUse(q)' <=> InUse(q)
  BY <1>1 DEF InUse
<1>4. ASSUME NEW q \in Queue, InUse(q), Ready(dev, q) PROVE Ready(dev, q)'
  BY <1>1, <1>4 DEF Ready
<1>5. UseOK'
  BY <1>1, <1>3, <1>4 DEF SetupInv, UseOK
<1>6. WaitOK'
  BY <1>1 DEF WaitOK
<1> QED
  BY <1>1, <1>2, <1>5, <1>6, DriverStep

LEMMA AnswerOK ==
    ASSUME SetupInv, Answer
    PROVE  SetupInv'
<1>1. /\ table' = table /\ dev' = dev /\ maps' = maps /\ faults' = faults
      /\ handling' = handling /\ hungup' = hungup /\ told' = told /\ msgs' = msgs
      /\ buf.reply /\ buf' = [buf EXCEPT !.reply = FALSE]
  BY DEF Answer
<1>2. BufOK
  BY DEF SetupInv
<1>3. dev.up
  BY <1>1, <1>2, NoBufFields DEF BufOK
<1>4. /\ buf'.chain = buf.chain /\ buf'.in_sg = buf.in_sg /\ buf'.out_sg = buf.out_sg
      /\ buf'.allocated = buf.allocated /\ buf'.moved = buf.moved
      /\ buf'.limit = buf.limit /\ ~buf'.reply /\ IsBuf(buf')
  <2>1. IsBuf(buf)
    BY <1>2 DEF BufOK
  <2> QED
    BY <1>1, <2>1 DEF IsBuf
<1>5. BytesInOrder'
  BY <1>1, <1>2, <1>4 DEF BufOK, BytesInOrder, Mapped
<1>6. BufOK'
  BY <1>1, <1>2, <1>3, <1>4, <1>5 DEF BufOK, SegmentsFit
<1>7. UseOK' /\ WaitOK'
  BY <1>1, <1>4 DEF SetupInv, UseOK, InUse, Ready, WaitOK
<1> QED
  BY <1>1, <1>6, <1>7, DriverStep

LEMMA DisconnectedOK ==
    ASSUME SetupInv, Disconnected
    PROVE  SetupInv'
<1> DEFINE st == dev_free(State)
<1>1. /\ dev.up /\ handling = Idle /\ buf' = NoBuf
      /\ table' = st.table /\ dev' = st.dev /\ maps' = st.maps /\ faults' = st.faults
      /\ handling' = handling /\ told' = told /\ msgs' = msgs
  BY DEF Disconnected
<1>2. /\ StateOK(State, told.table) /\ State.dev = dev /\ State.faults = faults
      /\ told.table \in 0..Len(Tables) /\ TellOK(told)
  BY AtHand
<1>3. StateOK(st, told.table) /\ st.dev = NoDev /\ OnlyFds(faults, st.faults)
  BY <1>1, <1>2, FreeOK
<1> HIDE DEF st
<1>4. st = Four(table', dev', maps', faults')
  BY <1>1, <1>3, StateIsFour DEF StateOK
<1>5. StateOK(Four(table', dev', maps', faults'), told'.table)
  BY <1>1, <1>3, <1>4
<1>6. HandlingOK /\ HandlingOK' /\ msgs' \in 0..MaxMsgs
  BY <1>1 DEF SetupInv, HandlingOK
<1>7. FaultsOK'
  BY <1>1, <1>3 DEF SetupInv, FaultsOK, OnlyFds
<1>8. ~dev'.up /\ \A q \in Queue : ~dev'.enabled[q] /\ ~dev'.triggered[q] /\ ~InHand(handling', q)
  BY <1>1, <1>3, <1>6, NoDevType, NoDevIdle, HandlingVirtq
<1> QED
  BY <1>1, <1>2, <1>5, <1>6, <1>7, <1>8, Settled

(***************************************************************************)
(* A new connection finds nothing of the last one.                         *)
(***************************************************************************)
LEMMA UntoldOK == TellOK(Untold) /\ Untold.table = 0 /\ \A q \in Queue : Untold.ring[q] = 0
<1>1. Untold = [table |-> 0, ring |-> [q \in Queue |-> 0]]
  BY DEF Untold
<1>2. Untold.table = 0 /\ \A q \in Queue : Untold.ring[q] = 0
  BY <1>1
<1>3. 0 \in 0..Len(Tables) /\ [q \in Queue |-> 0] \in [Queue -> Nat]
  BY TableNumber
<1>4. Untold \in [table : 0..Len(Tables), ring : [Queue -> Nat]]
  BY <1>1, <1>3
<1> QED
  BY <1>2, <1>4 DEF TellOK

LEMMA NothingOpen ==
    ASSUME NEW tb, NEW t, Owned(tb, NoDev, t)
    PROVE  \A f \in Fd : tb[f] = Closed
<1>1. /\ NoDev.entry = NoFd /\ NoDev.req_fd = NoFd
      /\ \A q \in Queue : NoDev.kick[q] = NoFd /\ NoDev.call_fd[q] = NoFd
      /\ \A i \in Region : NoDev.region_fds[i] = NoFd
  BY DEF NoDev
<1>2. ASSUME NEW f \in Fd PROVE tb[f] = Closed
  <2>1. f # NoFd
    BY NoFdIsNone
  <2>2. tb[f] # ConnUse /\ tb[f] # ReqUse
    BY <1>1, <2>1 DEF Owned, EntryOwned, ReqOwned
  <2>3. \A q \in Queue : tb[f] # KickUse(q) /\ tb[f] # CallUse(q)
    BY <1>1, <2>1 DEF Owned, KicksOwned, CallsOwned
  <2>4. \A i \in Region : tb[f] # MemUse(t, i)
    BY <1>1, <2>1 DEF Owned, RegionsOwned
  <2> QED
    BY <2>2, <2>3, <2>4 DEF Owned, KnownUses
<1> QED
  BY <1>2

LEMMA ConnectedOK ==
    ASSUME SetupInv, Connected
    PROVE  SetupInv'
<1>1. PICK fds \in Given(table, 1) :
          /\ table' = Opened(table, fds, <<ConnUse>>)
          /\ dev' = [NoDev EXCEPT !.up = TRUE, !.entry = fds[1]]
  BY DEF Connected
<1>2. /\ ~dev.up /\ told' = Untold /\ msgs' = 0 /\ maps' = maps /\ faults' = faults
      /\ handling' = handling /\ buf' = buf
  BY DEF Connected
<1>3. /\ StateOK(Four(table, dev, maps, faults), told.table) /\ faults \subseteq AllFaults
      /\ \A q \in Queue : Busy(dev, q) => dev.up
  BY AtHand
<1>4. dev = NoDev /\ maps = {}
  BY <1>2, <1>3, FourFields DEF StateOK, MemoryOK
<1>5. buf = NoBuf
  BY <1>2 DEF SetupInv, BufOK
<1>6. handling = Idle /\ HandlingOK
  <2>1. HandlingOK
    BY DEF SetupInv
  <2>2. ASSUME handling # Idle PROVE FALSE
    <3>1. PICK q \in Queue : InHand(handling, q)
      BY <2>1, <2>2, HandlingVirtq DEF InHand
    <3> QED
      BY <3>1, <1>2, <1>3 DEF Busy
  <2> QED
    BY <2>1, <2>2
<1> DEFINE fd == fds[1]
<1>7. /\ fd \in Fd /\ table[fd] = Closed
      /\ table' = [f \in Fd |-> table'[f]]
      /\ table'[fd] = ConnUse /\ \A f \in Fd \ {fd} : table'[f] = table[f]
  <2> DEFINE n == 1
             uses == <<ConnUse>>
             tb == Opened(table, fds, uses)
  <2>1. n \in Nat /\ 1 \in 1..n /\ uses[1] = ConnUse /\ \A k \in 1..n : k = 1
    OBVIOUS
  <2>2. fds \in Given(table, n) /\ table' = tb
    BY <1>1
  <2> HIDE DEF n, uses
  <2>3. /\ fds \in [1..n -> Fd] /\ \A k \in 1..n : table[fds[k]] = Closed
        /\ \A j, k \in 1..n : fds[j] = fds[k] => j = k
    BY <2>1, <2>2, GivenProperties
  <2>4. /\ tb = [f \in Fd |-> tb[f]]
        /\ \A k \in 1..n : tb[fds[k]] = uses[k]
        /\ \A f \in Fd : (\A k \in 1..n : fds[k] # f) => tb[f] = table[f]
    BY <2>1, <2>3, OpenedProperties
  <2> HIDE DEF tb
  <2> QED
    BY <2>1, <2>2, <2>3, <2>4
<1> HIDE DEF fd
<1>8. dev' = [NoDev EXCEPT !.up = TRUE, !.entry = fd]
  BY <1>1 DEF fd
<1>9. /\ dev'.up /\ dev'.entry = fd /\ dev'.req_fd = NoFd
      /\ dev'.kick = NoDev.kick /\ dev'.call_fd = NoDev.call_fd
      /\ dev'.region_fds = NoDev.region_fds /\ dev'.n_regions = 0
      /\ dev'.region_vaddr = NoDev.region_vaddr
      /\ dev'.enabled = NoDev.enabled /\ dev'.triggered = NoDev.triggered
  BY <1>8 DEF NoDev
<1>10. /\ \A q \in Queue : NoDev.kick[q] = NoFd /\ NoDev.call_fd[q] = NoFd
       /\ \A i \in Region : NoDev.region_fds[i] = NoFd /\ NoDev.region_vaddr[i] = NoMap
  BY DEF NoDev
<1>11. dev' \in DevType
  <2>1. NoDev \in DevType /\ fd \in FdOrNone
    BY <1>7, NoDevType, NoFdIsNone
  <2> QED
    BY <2>1, <1>8 DEF DevType
<1> DEFINE new == Four(table', dev', maps', faults')
<1>12. new.table = table' /\ new.dev = dev' /\ new.maps = maps' /\ new.faults = faults'
  BY FourFields
<1>13. IsState(new)
  BY <1>2, <1>3, <1>7, <1>11, FourIsState
<1> HIDE DEF new
<1>14. MemoryOK(new, 0)
  <2>1. TableOf(0) = <<>> /\ Len(TableOf(0)) = 0
    BY DEF TableOf
  <2>2. \A i \in Region : ~(i <= Len(TableOf(0)))
    BY <2>1 DEF Region
  <2>3. RegionsOf(dev', 0)
    BY <2>1, <2>2, <1>9, <1>10 DEF RegionsOf
  <2>4. MapsOf(0) = {}
    BY <2>1 DEF MapsOf
  <2> QED
    BY <2>3, <2>4, <1>2, <1>4, <1>9, <1>12 DEF MemoryOK
<1>15. ASSUME ~Withdraws PROVE FdsOK(new, 0)
  <2>1. /\ Owned(table, NoDev, told.table)
        /\ faults \cap {"close", "unlink"} = {}
    BY <1>15, <1>3, <1>4, FourFields DEF StateOK, FdsOK
  <2>2. \A f \in Fd : table[f] = Closed
    BY <2>1, NothingOpen
  <2>3. \A f \in Fd : table'[f] = IF f = fd THEN ConnUse ELSE Closed
    BY <2>2, <1>7
  <2>4. \A f \in Fd : f # NoFd
    BY NoFdIsNone
  <2>5. EntryOwned(table', dev')
    BY <2>3, <1>9, UsesAreApart DEF EntryOwned, UsesApart
  <2>6. ReqOwned(table', dev')
    BY <2>3, <2>4, <1>9, UsesAreApart DEF ReqOwned, UsesApart
  <2>7. KicksOwned(table', dev') /\ CallsOwned(table', dev')
    BY <2>3, <2>4, <1>9, <1>10, UsesAreApart DEF KicksOwned, CallsOwned, UsesApart
  <2>8. RegionsOwned(table', dev', 0)
    BY <2>3, <2>4, <1>9, <1>10, UsesAreApart DEF RegionsOwned, UsesApart
  <2>9. KnownUses(table', 0)
    BY <2>3 DEF KnownUses
  <2>10. Owned(table', dev', 0)
    BY <2>5, <2>6, <2>7, <2>8, <2>9 DEF Owned
  <2>11. Registered(dev')
    BY <1>9, <1>10 DEF Registered
  <2> QED
    BY <2>1, <2>10, <2>11, <1>2, <1>12 DEF FdsOK
<1>16. StateOK(new, told'.table)
  BY <1>2, <1>13, <1>14, <1>15, UntoldOK DEF StateOK
<1>17. TellOK(told') /\ \A q \in Queue : told'.ring[q] = 0
  BY <1>2, UntoldOK
<1>18. RingsOK(dev', told')
  BY <1>17 DEF RingsOK
<1>19. \A q \in Queue : ~dev'.enabled[q] /\ ~dev'.triggered[q] /\ ~InHand(handling', q)
  BY <1>2, <1>6, <1>9, NoDevIdle, HandlingVirtq
<1>20. HandlingOK' /\ FaultsOK'
  BY <1>2 DEF SetupInv, HandlingOK, FaultsOK
<1>21. msgs' \in 0..MaxMsgs /\ buf' = NoBuf
  BY <1>2, <1>5, BoundAssumption
<1>22. StateOK(Four(table', dev', maps', faults'), told'.table)
  BY <1>16 DEF new
<1> QED
  BY <1>17, <1>18, <1>19, <1>20, <1>21, <1>22, Settled

LEMMA SetupInit == Init => SetupInv
<1> SUFFICES ASSUME Init PROVE SetupInv
  OBVIOUS
<1>1. /\ table = [f \in Fd |-> Closed] /\ dev = NoDev /\ maps = {} /\ faults = {}
      /\ handling = Idle /\ buf = NoBuf /\ told = Untold /\ msgs = 0
  BY DEF Init
<1>2. State = Four(table, dev, maps, faults)
  BY StateShape
<1>3. State.table = table /\ State.dev = dev /\ State.maps = maps /\ State.faults = faults
  BY <1>2, FourFields
<1>4. table = [f \in Fd |-> table[f]]
  BY <1>1
<1>5. IsState(State)
  BY <1>1, <1>2, <1>4, NoDevType, FourIsState
<1>6. MemoryOK(State, told.table)
  BY <1>1, <1>3, NoDevType DEF MemoryOK
<1>7. FdsOK(State, told.table)
  BY <1>1, <1>3, NothingOwned DEF FdsOK
<1>8. ToldOK
  BY <1>1, UntoldOK DEF ToldOK, TellOK
<1>9. HandlingOK
  BY <1>1 DEF HandlingOK, Idle
<1>10. \A q \in Queue : ~InUse(q) /\ ~dev.triggered[q]
  <2>1. \A q \in Queue : ~InHand(handling, q)
    BY <1>1, <1>9, HandlingVirtq
  <2> QED
    BY <2>1, <1>1, NoDevIdle DEF InUse, InHand
<1>11. UseOK /\ WaitOK
  BY <1>1, <1>10, NoBufFields DEF UseOK, WaitOK
<1>12. RingsTranslated
  BY <1>1, NoDevType DEF RingsTranslated
<1>13. BufOK
  <2>1. BytesInOrder
    <3>1. DOMAIN buf.moved = {} /\ Len(buf.moved) = 0
      BY <1>1, NoBufFields
    <3>2. Len(buf.moved) = Min({Len(Bytes(buf.chain)), buf.limit})
      BY <1>1, <3>1, NoBufFields
    <3> QED
      BY <3>1, <3>2 DEF BytesInOrder
  <2>2. SegmentsFit
    <3>1. Len(buf.in_sg) = 0 /\ Len(buf.out_sg) = 0
      BY <1>1, NoBufFields
    <3>2. Prealloc \in Nat
      BY BoundAssumption
    <3>3. Len(buf.in_sg) <= Prealloc /\ Len(buf.out_sg) <= Prealloc
      BY <3>1, <3>2
    <3> QED
      BY <3>3 DEF SegmentsFit
  <2> QED
    BY <2>1, <2>2, <1>1, NoBufFields DEF BufOK
<1>14. FaultsOK /\ msgs \in 0..MaxMsgs
  BY <1>1, BoundAssumption DEF FaultsOK
<1> QED
  BY <1>5, <1>6, <1>7, <1>8, <1>9, <1>11, <1>12, <1>13, <1>14 DEF SetupInv

LEMMA SetupStep == SetupInv /\ [Next]_vars => SetupInv'
<1> SUFFICES ASSUME SetupInv, [Next]_vars PROVE SetupInv'
  OBVIOUS
<1>1. CASE Connected
  BY <1>1, ConnectedOK
<1>2. CASE Hangup
  BY <1>2, HangupOK
<1>3. CASE Disconnected
  BY <1>3, DisconnectedOK
<1>4. CASE Message
  BY <1>4, MessageOK
<1>5. ASSUME NEW q \in Queue, HandleQueue(q) PROVE SetupInv'
  BY <1>5, HandleQueueOK
<1>6. ASSUME NEW chain \in Chains, HandleBuffer(chain) PROVE SetupInv'
  BY <1>6, HandleBufferOK
<1>7. ASSUME NEW q \in Queue, NEW chain \in Chains, NEW n \in Lengths, Notify(q, chain, n)
      PROVE  SetupInv'
  BY <1>7, NotifyOK
<1>8. CASE FreeBuf
  BY <1>8, FreeBufOK
<1>9. CASE QueueDone
  BY <1>9, QueueDoneOK
<1>10. CASE Answer
  BY <1>10, AnswerOK
<1>11. CASE UNCHANGED vars
  BY <1>11, StutterOK
<1> QED
  BY <1>1, <1>2, <1>3, <1>4, <1>5, <1>6, <1>7, <1>8, <1>9, <1>10, <1>11 DEF Next
-----------------------------------------------------------------------------
(* What the invariant says.                                                *)

LEMMA HeldIsOpen ==
    ASSUME SetupInv, ~Withdraws
    PROVE  DescriptorsOwned
<1> DEFINE t == told.table
           open == {<<f, table[f]>> : f \in {g \in Fd : table[g] # Closed}}
<1>1. Owned(table, dev, t) /\ dev \in DevType
  BY AtHand, FourFields DEF StateOK, FdsOK
<1>2. \A f, u : f \in Fd /\ table[f] = u /\ u # Closed => <<f, u>> \in open
  OBVIOUS
<1>3. ASSUME NEW f, NEW u, <<f, u>> \in open PROVE f \in Fd /\ table[f] = u /\ u # Closed
  <2>1. PICK g \in Fd : table[g] # Closed /\ <<f, u>> = <<g, table[g]>>
    BY <1>3
  <2>2. f = g /\ u = table[g]
    BY <2>1
  <2> QED
    BY <2>1, <2>2
<1>4. UsesApart
  BY UsesAreApart
<1> HIDE DEF open
<1>5. ASSUME NEW h \in Held, h[1] # NoFd PROVE h \in open
  <2>1. CASE h = <<dev.entry, ConnUse>>
    <3>1. h[1] = dev.entry /\ dev.entry \in Fd
      BY <2>1, <1>1, <1>5, NoFdIsNone DEF DevType
    <3>2. table[dev.entry] = ConnUse
      BY <3>1, <1>1 DEF Owned, EntryOwned
    <3> QED
      BY <2>1, <3>1, <3>2, <1>2, <1>4 DEF UsesApart
  <2>2. CASE h = <<dev.req_fd, ReqUse>>
    <3>1. h[1] = dev.req_fd /\ dev.req_fd \in Fd
      BY <2>2, <1>1, <1>5, NoFdIsNone DEF DevType
    <3>2. table[dev.req_fd] = ReqUse
      BY <3>1, <1>1 DEF Owned, ReqOwned
    <3> QED
      BY <2>2, <3>1, <3>2, <1>2, <1>4 DEF UsesApart
  <2>3. ASSUME NEW q \in Queue, h = <<dev.kick[q], KickUse(q)>> PROVE h \in open
    <3>1. h[1] = dev.kick[q] /\ dev.kick[q] \in Fd
      BY <2>3, <1>1, <1>5, NoFdIsNone DEF DevType
    <3>2. table[dev.kick[q]] = KickUse(q)
      BY <3>1, <1>1 DEF Owned, KicksOwned
    <3> QED
      BY <2>3, <3>1, <3>2, <1>2, <1>4 DEF UsesApart
  <2>4. ASSUME NEW q \in Queue, h = <<dev.call_fd[q], CallUse(q)>> PROVE h \in open
    <3>1. h[1] = dev.call_fd[q] /\ dev.call_fd[q] \in Fd
      BY <2>4, <1>1, <1>5, NoFdIsNone DEF DevType
    <3>2. table[dev.call_fd[q]] = CallUse(q)
      BY <3>1, <1>1 DEF Owned, CallsOwned
    <3> QED
      BY <2>4, <3>1, <3>2, <1>2, <1>4 DEF UsesApart
  <2>5. ASSUME NEW i \in Region, h = <<dev.region_fds[i], MemUse(t, i)>> PROVE h \in open
    <3>1. h[1] = dev.region_fds[i] /\ dev.region_fds[i] \in Fd
      BY <2>5, <1>1, <1>5, NoFdIsNone DEF DevType
    <3>2. table[dev.region_fds[i]] = MemUse(t, i)
      BY <3>1, <1>1 DEF Owned, RegionsOwned
    <3> QED
      BY <2>5, <3>1, <3>2, <1>2, <1>4 DEF UsesApart
  <2> QED
    BY <2>1, <2>2, <2>3, <2>4, <2>5, <1>5 DEF Held
<1>6. ASSUME NEW f \in Fd, table[f] # Closed PROVE <<f, table[f]>> \in Held
  <2>1. CASE table[f] = ConnUse
    <3>1. dev.entry = f
      BY <2>1, <1>1 DEF Owned, EntryOwned
    <3> QED
      BY <2>1, <3>1 DEF Held
  <2>2. CASE table[f] = ReqUse
    <3>1. dev.req_fd = f
      BY <2>2, <1>1 DEF Owned, ReqOwned
    <3> QED
      BY <2>2, <3>1 DEF Held
  <2>3. ASSUME NEW q \in Queue, table[f] = KickUse(q) PROVE <<f, table[f]>> \in Held
    <3>1. dev.kick[q] = f
      BY <2>3, <1>1 DEF Owned, KicksOwned
    <3> QED
      BY <2>3, <3>1 DEF Held
  <2>4. ASSUME NEW q \in Queue, table[f] = CallUse(q) PROVE <<f, table[f]>> \in Held
    <3>1. dev.call_fd[q] = f
      BY <2>4, <1>1 DEF Owned, CallsOwned
    <3> QED
      BY <2>4, <3>1 DEF Held
  <2>5. ASSUME NEW i \in Region, table[f] = MemUse(t, i) PROVE <<f, table[f]>> \in Held
    <3>1. dev.region_fds[i] = f
      BY <2>5, <1>1 DEF Owned, RegionsOwned
    <3> QED
      BY <2>5, <3>1 DEF Held
  <2> QED
    BY <2>1, <2>2, <2>3, <2>4, <2>5, <1>1, <1>6 DEF Owned, KnownUses
<1>7. ASSUME NEW h \in open PROVE h \in Held /\ h[1] # NoFd
  <2>1. PICK f \in Fd : table[f] # Closed /\ h = <<f, table[f]>>
    BY <1>7 DEF open
  <2>2. h[1] = f /\ f # NoFd
    BY <2>1, NoFdIsNone
  <2> QED
    BY <2>1, <2>2, <1>6
<1> HIDE DEF t
<1>8. {h \in Held : h[1] # NoFd} = open
  BY <1>5, <1>7
<1> QED
  BY <1>8 DEF DescriptorsOwned, open

LEMMA MapsAreTable ==
    ASSUME SetupInv
    PROVE  MappingsOwned
<1>1. MemoryOK(State, told.table) /\ State.dev = dev /\ State.maps = maps
      /\ told.table \in 0..Len(Tables)
  BY AtHand DEF StateOK
<1>2. CASE ~dev.up
  BY <1>1, <1>2 DEF MemoryOK, MappingsOwned
<1>3. CASE dev.up /\ told.table = 0
  <2>1. maps = MapsOf(0)
    BY <1>1, <1>3 DEF MemoryOK
  <2>2. MapsOf(0) = {}
    BY DEF MapsOf, TableOf
  <2> QED
    BY <1>3, <2>1, <2>2 DEF MappingsOwned
<1>4. CASE dev.up /\ told.table # 0
  <2>1. maps = MapsOf(told.table)
    BY <1>1, <1>4 DEF MemoryOK
  <2>2. told.table \in 1..Len(Tables)
    BY <1>1, <1>4, TableNumber
  <2>3. TableOf(told.table) = Tables[told.table]
    BY <1>4 DEF TableOf
  <2>4. DOMAIN Tables[told.table] = 1..Len(TableOf(told.table))
    BY <2>2, <2>3, TableTypes
  <2>5. maps = {MappingOf(told.table, i) : i \in DOMAIN Tables[told.table]}
    BY <2>1, <2>4 DEF MapsOf
  <2> QED
    BY <1>4, <2>5 DEF MappingsOwned
<1> QED
  BY <1>2, <1>3, <1>4

LEMMA SetupTyped ==
    ASSUME SetupInv, ~Withdraws
    PROVE  TypeOK
<1>1. /\ dev \in DevType /\ told.table \in 0..Len(Tables)
      /\ MemoryOK(State, told.table) /\ State.dev = dev
      /\ FdsOK(State, told.table) /\ State.table = table
  BY AtHand DEF StateOK
<1>2. \A f \in Fd : table[f].kind \in Kinds
  <2>1. KnownUses(table, told.table)
    BY <1>1 DEF FdsOK, Owned
  <2>2. \A k, i : Use(k, i).kind = k
    BY DEF Use
  <2>3. /\ Closed.kind \in Kinds /\ ConnUse.kind \in Kinds /\ ReqUse.kind \in Kinds
        /\ \A q : KickUse(q).kind \in Kinds /\ CallUse(q).kind \in Kinds
        /\ \A t, i : MemUse(t, i).kind \in Kinds
    BY <2>2 DEF Closed, ConnUse, ReqUse, KickUse, CallUse, MemUse, Kinds
  <2> QED
    BY <2>1, <2>3 DEF KnownUses
<1>3. /\ {dev.entry, dev.req_fd} \subseteq Fd \cup {NoFd}
      /\ {dev.kick, dev.call_fd} \subseteq [Queue -> Fd \cup {NoFd}]
      /\ dev.region_fds \in [Region -> Fd \cup {NoFd}]
  BY <1>1 DEF DevType, FdOrNone
<1>4. /\ dev.n_regions \in {0} \cup Region
      /\ \A i \in Region : dev.region_vaddr[i] = NoMap <=> i > dev.n_regions
  <2>1. CASE ~dev.up
    <3>1. dev = NoDev
      BY <2>1, <1>1 DEF MemoryOK
    <3>2. NoDev.n_regions = 0 /\ \A i \in Region : NoDev.region_vaddr[i] = NoMap /\ i > 0
      BY BoundAssumption DEF NoDev, Region
    <3> QED
      BY <3>1, <3>2
  <2>2. CASE dev.up
    <3> DEFINE t == told.table n == Len(TableOf(t))
    <3>1. RegionsOf(dev, t)
      BY <2>2, <1>1 DEF MemoryOK
    <3>2. n \in Nat /\ n <= MaxRegions /\ \A i \in 1..n : MappingOf(t, i) # NoMap
      <4>1. CASE t = 0
        <5>1. n = 0
          BY <4>1 DEF TableOf
        <5> HIDE DEF n, t
        <5> QED
          BY <5>1, BoundAssumption
      <4>2. CASE t # 0
        <5>1. TableOf(t) = Tables[t] /\ t \in 1..Len(Tables)
          BY <4>2, <1>1, TableNumber DEF TableOf
        <5> QED
          BY <5>1, TableTypes
      <4> QED
        BY <4>1, <4>2
    <3>3. MaxRegions \in Nat /\ Region = 1..MaxRegions
      BY BoundAssumption DEF Region
    <3>4. /\ dev.n_regions = n
          /\ \A i \in Region : i <= n => dev.region_vaddr[i] = MappingOf(t, i)
          /\ \A i \in Region : ~(i <= n) => dev.region_vaddr[i] = NoMap
      BY <3>1 DEF RegionsOf
    <3> HIDE DEF n, t
    <3>5. n \in {0} \cup Region
      BY <3>2, <3>3
    <3>6. \A i \in Region : dev.region_vaddr[i] = NoMap <=> i > n
      <4> SUFFICES ASSUME NEW i \in Region PROVE dev.region_vaddr[i] = NoMap <=> i > n
        OBVIOUS
      <4>1. i \in Nat /\ i >= 1
        BY <3>3
      <4>2. CASE i <= n
        <5>1. i \in 1..n /\ ~(i > n)
          BY <4>1, <4>2, <3>2
        <5> QED
          BY <5>1, <4>2, <3>2, <3>4
      <4>3. CASE ~(i <= n)
        <5>1. i > n
          BY <4>1, <4>3, <3>2
        <5> QED
          BY <5>1, <4>3, <3>4
      <4> QED
        BY <4>2, <4>3
    <3> QED
      BY <3>4, <3>5, <3>6
  <2> QED
    BY <2>1, <2>2
<1>5. /\ \A k \in DOMAIN handling : handling[k].virtq \in InputQueues
      /\ msgs \in 0..MaxMsgs
  BY HandlingVirtq DEF SetupInv
<1> QED
  BY <1>2, <1>3, <1>4, <1>5 DEF TypeOK

(***************************************************************************)
(* The invariant of the device's resources: the regions of the device are  *)
(* those of the table the driver told it last, kind by kind a descriptor   *)
(* is open exactly if its field holds it, and the queues in use have a     *)
(* ring and a way to call the driver.                                      *)
(***************************************************************************)
THEOREM SetupInvariant == Spec => []SetupInv
<1>1. Init => SetupInv
  BY SetupInit
<1>2. SetupInv /\ [Next]_vars => SetupInv'
  BY SetupStep
<1> QED
  BY <1>1, <1>2, PTL DEF Spec

(***************************************************************************)
(* Whatever the driver sends, and whether or not it quiesces or withdraws  *)
(* descriptors: rings and the bytes of a frame are in the driver's memory  *)
(* where the driver means them, and the arrays on the stack hold the       *)
(* segments listed in them.                                                *)
(***************************************************************************)
THEOREM SharedMemoryMeant == Spec => []MemoryInv
<1>1. SetupInv => MemoryInv
  BY DEF SetupInv, BufOK, MemoryInv
<1> QED
  BY <1>1, SetupInvariant, PTL

(***************************************************************************)
(* A driver that withdraws no kick descriptor, however it interleaves its  *)
(* messages: usfstl_vhost_user_dev_free() and the handlers of the messages *)
(* neither leak a descriptor or a mapping nor give up someone else's.      *)
(***************************************************************************)
THEOREM DeviceOwnsWhatItWasGiven ==
    ASSUME ~Withdraws
    PROVE  Spec => []OwnershipInv
<1>1. SetupInv => OwnershipInv
  BY SetupTyped, HeldIsOpen, MapsAreTable DEF OwnershipInv
<1> QED
  BY <1>1, SetupInvariant, PTL

(***************************************************************************)
(* If besides the driver's kicks are handled before it starts over, it     *)
(* does not hang up while the device may call it in band, and SIGPIPE is   *)
(* ignored, nothing goes wrong, with a scheduler or without one: no        *)
(* descriptor is closed twice, no entry unlinked twice, no unmapped ring   *)
(* used, and the assertions about calls and their answers hold, after the  *)
(* driver hung up as well (vhost.c:243-244, 269, 319).                     *)
(***************************************************************************)
THEOREM NothingGoesWrong ==
    ASSUME ~Withdraws, Quiesces, Answers, ApiSocket
    PROVE  Spec => []NoFault
<1>1. SetupInv => NoFault
  <2> SUFFICES ASSUME SetupInv PROVE faults = {}
    BY DEF NoFault
  <2>1. faults \subseteq AllFaults
    BY AtHand
  <2>2. faults \cap {"close", "unlink"} = {}
    BY AtHand, FourFields DEF StateOK, FdsOK
  <2>3. {"ring", "abort", "SIGPIPE"} \cap faults = {}
    BY DEF SetupInv, FaultsOK
  <2> QED
    BY <2>1, <2>2, <2>3 DEF AllFaults
<1> QED
  BY <1>1, SetupInvariant, PTL
=============================================================================
