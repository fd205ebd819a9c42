---------------------------- MODULE ConfigProofs ----------------------------
(***************************************************************************)
(* Proofs for module Config: after any sequence of reloads, messages and   *)
(* moves the tables fit the stations, the links are those of the last      *)
(* file, the addresses are those the kernel has told, and what the daemon  *)
(* can die of goes back to a cause.                                        *)
(***************************************************************************)
EXTENDS Config, SequenceTheorems, WellFoundedInduction, FiniteSetTheorems, TLAPS

(***************************************************************************)
(* A search from the front of a list ends: a non-empty set of positions    *)
(* has a first one.                                                        *)
(***************************************************************************)
LEMMA FirstPosition ==
    ASSUME NEW T, T \subseteq Nat, T # {}
    PROVE  \E x \in T : \A y \in T : x <= y
<1>1. PICK x \in T : \A y \in T : ~(<<y, x>> \in OpToRel(<, Nat))
  BY NatLessThanWellFounded, WFMin
<1>2. \A y \in T : ~(y < x)
  BY <1>1 DEF OpToRel
<1> QED
  BY <1>2

(***************************************************************************)
(* A list has a last entry: a non-empty set of numbers with an upper bound *)
(* has a greatest one.                                                     *)
(***************************************************************************)
LEMMA LastPosition ==
    ASSUME NEW n \in Nat, NEW T, T \subseteq 1..n, T # {}
    PROVE  \E x \in T : \A y \in T : y <= x
<1> DEFINE D == {n - x : x \in T}
<1>1. D \subseteq Nat /\ D # {}
  <2>1. \A x \in T : x \in 1..n /\ n - x \in Nat
    OBVIOUS
  <2>2. D \subseteq Nat
    BY <2>1
  <2>3. D # {}
    OBVIOUS
  <2> QED
    BY <2>2, <2>3
<1>2. PICK d \in D : \A e \in D : d <= e
  BY <1>1, FirstPosition
<1>3. PICK x \in T : d = n - x
  BY <1>2
<1>4. \A y \in T : n - x <= n - y
  BY <1>2, <1>3
<1>5. \A y \in T : y <= x
  BY <1>4
<1> QED
  BY <1>5

CtxFields ==
    {"config_path", "num_stas", "stations", "sta_array", "intf", "snr_matrix",
     "error_prob_matrix", "snr", "prob", "get_link_snr", "get_error_prob",
     "path_loss"}

StationRecord ==
    [addr : AllAddr, hwaddr : AllAddr, addrs : Seq(Addr),
     client : Client \cup {None}, x : Int, dir : Int, tx_power : Int]

Pointer == {"NULL", "live", "freed"}

\* a context before load_config(): that of validate_config(), or a cleared one
Cleared(x) ==
    /\ DOMAIN x = CtxFields
    /\ x.stations = <<>>
    /\ x.sta_array = "NULL" /\ x.intf = "NULL" /\ x.snr_matrix = "NULL"
    /\ x.error_prob_matrix = "NULL"
-----------------------------------------------------------------------------
(* What load_config() returns.                                             *)

LinksValid(c) ==
    \A k \in DOMAIN c.links :
        /\ Valid(c.links[k], Len(c.ids))
        /\ c.type = "prob" => c.links[k][3] \in Probability

\* the file is refused once its stations are there
Refused(c, per) ==
    \/ c.type = "path_loss" /\ c.broken # "no"
    \/ c.type = "prob" /\ (per \/ c.default_prob \notin Probability)
    \/ c.type \in {"snr", "prob"} /\ ~LinksValid(c)

ResultOf(c, per) ==
    IF ~c.readable THEN "error" ELSE IF Refused(c, per) THEN "fail" ELSE "ok"

AddsJob(c) ==
    c.readable /\ c.type = "path_loss" /\ c.moving /\ c.broken # "early"

(***************************************************************************)
(* Whether a file loads, and whether it adds the move job, depends on what *)
(* is in it and not on the context it is loaded into.                      *)
(***************************************************************************)
LEMMA LoadResult ==
    ASSUME NEW x, NEW f, NEW c, NEW per, DOMAIN x = CtxFields, IsContent(c)
    PROVE  /\ load_config(x, f, c, per).result = ResultOf(c, per)
           /\ load_config(x, f, c, per).adds_job = AddsJob(c)
<1> DEFINE n == Len(c.ids)
           st == [k \in 1..n |-> NewStation(c.ids[k])]
           y == [x EXCEPT
                !.config_path = f, !.sta_array = "live", !.num_stas = n,
                !.stations = @ \o st,
                !.intf = IF c.enable_interference THEN "live" ELSE "NULL",
                !.snr_matrix = "live",
                !.snr = [e \in Pairs(n) |-> SNR_DEFAULT]]
<1>1. y.num_stas = n
  BY DEF CtxFields
<1>2. CASE ~c.readable
  BY <1>2 DEF load_config, ResultOf, AddsJob
<1>3. CASE c.readable
  <2>1. load_config(x, f, c, per) = LoadLinks(y, c, per)
    BY <1>3 DEF load_config
  <2> HIDE DEF y
  <2>2. /\ LoadLinks(y, c, per).result = IF Refused(c, per) THEN "fail" ELSE "ok"
        /\ LoadLinks(y, c, per).adds_job = AddsJob(c)
    <3>1. CASE c.type = "path_loss"
      <4>1. CASE c.broken # "no"
        BY <1>1, <1>3, <3>1, <4>1 DEF LoadLinks, Refused, AddsJob, Fail, IsContent
      <4>2. CASE c.broken = "no"
        BY <1>1, <1>3, <3>1, <4>2 DEF LoadLinks, Refused, AddsJob, Fail, IsContent
      <4> QED
        BY <4>1, <4>2
    <3>2. CASE c.type = "prob"
      BY <1>1, <1>3, <3>2 DEF LoadLinks, Refused, AddsJob, Fail, IsContent, LinksValid
    <3>3. CASE c.type = "snr"
      BY <1>1, <1>3, <3>3 DEF LoadLinks, Refused, AddsJob, Fail, IsContent, LinksValid
    <3>4. CASE c.type = "none"
      BY <1>1, <1>3, <3>4 DEF LoadLinks, Refused, AddsJob, Fail, IsContent
    <3> QED
      BY <3>1, <3>2, <3>3, <3>4 DEF IsContent
  <2> QED
    BY <1>3, <2>1, <2>2 DEF ResultOf
<1> QED
  BY <1>2, <1>3

(***************************************************************************)
(* The stations of a file that was just read.                              *)
(***************************************************************************)
NewStations(s, c) ==
    /\ s \in Seq(StationRecord)
    /\ Len(s) = Len(c.ids)
    /\ \A k \in 1..Len(c.ids) : s[k].addrs = <<>>

\* the context after the stations and the default links were made
Prepared(y, f, c) ==
    /\ DOMAIN y = CtxFields
    /\ y.config_path = f /\ y.num_stas = Len(c.ids)
    /\ y.sta_array = "live" /\ y.snr_matrix = "live"
    /\ y.intf = IF c.enable_interference THEN "live" ELSE "NULL"
    /\ y.error_prob_matrix = "NULL"
    /\ NewStations(y.stations, c)
    /\ y.snr = [e \in Pairs(Len(c.ids)) |-> SNR_DEFAULT]

LEMMA SequenceOf ==
    ASSUME NEW S, NEW n \in Nat, NEW s \in [1..n -> S]
    PROVE  s \in Seq(S) /\ Len(s) = n
OBVIOUS

LEMMA EmptyFirst ==
    ASSUME NEW S, NEW s \in Seq(S)
    PROVE  <<>> \o s = s
OBVIOUS

LEMMA IdsTyped ==
    ASSUME NEW g \in File
    PROVE  /\ IsContent(Content[g])
           /\ Len(Content[g].ids) \in Nat
           /\ \A k \in 1..Len(Content[g].ids) : Content[g].ids[k] \in AllAddr
<1> DEFINE c == Content[g]
           S == Range(c.ids)
<1>1. IsContent(c) /\ c.ids \in Seq(S)
  BY ContentAssumption DEF IsContent
<1>2. S \subseteq AllAddr
  BY DEF AllAddr
<1> HIDE DEF S
<1>3. Len(c.ids) \in Nat /\ \A k \in 1..Len(c.ids) : c.ids[k] \in S
  BY <1>1, LenProperties, ElementOfSeq
<1> QED
  BY <1>1, <1>2, <1>3

\* load_config() gets as far as the links
GoesOn(x, f, c, per) ==
    \E y : Prepared(y, f, c) /\ load_config(x, f, c, per) = LoadLinks(y, c, per)

LEMMA PreparedBy ==
    ASSUME NEW x, NEW f, NEW g \in File, NEW per \in BOOLEAN, Cleared(x),
           Content[g].readable
    PROVE  GoesOn(x, f, Content[g], per)
<1> DEFINE c == Content[g]
           n == Len(c.ids)
           st == [k \in 1..n |-> NewStation(c.ids[k])]
           y == [x EXCEPT
                !.config_path = f, !.sta_array = "live", !.num_stas = n,
                !.stations = @ \o st,
                !.intf = IF c.enable_interference THEN "live" ELSE "NULL",
                !.snr_matrix = "live",
                !.snr = [e \in Pairs(n) |-> SNR_DEFAULT]]
<1>1. n \in Nat /\ \A k \in 1..n : c.ids[k] \in AllAddr
  BY IdsTyped
<1>2. <<>> \in Seq(Addr) /\ SNR_DEFAULT \in Int
  BY DEF SNR_DEFAULT
<1>3. \A k \in 1..n : NewStation(c.ids[k]) \in StationRecord
                      /\ NewStation(c.ids[k]).addrs = <<>>
  BY <1>1, <1>2 DEF NewStation, StationRecord
<1>4. st \in [1..n -> StationRecord]
  BY <1>3
<1>5. st \in Seq(StationRecord) /\ Len(st) = n
  <2> HIDE DEF st, n
  <2> QED
    BY <1>1, <1>4, SequenceOf
<1>6. \A k \in 1..n : st[k].addrs = <<>>
  BY <1>3
<1>7. load_config(x, f, c, per) = LoadLinks(y, c, per)
  BY DEF load_config
<1> HIDE DEF st, n
<1>8. x.stations \o st = st
  BY <1>5, EmptyFirst DEF Cleared
<1>9. Prepared(y, f, c)
  <2>1. NewStations(st, c)
    BY <1>5, <1>6 DEF NewStations, n
  <2>2. DOMAIN y = CtxFields
    BY DEF Cleared
  <2>3. y.stations = st
    BY <1>8 DEF Cleared, CtxFields
  <2>4. /\ y.config_path = f /\ y.num_stas = n
        /\ y.sta_array = "live" /\ y.snr_matrix = "live"
        /\ y.intf = IF c.enable_interference THEN "live" ELSE "NULL"
        /\ y.error_prob_matrix = "NULL"
        /\ y.snr = [e \in Pairs(n) |-> SNR_DEFAULT]
    BY DEF Cleared, CtxFields
  <2> QED
    BY <2>1, <2>2, <2>3, <2>4 DEF Prepared, n
<1> QED
  BY <1>7, <1>9 DEF GoesOn
-----------------------------------------------------------------------------
(* The links of a file.                                                    *)

EntriesOf(links, a, b) ==
    {k \in DOMAIN links : links[k][1] = a /\ links[k][2] = b}
LatestOf(links, K) == links[CHOOSE k \in K : \A n \in K : n <= k][3]

LEMMA LinkValueIs ==
    ASSUME NEW links \in Seq(LinkEntry), NEW a, NEW b, NEW d
    PROVE  LinkValue(links, <<a, b>>, d) =
               IF EntriesOf(links, a, b) = {} THEN d
               ELSE LatestOf(links, EntriesOf(links, a, b))
<1> DEFINE K == EntriesOf(links, a, b)
           last == CHOOSE k \in K : \A n \in K : n <= k
           sel == SelectLastInSeq(links, LAMBDA l : l[1] = <<a, b>>[1]
                                                    /\ l[2] = <<a, b>>[2])
<1>1. Len(links) \in Nat /\ DOMAIN links = 1..Len(links)
  BY LenProperties
<1>2. sel = IF K # {} THEN Max(K) ELSE 0
  BY <1>1 DEF SelectLastInSeq, EntriesOf
<1>3. LinkValue(links, <<a, b>>, d) = IF sel = 0 THEN d ELSE links[sel][3]
  BY DEF LinkValue
<1>4. K \subseteq 1..Len(links)
  BY <1>1 DEF EntriesOf
<1> HIDE DEF K, sel
<1>5. CASE K = {}
  BY <1>2, <1>3, <1>5 DEF K
<1>6. CASE K # {}
  <2>1. PICK m \in K : \A y \in K : y <= m
    BY <1>1, <1>4, <1>6, LastPosition
  <2>2. \A k \in K : k \in Int
    BY <1>1, <1>4
  <2>3. Max(K) = m
    BY <2>1, <2>2 DEF Max
  <2>4. last = m
    BY <2>1, <2>2
  <2>5. m # 0
    BY <1>4, <1>1
  <2> QED
    BY <1>2, <1>3, <1>6, <2>3, <2>4, <2>5 DEF K, LatestOf
<1> QED
  BY <1>5, <1>6

(***************************************************************************)
(* What mirror_link() makes of the entries is what the README says of      *)
(* them: the last entry for a direction, else the last one for the other.  *)
(***************************************************************************)
LEMMA MirroredIsConfigured ==
    ASSUME NEW c, c.links \in Seq(LinkEntry), NEW a, NEW b, a # b, NEW d
    PROVE  Mirrored(c.links, <<a, b>>, d) = Configured(c, a, b, d)
<1> DEFINE E(x, y) == EntriesOf(c.links, x, y)
           L(ks) == LatestOf(c.links, ks)
<1>1. LinkValue(c.links, <<a, b>>, d) = IF E(a, b) = {} THEN d ELSE L(E(a, b))
  BY LinkValueIs
<1>2. LinkValue(c.links, <<b, a>>, d) = IF E(b, a) = {} THEN d ELSE L(E(b, a))
  BY LinkValueIs
<1>3. Configured(c, a, b, d) =
        IF E(a, b) # {} THEN L(E(a, b))
        ELSE IF E(b, a) # {} THEN L(E(b, a)) ELSE d
  BY DEF Configured, EntriesOf, LatestOf
<1>4. Mirrored(c.links, <<a, b>>, d) =
        IF E(a, b) = {} THEN LinkValue(c.links, <<b, a>>, d)
        ELSE LinkValue(c.links, <<a, b>>, d)
  BY DEF Mirrored, EntriesOf
<1> HIDE DEF E, L
<1> QED
  BY <1>1, <1>2, <1>3, <1>4

\* where a station is, and what its signal is, after m moves
XAfter(c, m, k) ==
    c.positions[k] + (IF c.moving THEN m * c.directions[k] ELSE 0)

SignalAfter(c, m, a, b) ==
    LET xa == XAfter(c, m, a + 1)
        xb == XAfter(c, m, b + 1)
        d == IF xa > xb THEN xa - xb ELSE xb - xa
    IN  IF d = 0 THEN Garbage
        ELSE c.tx_powers[a + 1] - calc_path_loss(c.model, d) - NOISE_LEVEL

\* what the file says of a link, after m moves
FileSnr(c, m, a, b) ==
    CASE c.type = "snr" -> Configured(c, a, b, SNR_DEFAULT)
      [] c.type = "path_loss" -> SignalAfter(c, m, a, b)
      [] OTHER -> SNR_DEFAULT

\* the stations are where m moves have brought them
Placed(stations, c, m) ==
    c.type = "path_loss" =>
        \A k \in 1..Len(c.ids) :
            /\ stations[k].x = XAfter(c, m, k)
            /\ stations[k].dir = IF c.moving THEN c.directions[k] ELSE 0
            /\ stations[k].tx_power = c.tx_powers[k]

\* the links are those of the file after m moves, but for those in set
Linked(y, c, m, set) ==
    \A a, b \in 0..(Len(c.ids) - 1) : a # b =>
        /\ c.type = "prob" =>
              y.prob[<<a, b>>] = Configured(c, a, b, c.default_prob)
        /\ y.snr[<<a, b>>] = IF {a, b} \in DOMAIN set THEN set[{a, b}]
                             ELSE FileSnr(c, m, a, b)

(***************************************************************************)
(* recalc_path_loss() computes the signals from where the stations are.    *)
(***************************************************************************)
LEMMA PathLossIs ==
    ASSUME NEW c, c.type = "path_loss", NEW m \in Nat, NEW stations, NEW matrix,
           Len(c.ids) \in Nat, DOMAIN matrix = Pairs(Len(c.ids)),
           Placed(stations, c, m),
           \A k \in 1..Len(c.ids) : XAfter(c, m, k) \in Int
    PROVE  LET new == PathLossMatrix(c.model, stations, matrix)
           IN  /\ DOMAIN new = Pairs(Len(c.ids))
               /\ \A a, b \in 0..(Len(c.ids) - 1) : a # b =>
                     new[<<a, b>>] = SignalAfter(c, m, a, b)
<1> DEFINE new == PathLossMatrix(c.model, stations, matrix)
           n == Len(c.ids)
<1>1. DOMAIN new = Pairs(n)
  BY DEF PathLossMatrix
<1>2. ASSUME NEW a \in 0..(n - 1), NEW b \in 0..(n - 1), a # b
      PROVE  new[<<a, b>>] = SignalAfter(c, m, a, b)
  <2> DEFINE from == stations[a + 1]
             to == stations[b + 1]
             xa == XAfter(c, m, a + 1)
             xb == XAfter(c, m, b + 1)
             d == IF xa > xb THEN xa - xb ELSE xb - xa
  <2>1. <<a, b>> \in DOMAIN matrix
    BY DEF Pairs
  <2>2. new[<<a, b>>] =
          IF Distance(from, to) = 0 THEN Garbage
          ELSE from.tx_power - calc_path_loss(c.model, Distance(to, from))
               - NOISE_LEVEL
    BY <2>1, <1>2 DEF PathLossMatrix
  <2>3. a + 1 \in 1..n /\ b + 1 \in 1..n
    OBVIOUS
  <2>4. from.x = xa /\ to.x = xb /\ from.tx_power = c.tx_powers[a + 1]
        /\ xa \in Int /\ xb \in Int
    BY <2>3 DEF Placed
  <2>5. Distance(from, to) = d /\ Distance(to, from) = d
    <3> HIDE DEF from, to, xa, xb
    <3> QED
      BY <2>4 DEF Distance
  <2>6. SignalAfter(c, m, a, b) =
          IF d = 0 THEN Garbage
          ELSE c.tx_powers[a + 1] - calc_path_loss(c.model, d) - NOISE_LEVEL
    BY DEF SignalAfter
  <2> HIDE DEF from, to, d
  <2> QED
    BY <2>2, <2>4, <2>5, <2>6
<1> QED
  BY <1>1, <1>2
-----------------------------------------------------------------------------
(* The context that load_config() leaves behind.                           *)

NoneSet == [p \in {} |-> 0]

\* whatever the result, if the file was readable
Shaped(y, f, c) ==
    /\ DOMAIN y = CtxFields
    /\ y.config_path = f /\ y.num_stas = Len(c.ids)
    /\ y.sta_array = "live"
    /\ y.intf = IF c.enable_interference THEN "live" ELSE "NULL"
    /\ NewStations(y.stations, c)
    /\ DOMAIN y.snr = Pairs(Len(c.ids))
    /\ y.error_prob_matrix \in Pointer

\* the error probabilities and the functions that read them
Served(y, c) ==
    /\ y.snr_matrix = "live"
    /\ y.error_prob_matrix = IF c.type = "prob" THEN "live" ELSE "NULL"
    /\ (y.get_error_prob = "matrix") <=> (c.type = "prob")
    /\ (y.get_link_snr = "default") <=> (c.type = "prob")

Accepted(y, c) ==
    /\ Served(y, c)
    /\ c.type = "path_loss" => y.path_loss = c.model /\ c.broken = "no"
    /\ Placed(y.stations, c, 0)
    /\ Linked(y, c, 0, NoneSet)

Parsed(p, y, f, c) ==
    /\ Prepared([p EXCEPT !.snr = y.snr], f, c)
    /\ DOMAIN p = CtxFields
    /\ DOMAIN p.snr = Pairs(Len(c.ids))
    /\ p.path_loss = c.model
    /\ Placed(p.stations, c, 0)
    /\ \A a, b \in 0..(Len(c.ids) - 1) : a # b =>
          p.snr[<<a, b>>] = SignalAfter(c, 0, a, b)

(***************************************************************************)
(* parse_path_loss() puts every station to its place and computes the      *)
(* signals from there.                                                     *)
(***************************************************************************)
LEMMA ParsePlaces ==
    ASSUME NEW y, NEW f, NEW c, Prepared(y, f, c), IsContent(c),
           Len(c.ids) \in Nat, c.type = "path_loss", c.broken = "no"
    PROVE  Parsed(ParsePathLoss(y, c), y, f, c)
<1> DEFINE n == Len(c.ids)
           D(k) == IF c.moving THEN c.directions[k] ELSE 0
           st == [k \in DOMAIN y.stations |->
                       [y.stations[k] EXCEPT !.x = c.positions[k],
                            !.dir = D(k), !.tx_power = c.tx_powers[k]]]
           m == PathLossMatrix(c.model, st, y.snr)
           p == ParsePathLoss(y, c)
<1>1. /\ c.positions \in [1..n -> Int] /\ c.tx_powers \in [1..n -> Int]
      /\ c.moving \in BOOLEAN
      /\ c.moving => c.directions \in [1..n -> Int]
  BY DEF IsContent
<1>2. /\ y.stations \in Seq(StationRecord) /\ Len(y.stations) = n
      /\ \A k \in 1..n : y.stations[k].addrs = <<>>
      /\ DOMAIN y = CtxFields
  BY DEF Prepared, NewStations
<1>3. DOMAIN y.stations = 1..n /\ \A k \in 1..n : y.stations[k] \in StationRecord
  BY <1>2, LenProperties, ElementOfSeq
<1>4. \A k \in 1..n : D(k) \in Int
  BY <1>1
<1> HIDE DEF D
<1>5. \A k \in 1..n : /\ st[k] \in StationRecord
                      /\ st[k].addrs = <<>>
                      /\ st[k].x = c.positions[k]
                      /\ st[k].dir = D(k)
                      /\ st[k].tx_power = c.tx_powers[k]
  BY <1>1, <1>2, <1>3, <1>4 DEF StationRecord
<1>6. st \in [1..n -> StationRecord]
  BY <1>3, <1>5
<1>7. p = [y EXCEPT !.stations = st, !.path_loss = c.model, !.snr = m]
  BY DEF ParsePathLoss, D
<1> HIDE DEF st, p, n
<1>8. NewStations(st, c)
  BY <1>5, <1>6, SequenceOf DEF NewStations, n
<1>9. \A k \in 1..n : XAfter(c, 0, k) = c.positions[k] /\ XAfter(c, 0, k) \in Int
  <2>1. SUFFICES ASSUME NEW k \in 1..n
                 PROVE  XAfter(c, 0, k) = c.positions[k] /\ c.positions[k] \in Int
    OBVIOUS
  <2>2. c.positions[k] \in Int /\ (c.moving => c.directions[k] \in Int)
    BY <1>1
  <2> QED
    BY <2>2 DEF XAfter
<1>10. Placed(st, c, 0)
  BY <1>5, <1>9 DEF Placed, n, D
<1>11. DOMAIN y.snr = Pairs(n)
  BY DEF Prepared, n
<1>12. /\ DOMAIN m = Pairs(n)
       /\ \A a, b \in 0..(n - 1) : a # b => m[<<a, b>>] = SignalAfter(c, 0, a, b)
  BY <1>9, <1>10, <1>11, PathLossIs DEF n
<1> HIDE DEF m
<1>13. DOMAIN p = CtxFields /\ p.stations = st /\ p.path_loss = c.model /\ p.snr = m
  BY <1>2, <1>7 DEF CtxFields
<1>14. Prepared([p EXCEPT !.snr = y.snr], f, c)
  BY <1>2, <1>7, <1>8, <1>13 DEF Prepared, CtxFields
<1> QED
  BY <1>10, <1>12, <1>13, <1>14 DEF Parsed, n, p

LEMMA LoadLinksLeaves ==
    ASSUME NEW y, NEW f, NEW c, NEW per \in BOOLEAN, Prepared(y, f, c),
           IsContent(c), Len(c.ids) \in Nat
    PROVE  LET r == LoadLinks(y, c, per).ctx
           IN  /\ Shaped(r, f, c)
               /\ IF Refused(c, per) THEN r.snr_matrix = "freed"
                  ELSE Accepted(r, c)
<1> DEFINE n == Len(c.ids)
           r == LoadLinks(y, c, per).ctx
           Free(z) == [z EXCEPT !.snr_matrix = FreeIfLive(@),
                                !.error_prob_matrix = FreeIfLive(@)]
           ByProb(z) == [z EXCEPT
                        !.error_prob_matrix = "live", !.get_link_snr = "default",
                        !.get_error_prob = "matrix"]
           BySnr(z) == [z EXCEPT
                        !.error_prob_matrix = "NULL", !.get_link_snr = "matrix",
                        !.get_error_prob = IF per THEN "per" ELSE "snr"]
           Links(z, s, p) == [z EXCEPT !.snr = s, !.prob = p]
<1>1. ASSUME NEW z, Shaped(z, f, c), z.snr_matrix = "live"
      PROVE  Shaped(Free(z), f, c) /\ Free(z).snr_matrix = "freed"
  BY <1>1 DEF Shaped, FreeIfLive, Pointer, CtxFields
<1>2. Shaped(y, f, c) /\ y.snr_matrix = "live" /\ y.num_stas = n
  BY DEF Prepared, Shaped, Pointer
<1>3. ASSUME NEW z, Shaped(z, f, c), z.snr_matrix = "live"
      PROVE  /\ Shaped(ByProb(z), f, c) /\ ByProb(z).snr_matrix = "live"
             /\ Shaped(BySnr(z), f, c) /\ BySnr(z).snr_matrix = "live"
             /\ c.type = "prob" => Served(ByProb(z), c)
             /\ c.type # "prob" => Served(BySnr(z), c)
             /\ BySnr(z).snr = z.snr /\ ByProb(z).snr = z.snr
             /\ BySnr(z).stations = z.stations
             /\ BySnr(z).path_loss = z.path_loss
  BY <1>3 DEF Shaped, Served, Pointer, CtxFields
<1>4. ASSUME NEW z, Shaped(z, f, c), Served(z, c), NEW s, NEW p,
             DOMAIN s = Pairs(n)
      PROVE  /\ Shaped(Links(z, s, p), f, c) /\ Served(Links(z, s, p), c)
             /\ Links(z, s, p).snr = s /\ Links(z, s, p).prob = p
             /\ Links(z, s, p).stations = z.stations
             /\ Links(z, s, p).path_loss = z.path_loss
  BY <1>4 DEF Shaped, Served, CtxFields
<1>5. ASSUME NEW z, z.snr = [e \in Pairs(n) |-> SNR_DEFAULT]
      PROVE  \A a, b \in 0..(n - 1) : z.snr[<<a, b>>] = SNR_DEFAULT
  BY <1>5 DEF Pairs
<1>6. y.snr = [e \in Pairs(n) |-> SNR_DEFAULT]
  BY DEF Prepared
<1>7. ASSUME NEW d
      PROVE  \A a, b \in 0..(n - 1) : a # b =>
                [e \in Pairs(n) |-> Mirrored(c.links, e, d)][<<a, b>>]
                    = Configured(c, a, b, d)
  <2>1. SUFFICES ASSUME NEW a \in 0..(n - 1), NEW b \in 0..(n - 1), a # b
                 PROVE  Mirrored(c.links, <<a, b>>, d) = Configured(c, a, b, d)
    BY DEF Pairs
  <2> QED
    BY <2>1, MirroredIsConfigured DEF IsContent
<1>8. CASE c.type = "path_loss" /\ c.broken # "no"
  <2>1. r = Free(y)
    BY <1>8 DEF LoadLinks, Fail
  <2>2. Refused(c, per)
    BY <1>8 DEF Refused
  <2> HIDE DEF Free, r
  <2> QED
    BY <1>1, <1>2, <2>1, <2>2 DEF r
<1>9. CASE c.type = "path_loss" /\ c.broken = "no"
  <2> DEFINE p == ParsePathLoss(y, c)
  <2>1. r = Links(BySnr(p), BySnr(p).snr, <<>>)
    BY <1>9 DEF LoadLinks
  <2>2. ~Refused(c, per)
    BY <1>9 DEF Refused
  <2>3. Parsed(p, y, f, c)
    BY <1>9, ParsePlaces
  <2> HIDE DEF Free, r, p, Links, BySnr
  <2>4. Shaped(p, f, c) /\ p.snr_matrix = "live"
    BY <2>3 DEF Parsed, Prepared, Shaped, Pointer, CtxFields
  <2>5. Shaped(BySnr(p), f, c) /\ Served(BySnr(p), c) /\ BySnr(p).snr = p.snr
        /\ BySnr(p).stations = p.stations /\ BySnr(p).path_loss = p.path_loss
    BY <1>3, <1>9, <2>4
  <2>6. DOMAIN BySnr(p).snr = Pairs(n)
    BY <2>5 DEF Shaped
  <2>7. /\ Shaped(r, f, c) /\ Served(r, c) /\ r.snr = p.snr
        /\ r.stations = p.stations /\ r.path_loss = p.path_loss
    BY <1>4, <2>1, <2>5, <2>6
  <2>8. r.path_loss = c.model /\ Placed(r.stations, c, 0)
    BY <2>3, <2>7 DEF Parsed
  <2>9. Linked(r, c, 0, NoneSet)
    <3>1. \A a, b \in 0..(n - 1) : a # b => r.snr[<<a, b>>] = FileSnr(c, 0, a, b)
      BY <1>9, <2>3, <2>7 DEF Parsed, FileSnr
    <3> QED
      BY <1>9, <3>1 DEF Linked, NoneSet
  <2> QED
    BY <1>9, <2>2, <2>7, <2>8, <2>9 DEF Accepted, r
<1>10. CASE c.type = "prob"
  <2> DEFINE P(e) == Mirrored(c.links, e, IF e[1] = e[2] THEN 0 ELSE c.default_prob)
             prob == [e \in Pairs(n) |-> P(e)]
  <2>1. Refused(c, per) <=> \/ per \/ c.default_prob \notin Probability
                            \/ ~LinksValid(c)
    BY <1>10 DEF Refused
  <2>2. CASE per
    <3>1. r = Free(y)
      BY <1>10, <2>2 DEF LoadLinks, Fail
    <3> HIDE DEF Free, r
    <3> QED
      BY <1>1, <1>2, <2>1, <2>2, <3>1 DEF r
  <2>3. CASE ~per /\ (c.default_prob \notin Probability \/ ~LinksValid(c))
    <3>1. r = Free(ByProb(y))
      BY <1>2, <1>10, <2>3 DEF LoadLinks, Fail, LinksValid
    <3> HIDE DEF Free, r, ByProb
    <3>2. Shaped(ByProb(y), f, c) /\ ByProb(y).snr_matrix = "live"
      BY <1>2, <1>3
    <3>3. Shaped(r, f, c) /\ r.snr_matrix = "freed"
      BY <1>1, <3>1, <3>2
    <3> QED
      BY <2>1, <2>3, <3>3 DEF r
  <2>4. CASE ~per /\ c.default_prob \in Probability /\ LinksValid(c)
    <3>1. r = Links(ByProb(y), ByProb(y).snr, prob)
      BY <1>2, <1>10, <2>4 DEF LoadLinks, LinksValid
    <3> HIDE DEF Free, r, ByProb, Links, prob
    <3>2. Shaped(ByProb(y), f, c) /\ Served(ByProb(y), c) /\ ByProb(y).snr = y.snr
      BY <1>2, <1>3, <1>10
    <3>3. DOMAIN ByProb(y).snr = Pairs(n)
      BY <3>2 DEF Shaped
    <3>4. Shaped(r, f, c) /\ Served(r, c) /\ r.snr = y.snr /\ r.prob = prob
      BY <1>4, <3>1, <3>2, <3>3
    <3>5. ASSUME NEW a \in 0..(n - 1), NEW b \in 0..(n - 1), a # b
          PROVE  r.prob[<<a, b>>] = Configured(c, a, b, c.default_prob)
      <4>1. r.prob[<<a, b>>] = P(<<a, b>>)
        BY <3>4 DEF prob, Pairs
      <4>2. P(<<a, b>>) = Mirrored(c.links, <<a, b>>, c.default_prob)
        BY <3>5
      <4>3. @ = Configured(c, a, b, c.default_prob)
        BY <3>5, MirroredIsConfigured DEF IsContent
      <4> QED
        BY <4>1, <4>2, <4>3
    <3>6. \A a, b \in 0..(n - 1) : r.snr[<<a, b>>] = SNR_DEFAULT
      BY <1>5, <1>6, <3>4
    <3>7. \A a, b \in 0..(n - 1) : FileSnr(c, 0, a, b) = SNR_DEFAULT
      BY <1>10 DEF FileSnr
    <3>8. Linked(r, c, 0, NoneSet)
      BY <3>5, <3>6, <3>7 DEF Linked, NoneSet
    <3> QED
      BY <1>10, <2>1, <2>4, <3>4, <3>8 DEF Accepted, Placed, r
  <2> QED
    BY <2>2, <2>3, <2>4
<1>11. CASE c.type = "snr"
  <2> DEFINE s == [e \in Pairs(n) |-> Mirrored(c.links, e, SNR_DEFAULT)]
  <2>1. Refused(c, per) <=> ~LinksValid(c)
    BY <1>11 DEF Refused
  <2>2. CASE ~LinksValid(c)
    <3>1. r = Free(BySnr(y))
      BY <1>2, <1>11, <2>2 DEF LoadLinks, Fail, LinksValid
    <3> HIDE DEF Free, r, BySnr
    <3>2. Shaped(BySnr(y), f, c) /\ BySnr(y).snr_matrix = "live"
      BY <1>2, <1>3
    <3>3. Shaped(r, f, c) /\ r.snr_matrix = "freed"
      BY <1>1, <3>1, <3>2
    <3> QED
      BY <2>1, <2>2, <3>3 DEF r
  <2>3. CASE LinksValid(c)
    <3>1. r = Links(BySnr(y), s, <<>>)
      BY <1>2, <1>11, <2>3 DEF LoadLinks, LinksValid
    <3>2. DOMAIN s = Pairs(n)
      OBVIOUS
    <3>3. \A a, b \in 0..(n - 1) : a # b =>
              s[<<a, b>>] = Configured(c, a, b, SNR_DEFAULT)
      BY <1>7
    <3> HIDE DEF Free, r, BySnr, Links, s
    <3>4. Shaped(BySnr(y), f, c) /\ Served(BySnr(y), c)
      BY <1>2, <1>3, <1>11
    <3>5. Shaped(r, f, c) /\ Served(r, c) /\ r.snr = s
      BY <1>4, <3>1, <3>2, <3>4
    <3>6. Linked(r, c, 0, NoneSet)
      BY <1>11, <3>3, <3>5 DEF Linked, NoneSet, FileSnr
    <3> QED
      BY <1>11, <2>1, <2>3, <3>5, <3>6 DEF Accepted, Placed, r
  <2> QED
    BY <2>2, <2>3
<1>12. CASE c.type = "none"
  <2>1. r = Links(BySnr(y), BySnr(y).snr, <<>>)
    BY <1>2, <1>12 DEF LoadLinks
  <2>2. ~Refused(c, per)
    BY <1>12 DEF Refused
  <2> HIDE DEF r, BySnr, Links
  <2>3. Shaped(BySnr(y), f, c) /\ Served(BySnr(y), c) /\ BySnr(y).snr = y.snr
    BY <1>2, <1>3, <1>12
  <2>4. DOMAIN BySnr(y).snr = Pairs(n)
    BY <2>3 DEF Shaped
  <2>5. Shaped(r, f, c) /\ Served(r, c) /\ r.snr = y.snr
    BY <1>4, <2>1, <2>3, <2>4
  <2>6. \A a, b \in 0..(n - 1) : r.snr[<<a, b>>] = SNR_DEFAULT
    BY <1>5, <1>6, <2>5
  <2>7. Linked(r, c, 0, NoneSet)
    BY <1>12, <2>6 DEF Linked, NoneSet, FileSnr
  <2> QED
    BY <1>12, <2>2, <2>5, <2>7 DEF Accepted, Placed, r
<1> QED
  BY <1>8, <1>9, <1>10, <1>11, <1>12 DEF IsContent

\* what load_config() leaves of a context that was cleared
LoadedAs(r, x, f, c, per) ==
    /\ r.result = ResultOf(c, per)
    /\ r.adds_job = AddsJob(c)
    /\ ~c.readable => r.ctx = [x EXCEPT !.config_path = f]
    /\ c.readable => /\ Shaped(r.ctx, f, c)
                     /\ IF Refused(c, per) THEN r.ctx.snr_matrix = "freed"
                        ELSE Accepted(r.ctx, c)

LEMMA Loads ==
    ASSUME NEW x, NEW f, NEW g \in File, NEW per \in BOOLEAN, Cleared(x)
    PROVE  LoadedAs(load_config(x, f, Content[g], per), x, f, Content[g], per)
<1> DEFINE c == Content[g]
           r == load_config(x, f, c, per)
<1>1. IsContent(c) /\ Len(c.ids) \in Nat
  BY IdsTyped
<1>2. r.result = ResultOf(c, per) /\ r.adds_job = AddsJob(c)
  BY <1>1, LoadResult DEF Cleared
<1>3. ASSUME ~c.readable PROVE r.ctx = [x EXCEPT !.config_path = f]
  BY <1>3 DEF load_config
<1>4. ASSUME c.readable
      PROVE  /\ Shaped(r.ctx, f, c)
             /\ IF Refused(c, per) THEN r.ctx.snr_matrix = "freed"
                ELSE Accepted(r.ctx, c)
  <2>0. Content[g].readable
    BY <1>4
  <2>1. GoesOn(x, f, Content[g], per)
    BY <2>0, PreparedBy
  <2>2. PICK y : Prepared(y, f, c) /\ r = LoadLinks(y, c, per)
    BY <2>1 DEF GoesOn
  <2> QED
    BY <1>1, <2>2, LoadLinksLeaves
<1> HIDE DEF r
<1> QED
  BY <1>2, <1>3, <1>4 DEF LoadedAs, r
-----------------------------------------------------------------------------
(* The inductive invariant.                                                *)

\* the addresses of a station are those it was told, each once
Exact(addrs, set) ==
    /\ addrs \in Seq(Addr)
    /\ \A i, k \in 1..Len(addrs) : addrs[i] = addrs[k] => i = k
    /\ \A a \in set : \E k \in 1..Len(addrs) : addrs[k] = a
    /\ \A k \in 1..Len(addrs) : addrs[k] \in set
    /\ IsFiniteSet(set)
    /\ Len(addrs) = Cardinality(set)

ShapeOf(x, t) ==
    /\ DOMAIN x = CtxFields
    /\ x.config_path \in File
    /\ x.stations \in Seq(StationRecord)
    /\ {x.sta_array, x.intf, x.snr_matrix, x.error_prob_matrix} \subseteq Pointer
    /\ DOMAIN t = 1..Len(x.stations)
    /\ \A k \in 1..Len(x.stations) : Exact(x.stations[k].addrs, t[k])

ShapeInv == ShapeOf(ctx, told)

ScalarInv ==
    /\ gen \in Nat
    /\ intf_job \in BOOLEAN /\ dangling \in BOOLEAN
    /\ move_job \in (0..(MaxTime + 1)) \cup {None}
    /\ now \in 0..MaxTime
    /\ moved \in Nat
    /\ fault \in {None, "double free", "use after free", "null pointer",
                  "move job"}
    /\ reply \in {None, "ACK", "INVALID"}

\* what a load or a move leaves, and messages do not disturb
Current(x, c) ==
    /\ c.readable
    /\ x.sta_array = "live" /\ Served(x, c)
    /\ x.intf = IF c.enable_interference THEN "live" ELSE "NULL"
    /\ x.num_stas = Len(c.ids) /\ Len(x.stations) = Len(c.ids)
    /\ DOMAIN x.snr = Pairs(Len(c.ids))

\* the links are those of the file, and only a file that moves has a move job
Linking(x, c, m, set, job) ==
    /\ c.type = "path_loss" => x.path_loss = c.model /\ c.broken = "no"
    /\ Placed(x.stations, c, m)
    /\ Linked(x, c, m, set)
    /\ job # None => c.type = "path_loss" /\ c.moving

FileInv ==
    Running /\ "rewritten" \notin causes =>
        LET c == Content[ctx.config_path] IN
        /\ Current(ctx, c)
        /\ ~dangling
        /\ "interference" \notin causes => intf_job = c.enable_interference
        /\ "moving" \notin causes => Linking(ctx, c, moved, set_snr, move_job)

\* what refers to stations of an earlier generation was queued, or waited,
\* during a reload
BusyInv ==
    /\ dangling => "directions" \in causes
    /\ (\E g \in frames : g # gen) => "busy" \in causes
    /\ callback \notin {None, gen} => "busy" \in causes

IInv ==
    /\ ShapeInv /\ ScalarInv /\ CapturesClosed /\ FileInv /\ BusyInv
    /\ FaultsHaveCauses
-----------------------------------------------------------------------------
(* A configuration that was just loaded.                                   *)

LEMMA EmptyExact == Exact(<<>>, {})
<1>1. IsFiniteSet({}) /\ Cardinality({}) = 0
  BY FS_EmptySet
<1> QED
  BY <1>1 DEF Exact

LEMMA LoadedShape ==
    ASSUME NEW y, NEW f \in File, NEW c, Shaped(y, f, c), Len(c.ids) \in Nat,
           y.snr_matrix \in Pointer
    PROVE  ShapeOf(y, [k \in DOMAIN y.stations |-> {}])
<1> DEFINE t == [k \in DOMAIN y.stations |-> {}]
<1>1. /\ y.stations \in Seq(StationRecord) /\ Len(y.stations) = Len(c.ids)
      /\ \A k \in 1..Len(c.ids) : y.stations[k].addrs = <<>>
  BY DEF Shaped, NewStations
<1>2. DOMAIN y.stations = 1..Len(y.stations)
  BY <1>1, LenProperties
<1>3. DOMAIN t = 1..Len(y.stations) /\ \A k \in 1..Len(y.stations) : t[k] = {}
  BY <1>2
<1>4. \A k \in 1..Len(y.stations) : Exact(y.stations[k].addrs, t[k])
  BY <1>1, <1>3, EmptyExact
<1>5. {y.sta_array, y.intf, y.snr_matrix, y.error_prob_matrix} \subseteq Pointer
  BY DEF Shaped, Pointer
<1> HIDE DEF t
<1>6. ShapeOf(y, t)
  BY <1>1, <1>3, <1>4, <1>5 DEF ShapeOf, Shaped
<1> QED
  BY <1>6 DEF t

LEMMA ClearedIsCleared ==
    ASSUME ShapeInv
    PROVE  Cleared(clear_config(ctx))
BY DEF ShapeInv, ShapeOf, Cleared, clear_config, CtxFields

LEMMA NoCtxIsCleared == Cleared(NoCtx)
BY DEF Cleared, NoCtx, CtxFields

\* a file that is gone when it is read again leaves nothing
LEMMA UnreadShape ==
    ASSUME NEW x, Cleared(x), NEW f \in File
    PROVE  LET y == [x EXCEPT !.config_path = f]
           IN  ShapeOf(y, [k \in DOMAIN y.stations |-> {}])
<1> DEFINE y == [x EXCEPT !.config_path = f]
           t == [k \in DOMAIN y.stations |-> {}]
<1>1. DOMAIN y = CtxFields /\ y.config_path = f /\ y.stations = <<>>
  BY DEF Cleared, CtxFields
<1>2. {y.sta_array, y.intf, y.snr_matrix, y.error_prob_matrix} \subseteq Pointer
  BY DEF Cleared, CtxFields, Pointer
<1>3. y.stations \in Seq(StationRecord) /\ Len(y.stations) = 0
  <2> HIDE DEF y
  <2> QED
    BY <1>1
<1>4. DOMAIN t = 1..Len(y.stations)
  <2>1. DOMAIN y.stations = 1..Len(y.stations)
    BY <1>3, LenProperties
  <2> QED
    BY <2>1
<1> HIDE DEF y, t
<1>5. ShapeOf(y, t)
  BY <1>1, <1>2, <1>3, <1>4 DEF ShapeOf
<1> QED
  BY <1>5 DEF y, t

(***************************************************************************)
(* A file that loads is current, and the move job it adds is its own.      *)
(***************************************************************************)
LEMMA LoadedCurrent ==
    ASSUME NEW y, NEW f, NEW c, c.readable, Shaped(y, f, c), Accepted(y, c),
           NEW job, job # None => AddsJob(c)
    PROVE  Current(y, c) /\ Linking(y, c, 0, NoneSet, job)
<1>1. Current(y, c)
  BY DEF Current, Shaped, Accepted, NewStations
<1>2. Linking(y, c, 0, NoneSet, job)
  BY DEF Linking, Accepted, AddsJob
<1> QED
  BY <1>1, <1>2

LEMMA InitHolds == Init => IInv
<1> SUFFICES ASSUME Init PROVE IInv
  OBVIOUS
<1>1. PICK f \in FirstFile :
        LET first == load_config(NoCtx, f, Content[f], PerFile) IN
        /\ first.result = "ok"
        /\ ctx = first.ctx
        /\ move_job = IF first.adds_job THEN 1 ELSE None
        /\ intf_job = IntfJob(first.ctx)
        /\ told = [k \in DOMAIN first.ctx.stations |-> {}]
  BY DEF Init
<1> DEFINE c == Content[f]
<1>2. f \in File /\ PerFile \in BOOLEAN
  BY FileAssumption
<1>3. LoadedAs(load_config(NoCtx, f, c, PerFile), NoCtx, f, c, PerFile)
  BY <1>2, Loads, NoCtxIsCleared
<1>4. /\ "ok" = ResultOf(c, PerFile)
      /\ move_job = IF AddsJob(c) THEN 1 ELSE None
      /\ c.readable => /\ Shaped(ctx, f, c)
                       /\ IF Refused(c, PerFile) THEN ctx.snr_matrix = "freed"
                          ELSE Accepted(ctx, c)
  BY <1>1, <1>3 DEF LoadedAs
<1>5. c.readable /\ Shaped(ctx, f, c) /\ Accepted(ctx, c)
  BY <1>4 DEF ResultOf
<1>6. IsContent(c) /\ Len(c.ids) \in Nat
  BY <1>2, IdsTyped
<1>7. told = [k \in DOMAIN ctx.stations |-> {}]
  BY <1>1
<1>8. ctx.snr_matrix \in Pointer
  BY <1>5 DEF Accepted, Served, Pointer
<1>9. ShapeInv
  BY <1>2, <1>5, <1>6, <1>7, <1>8, LoadedShape DEF ShapeInv
<1>10. move_job # None => AddsJob(c)
  BY <1>4
<1>11. Current(ctx, c) /\ Linking(ctx, c, 0, NoneSet, move_job)
  BY <1>5, <1>10, LoadedCurrent
<1>12. ctx.config_path = f
  BY <1>5 DEF Shaped
<1>13. intf_job = (ctx.intf = "live")
  BY <1>1 DEF IntfJob
<1>14. c.enable_interference \in BOOLEAN
  BY <1>6 DEF IsContent
<1>15. intf_job = c.enable_interference
  <2>1. ctx.intf = IF c.enable_interference THEN "live" ELSE "NULL"
    BY <1>5 DEF Shaped
  <2>2. CASE c.enable_interference
    BY <1>13, <1>14, <2>1, <2>2
  <2>3. CASE ~c.enable_interference
    BY <1>13, <1>14, <2>1, <2>3
  <2> QED
    BY <2>2, <2>3
<1>16. /\ moved = 0 /\ set_snr = NoneSet /\ ~dangling /\ frames = {}
       /\ callback = None /\ fault = None /\ gen = 0 /\ now = 0 /\ reply = None
       /\ dangling \in BOOLEAN /\ pcap_file = None /\ open_files = {}
  BY DEF Init, NoneSet
<1>17. FileInv
  BY <1>11, <1>12, <1>15, <1>16 DEF FileInv
<1>18. ScalarInv
  <2>1. move_job \in (0..(MaxTime + 1)) \cup {None}
    BY <1>4, BoundAssumption
  <2>2. intf_job \in BOOLEAN
    BY <1>14, <1>15
  <2> QED
    BY <1>16, <2>1, <2>2, BoundAssumption DEF ScalarInv
<1>19. BusyInv /\ CapturesClosed /\ FaultsHaveCauses
  BY <1>16 DEF BusyInv, CapturesClosed, FaultsHaveCauses
<1> QED
  BY <1>9, <1>17, <1>18, <1>19 DEF IInv
-----------------------------------------------------------------------------
(* Steps.                                                                  *)

Faults == {"double free", "use after free", "null pointer", "move job"}

(***************************************************************************)
(* A crash changes nothing but the fault, and has to have a cause.         *)
(***************************************************************************)
LEMMA CrashStep ==
    ASSUME IInv, NEW why \in Faults, Crash(why), causes \subseteq causes',
           Explains(why) \cap causes' # {},
           UNCHANGED <<now, frames, callback, pcap_file, open_files>>
    PROVE  IInv'
<1>1. fault' = why /\ why # None
  BY NoneAssumption DEF Crash, Faults
<1>2. UNCHANGED <<ctx, gen, move_job, intf_job, dangling, reply, set_snr, told,
                  moved>>
  BY DEF Crash, config_vars
<1>3. ShapeInv'
  BY <1>2 DEF IInv, ShapeInv
<1>4. ScalarInv'
  BY <1>1, <1>2 DEF IInv, ScalarInv, Faults
<1>5. CapturesClosed'
  BY DEF IInv, CapturesClosed
<1>6. FileInv'
  BY <1>1 DEF FileInv, Running
<1>7. BusyInv'
  BY <1>2 DEF IInv, BusyInv
<1>8. FaultsHaveCauses'
  BY <1>1 DEF FaultsHaveCauses, Explains
<1> QED
  BY <1>3, <1>4, <1>5, <1>6, <1>7, <1>8 DEF IInv

LEMMA FreedTables ==
    ASSUME NEW y, NEW c, Served(y, c)
    PROVE  ~FreesTwice(y)
BY DEF Served, FreesTwice

(***************************************************************************)
(* While no file changed between its two readings, the tables are live.    *)
(***************************************************************************)
LEMMA TablesLive ==
    ASSUME IInv, fault = None, "rewritten" \notin causes
    PROVE  /\ ctx.snr_matrix = "live" /\ ~FreesTwice(ctx)
           /\ ctx.sta_array = "live" /\ ~dangling
<1>1. Current(ctx, Content[ctx.config_path]) /\ ~dangling
  BY DEF IInv, FileInv, Running
<1>2. Served(ctx, Content[ctx.config_path]) /\ ctx.sta_array = "live"
  BY <1>1 DEF Current
<1> QED
  BY <1>1, <1>2, FreedTables DEF Served

LEMMA CausesAre ==
    ASSUME NEW f \in File, NEW g \in File
    PROVE  /\ ResultOf(Content[f], FALSE) = "fail" => "rejected" \in Causes(f, g)
           /\ AddsJob(Content[f]) \/ AddsJob(Content[g]) =>
                  "directions" \in Causes(f, g)
           /\ Content[f].readable /\ (frames # {} \/ callback # None) =>
                  "busy" \in Causes(f, g)
           /\ Content[f].readable /\ move_job # None => "moving" \in Causes(f, g)
           /\ Content[f].readable /\ intf_job # Content[g].enable_interference =>
                  "interference" \in Causes(f, g)
           /\ f # g => "rewritten" \in Causes(f, g)
<1>1. /\ load_config(NoCtx, f, Content[f], FALSE).result
             = ResultOf(Content[f], FALSE)
      /\ load_config(NoCtx, f, Content[f], FALSE).adds_job = AddsJob(Content[f])
      /\ load_config(NoCtx, g, Content[g], FALSE).adds_job = AddsJob(Content[g])
  <2>1. FALSE \in BOOLEAN
    OBVIOUS
  <2>2. /\ LoadedAs(load_config(NoCtx, f, Content[f], FALSE), NoCtx, f, Content[f],
                    FALSE)
        /\ LoadedAs(load_config(NoCtx, g, Content[g], FALSE), NoCtx, g, Content[g],
                    FALSE)
    BY <2>1, NoCtxIsCleared, Loads
  <2> QED
    BY <2>2 DEF LoadedAs
<1>2. AddsJob(Content[f]) \in BOOLEAN /\ AddsJob(Content[g]) \in BOOLEAN
  BY DEF AddsJob
<1> HIDE DEF AddsJob
<1>3. ResultOf(Content[f], FALSE) = "fail" => "rejected" \in Causes(f, g)
  BY <1>1 DEF Causes
<1>4. AddsJob(Content[f]) \/ AddsJob(Content[g]) => "directions" \in Causes(f, g)
  BY <1>1, <1>2 DEF Causes
<1>5. Content[f].readable /\ (frames # {} \/ callback # None) =>
                  "busy" \in Causes(f, g)
  BY DEF Causes
<1>6. Content[f].readable /\ move_job # None => "moving" \in Causes(f, g)
  BY DEF Causes
<1>7. Content[f].readable /\ intf_job # Content[g].enable_interference =>
                  "interference" \in Causes(f, g)
  BY DEF Causes
<1>8. f # g => "rewritten" \in Causes(f, g)
  BY DEF Causes
<1> QED
  BY <1>3, <1>4, <1>5, <1>6, <1>7, <1>8

(***************************************************************************)
(* The second reading of a file that was found valid: what it loads is     *)
(* current unless the file changed in between, and whatever still refers   *)
(* to the stations before makes the daemon busy.                           *)
(***************************************************************************)
LEMMA CommitStep ==
    ASSUME IInv, fault = None, NEW f \in File, NEW g \in File,
           ResultOf(Content[f], FALSE) = "ok",
           causes' = causes \cup Causes(f, g),
           NEW main, LoadedAs(main, clear_config(ctx), f, Content[g], FALSE),
           ~(main.adds_job /\ AddsJob(Content[f])),
           Commit(main.ctx, main.adds_job, AddsJob(Content[f])),
           UNCHANGED <<now, frames, callback, pcap_file, open_files>>
    PROVE  IInv'
<1> DEFINE cf == Content[f]
           cg == Content[g]
<1>1. /\ ctx' = main.ctx /\ gen' = gen + 1
      /\ move_job' = IF main.adds_job THEN 1 ELSE move_job
      /\ dangling' = (dangling \/ AddsJob(cf))
      /\ reply' = "ACK"
      /\ set_snr' = NoneSet
      /\ told' = [k \in DOMAIN ctx'.stations |-> {}]
      /\ moved' = 0
      /\ intf_job' = intf_job /\ fault' = None
  BY DEF Commit, Fresh, NoneSet
<1>2. /\ main.result = ResultOf(cg, FALSE)
      /\ main.adds_job = AddsJob(cg)
      /\ ~cg.readable => ctx' = [clear_config(ctx) EXCEPT !.config_path = f]
      /\ cg.readable => /\ Shaped(ctx', f, cg)
                        /\ IF Refused(cg, FALSE) THEN ctx'.snr_matrix = "freed"
                           ELSE Accepted(ctx', cg)
  BY <1>1 DEF LoadedAs
<1>3. IsContent(cf) /\ IsContent(cg) /\ Len(cg.ids) \in Nat
  BY IdsTyped
<1>4. cf.readable /\ ~Refused(cf, FALSE)
  BY DEF ResultOf
<1>5. ShapeInv'
  <2>1. CASE cg.readable
    <3>1. ctx'.snr_matrix \in Pointer
      BY <1>2, <2>1 DEF Accepted, Served, Pointer
    <3> QED
      BY <1>1, <1>2, <1>3, <2>1, <3>1, LoadedShape DEF ShapeInv
  <2>2. CASE ~cg.readable
    <3>1. Cleared(clear_config(ctx))
      BY ClearedIsCleared DEF IInv
    <3>2. ctx' = [clear_config(ctx) EXCEPT !.config_path = f]
      BY <1>2, <2>2
    <3>3. ShapeOf(ctx', [k \in DOMAIN ctx'.stations |-> {}])
      BY <3>1, <3>2, UnreadShape
    <3> QED
      BY <1>1, <3>3 DEF ShapeInv
  <2> QED
    BY <2>1, <2>2
<1>6. ScalarInv'
  <2>1. AddsJob(cf) \in BOOLEAN
    BY DEF AddsJob
  <2>2. move_job' \in (0..(MaxTime + 1)) \cup {None}
    BY <1>1, BoundAssumption DEF IInv, ScalarInv
  <2> QED
    BY <1>1, <2>1, <2>2 DEF IInv, ScalarInv
<1>7. CapturesClosed'
  BY DEF IInv, CapturesClosed
<1>8. BusyInv'
  <2>1. dangling' => "directions" \in causes'
    BY <1>1, CausesAre DEF IInv, BusyInv
  <2>2. frames # {} \/ callback # None => "busy" \in causes'
    BY <1>4, CausesAre
  <2> QED
    BY <2>1, <2>2 DEF BusyInv
<1>9. FaultsHaveCauses'
  BY <1>1 DEF FaultsHaveCauses
<1>10. FileInv'
  <2>1. SUFFICES ASSUME "rewritten" \notin causes'
                 PROVE  /\ Current(ctx', Content[ctx'.config_path])
                        /\ ~dangling'
                        /\ "interference" \notin causes' =>
                              intf_job' = Content[ctx'.config_path].enable_interference
                        /\ "moving" \notin causes' =>
                              Linking(ctx', Content[ctx'.config_path], moved',
                                      set_snr', move_job')
    BY DEF FileInv
  <2>2. f = g /\ "rewritten" \notin causes
    BY <2>1, CausesAre
  <2>3. cg.readable /\ Shaped(ctx', f, cg) /\ Accepted(ctx', cg)
    BY <1>2, <1>4, <2>2
  <2>4. ctx'.config_path = f /\ Content[ctx'.config_path] = cg
    BY <2>2, <2>3 DEF Shaped
  <2>5. ~AddsJob(cg) /\ ~AddsJob(cf)
    BY <1>2, <2>2
  <2>6. ~dangling'
    BY <1>1, <2>2, <2>5, TablesLive
  <2>7. ASSUME "moving" \notin causes' PROVE move_job' = None
    <3>1. move_job = None
      BY <1>4, <2>7, CausesAre
    <3> QED
      BY <1>1, <1>2, <2>5, <3>1
  <2>8. Current(ctx', cg)
    BY <2>3 DEF Current, Shaped, Accepted, NewStations
  <2>9. ASSUME "moving" \notin causes'
        PROVE  Linking(ctx', cg, moved', set_snr', move_job')
    BY <1>1, <2>3, <2>7, <2>9, LoadedCurrent
  <2>10. "interference" \notin causes' => intf_job' = cg.enable_interference
    BY <1>1, <1>4, CausesAre
  <2> QED
    BY <2>4, <2>6, <2>8, <2>9, <2>10
<1> QED
  BY <1>5, <1>6, <1>7, <1>8, <1>9, <1>10 DEF IInv

LEMMA ReloadStep ==
    ASSUME IInv, fault = None, NEW f \in File, Reload(f)
    PROVE  IInv'
<1>1. PICK g \in {f} \cup RewrittenAs :
        causes' = causes \cup Causes(f, g) /\ Revalidated(f, g)
  BY DEF Reload
<1>2. UNCHANGED <<now, frames, callback, pcap_file, open_files>>
  BY DEF Reload
<1>3. g \in File /\ FALSE \in BOOLEAN
  BY FileAssumption
<1> DEFINE trial == load_config(NoCtx, f, Content[f], FALSE)
           main == load_config(clear_config(ctx), f, Content[g], FALSE)
           cf == Content[f]
<1>4. LoadedAs(trial, NoCtx, f, cf, FALSE)
  BY <1>3, NoCtxIsCleared, Loads
<1>5. LoadedAs(main, clear_config(ctx), f, Content[g], FALSE)
  <2>1. Cleared(clear_config(ctx))
    BY ClearedIsCleared DEF IInv
  <2> QED
    BY <1>3, <2>1, Loads
<1>6. /\ trial.result = ResultOf(cf, FALSE) /\ trial.adds_job = AddsJob(cf)
      /\ main.adds_job = AddsJob(Content[g])
  BY <1>4, <1>5 DEF LoadedAs
<1>7. FreesTwice(trial.ctx) <=> ResultOf(cf, FALSE) = "fail"
  <2>1. CASE ~cf.readable
    <3>1. trial.ctx = [NoCtx EXCEPT !.config_path = f]
      BY <1>4, <2>1 DEF LoadedAs
    <3>2. ~FreesTwice(trial.ctx)
      BY <3>1 DEF NoCtx, FreesTwice
    <3> QED
      BY <2>1, <3>2 DEF ResultOf
  <2>2. CASE cf.readable /\ Refused(cf, FALSE)
    <3>1. trial.ctx.snr_matrix = "freed"
      BY <1>4, <2>2 DEF LoadedAs
    <3> QED
      BY <2>2, <3>1 DEF ResultOf, FreesTwice
  <2>3. CASE cf.readable /\ ~Refused(cf, FALSE)
    <3>1. Served(trial.ctx, cf)
      BY <1>4, <2>3 DEF LoadedAs, Accepted
    <3>2. ~FreesTwice(trial.ctx)
      BY <3>1, FreedTables
    <3> QED
      BY <2>3, <3>2 DEF ResultOf
  <2> QED
    BY <2>1, <2>2, <2>3
<1> DEFINE clash == now > 1 \/ move_job # None \/ trial.adds_job \/ dangling
<1>8. IF trial.adds_job /\ now > 1 THEN Crash("move job")
      ELSE IF FreesTwice(trial.ctx) THEN Crash("double free")
      ELSE IF trial.result = "error"
      THEN /\ reply' = "INVALID"
           /\ UNCHANGED <<config_vars, fault, set_snr, told, moved>>
      ELSE IF FreesTwice(ctx) THEN Crash("double free")
      ELSE IF main.adds_job /\ clash THEN Crash("move job")
      ELSE Commit(main.ctx, main.adds_job, trial.adds_job)
  BY <1>1 DEF Revalidated
<1> HIDE DEF trial, main, clash
<1>9. /\ AddsJob(cf) \/ AddsJob(Content[g]) => "directions" \in causes'
      /\ ResultOf(cf, FALSE) = "fail" => "rejected" \in causes'
      /\ causes \subseteq causes'
  BY <1>1, <1>3, CausesAre
<1>10. /\ Explains("move job") = {"directions"}
       /\ Explains("double free") = {"rejected", "rewritten"}
       /\ {"move job", "double free"} \subseteq Faults
  BY DEF Explains, Faults
<1>11. CASE Crash("move job") /\ (trial.adds_job \/ main.adds_job)
  BY <1>2, <1>6, <1>9, <1>10, <1>11, CrashStep
<1>12. CASE Crash("double free") /\ (FreesTwice(trial.ctx) \/ FreesTwice(ctx))
  <2>1. {"rejected", "rewritten"} \cap causes' # {}
    BY <1>7, <1>9, <1>12, TablesLive
  <2> QED
    BY <1>2, <1>9, <1>10, <1>12, <2>1, CrashStep
<1>13. CASE /\ reply' = "INVALID"
            /\ UNCHANGED <<config_vars, fault, set_snr, told, moved>>
  <2>1. UNCHANGED <<ctx, gen, move_job, intf_job, dangling, fault, set_snr, told,
                    moved>>
    BY <1>13 DEF config_vars
  <2>2. ShapeInv' /\ CapturesClosed'
    BY <1>2, <2>1 DEF IInv, ShapeInv, CapturesClosed
  <2>3. ScalarInv'
    BY <1>2, <1>13, <2>1 DEF IInv, ScalarInv
  <2>4. FileInv'
    BY <1>9, <2>1 DEF IInv, FileInv, Running
  <2>5. BusyInv' /\ FaultsHaveCauses'
    BY <1>2, <1>9, <2>1 DEF IInv, BusyInv, FaultsHaveCauses
  <2> QED
    BY <2>2, <2>3, <2>4, <2>5 DEF IInv
<1>14. CASE /\ Commit(main.ctx, main.adds_job, trial.adds_job)
            /\ ~FreesTwice(trial.ctx) /\ trial.result # "error"
            /\ ~(main.adds_job /\ clash)
  <2>1. ResultOf(cf, FALSE) = "ok"
    BY <1>6, <1>7, <1>14 DEF ResultOf
  <2>2. ~(main.adds_job /\ AddsJob(cf))
    BY <1>6, <1>14 DEF clash
  <2>3. Commit(main.ctx, main.adds_job, AddsJob(cf))
    BY <1>6, <1>14
  <2> QED
    BY <1>1, <1>2, <1>3, <1>5, <2>1, <2>2, <2>3, CommitStep
<1> QED
  BY <1>8, <1>11, <1>12, <1>13, <1>14
-----------------------------------------------------------------------------
(* Addresses.                                                              *)

LEMMA AppendExact ==
    ASSUME NEW s, NEW S, Exact(s, S), NEW a \in Addr,
           \A k \in 1..Len(s) : s[k] # a
    PROVE  Exact(Append(s, a), S \cup {a})
<1> DEFINE t == Append(s, a)
<1>1. s \in Seq(Addr) /\ Len(s) \in Nat /\ IsFiniteSet(S) /\ Len(s) = Cardinality(S)
  BY LenProperties DEF Exact
<1>2. /\ t \in Seq(Addr) /\ Len(t) = Len(s) + 1
      /\ \A k \in 1..Len(s) : t[k] = s[k]
      /\ t[Len(s) + 1] = a
  BY <1>1, AppendProperties
<1>3. a \notin S
  BY DEF Exact
<1>4. IsFiniteSet(S \cup {a}) /\ Cardinality(S \cup {a}) = Cardinality(S) + 1
  BY <1>1, <1>3, FS_AddElement
<1> HIDE DEF t
<1>5. ASSUME NEW i \in 1..Len(t), NEW k \in 1..Len(t), t[i] = t[k]
      PROVE  i = k
  BY <1>1, <1>2, <1>5 DEF Exact
<1>6. ASSUME NEW b \in S \cup {a} PROVE \E k \in 1..Len(t) : t[k] = b
  <2>1. CASE b = a
    BY <1>1, <1>2, <2>1
  <2>2. CASE b \in S
    <3>1. PICK k \in 1..Len(s) : s[k] = b
      BY <2>2 DEF Exact
    <3> QED
      BY <1>1, <1>2, <3>1
  <2> QED
    BY <2>1, <2>2
<1>7. ASSUME NEW k \in 1..Len(t) PROVE t[k] \in S \cup {a}
  BY <1>1, <1>2 DEF Exact
<1>8. Exact(t, S \cup {a})
  BY <1>1, <1>2, <1>4, <1>5, <1>6, <1>7 DEF Exact
<1> QED
  BY <1>8 DEF t

(***************************************************************************)
(* Deleting an address puts the last one in its place: no other is lost.   *)
(***************************************************************************)
LEMMA WithoutExact ==
    ASSUME NEW s, NEW S, Exact(s, S), NEW n \in 1..Len(s)
    PROVE  Exact(Without(s, n), S \ {s[n]})
<1> DEFINE N == Len(s)
           u == [s EXCEPT ![n] = s[N]]
           t == Without(s, n)
<1>1. s \in Seq(Addr) /\ N \in Nat /\ IsFiniteSet(S) /\ N = Cardinality(S)
      /\ DOMAIN s = 1..N /\ \A k \in 1..N : s[k] \in Addr
  BY LenProperties, ElementOfSeq DEF Exact
<1>2. N >= 1 /\ N \in 1..N
  BY <1>1
<1>3. /\ u \in Seq(Addr) /\ Len(u) = N
      /\ \A k \in 1..N : u[k] = IF k = n THEN s[N] ELSE s[k]
  BY <1>1, <1>2, ExceptSeq
<1>4. t = SubSeq(u, 1, N - 1)
  BY <1>3 DEF Without, Front, Last
<1>5. /\ t \in Seq(Addr) /\ Len(t) = N - 1
      /\ \A k \in 1..(N - 1) : t[k] = u[k]
  <2> HIDE DEF u, t
  <2>1. \A k \in 1..(N - 1) : u[k] \in Addr
    BY <1>1, <1>2, <1>3
  <2>2. /\ SubSeq(u, 1, N - 1) \in Seq(Addr)
        /\ Len(SubSeq(u, 1, N - 1)) = IF 1 <= N - 1 THEN (N - 1) - 1 + 1 ELSE 0
        /\ \A k \in 1..((N - 1) - 1 + 1) : SubSeq(u, 1, N - 1)[k] = u[1 + k - 1]
    BY <1>1, <1>2, <1>3, <2>1, SubSeqProperties
  <2> QED
    BY <1>2, <1>1, <1>4, <2>2
<1>6. s[n] \in S
  BY DEF Exact
<1>7. IsFiniteSet(S \ {s[n]}) /\ Cardinality(S \ {s[n]}) = Cardinality(S) - 1
  BY <1>1, <1>6, FS_RemoveElement
<1>8. \A i, k \in 1..N : s[i] = s[k] => i = k
  BY DEF Exact
<1> HIDE DEF u, t
<1>9. \A k \in 1..(N - 1) : t[k] = IF k = n THEN s[N] ELSE s[k]
  BY <1>1, <1>3, <1>5
<1>10. ASSUME NEW i \in 1..Len(t), NEW k \in 1..Len(t), t[i] = t[k]
       PROVE  i = k
  BY <1>1, <1>5, <1>8, <1>9, <1>10
<1>11. ASSUME NEW b \in S \ {s[n]} PROVE \E k \in 1..Len(t) : t[k] = b
  <2>1. PICK k \in 1..N : s[k] = b
    BY DEF Exact
  <2>2. CASE k = N
    <3>1. n # N
      BY <1>11, <2>1, <2>2
    <3> QED
      BY <1>1, <1>5, <1>9, <2>1, <2>2, <3>1
  <2>3. CASE k # N
    <3>1. k # n
      BY <1>11, <2>1
    <3> QED
      BY <1>1, <1>5, <1>9, <2>1, <2>3, <3>1
  <2> QED
    BY <2>2, <2>3
<1>12. ASSUME NEW k \in 1..Len(t) PROVE t[k] \in S \ {s[n]}
  <2>1. k \in 1..(N - 1) /\ t[k] = IF k = n THEN s[N] ELSE s[k]
    BY <1>5, <1>9
  <2>2. s[k] \in S /\ s[N] \in S
    BY <1>1, <1>2, <2>1 DEF Exact
  <2>3. t[k] # s[n]
    BY <1>1, <1>2, <1>8, <2>1
  <2> QED
    BY <2>1, <2>2, <2>3
<1>13. Exact(t, S \ {s[n]})
  BY <1>1, <1>5, <1>7, <1>10, <1>11, <1>12 DEF Exact
<1> QED
  BY <1>13 DEF t

LEMMA StationByAddr ==
    ASSUME ctx.stations \in Seq(StationRecord), NEW a, get_station_by_addr(a) # 0
    PROVE  /\ get_station_by_addr(a) \in 1..Len(ctx.stations)
           /\ ctx.stations[get_station_by_addr(a)].addr = a
<1> DEFINE I == {i \in 1..Len(ctx.stations) : ctx.stations[i].addr = a}
<1>1. get_station_by_addr(a) = IF I # {} THEN Min(I) ELSE 0
  BY DEF get_station_by_addr, SelectInSeq
<1>2. I # {} /\ I \subseteq Nat /\ get_station_by_addr(a) = Min(I)
  BY <1>1, LenProperties
<1> HIDE DEF I
<1>3. \E x \in I : \A y \in I : x <= y
  BY <1>2, FirstPosition
<1>4. Min(I) \in I
  BY <1>3 DEF Min
<1> QED
  BY <1>2, <1>4 DEF I

LEMMA StationByUsedAddr ==
    ASSUME ctx.stations \in Seq(StationRecord), NEW a,
           get_station_by_used_addr(a) # 0
    PROVE  get_station_by_used_addr(a) \in 1..Len(ctx.stations)
<1> DEFINE I == {i \in 1..Len(ctx.stations) :
                    station_has_addr(ctx.stations[i], a)}
<1>1. get_station_by_used_addr(a) = IF I # {} THEN Min(I) ELSE 0
  BY DEF get_station_by_used_addr, SelectInSeq
<1>2. I # {} /\ I \subseteq Nat /\ get_station_by_used_addr(a) = Min(I)
  BY <1>1, LenProperties
<1> HIDE DEF I
<1>3. \E x \in I : \A y \in I : x <= y
  BY <1>2, FirstPosition
<1>4. Min(I) \in I
  BY <1>3 DEF Min
<1> QED
  BY <1>2, <1>4 DEF I

LEMMA PlaceOfAddr ==
    ASSUME NEW s \in Seq(Addr), NEW a
    PROVE  LET n == SelectInSeq(s, LAMBDA b : b = a)
           IN  IF n = 0 THEN \A k \in 1..Len(s) : s[k] # a
               ELSE n \in 1..Len(s) /\ s[n] = a
<1> DEFINE I == {i \in 1..Len(s) : s[i] = a}
           n == SelectInSeq(s, LAMBDA b : b = a)
<1>1. n = IF I # {} THEN Min(I) ELSE 0
  BY DEF SelectInSeq
<1>2. I \subseteq Nat /\ 0 \notin I
  BY LenProperties
<1> HIDE DEF n
<1>3. CASE I = {}
  BY <1>1, <1>3 DEF n
<1>4. CASE I # {}
  <2> HIDE DEF I
  <2>1. \E x \in I : \A y \in I : x <= y
    BY <1>2, <1>4, FirstPosition
  <2>2. Min(I) \in I
    BY <2>1 DEF Min
  <2> QED
    BY <1>1, <1>2, <1>4, <2>2 DEF I, n
<1> QED
  BY <1>3, <1>4
-----------------------------------------------------------------------------
(* A message that changes one station.                                     *)

\* station k becomes st and is told what st says
Edits(k, st) ==
    /\ k \in 1..Len(ctx.stations) /\ st \in StationRecord
    /\ st.x = ctx.stations[k].x /\ st.dir = ctx.stations[k].dir
    /\ st.tx_power = ctx.stations[k].tx_power
    /\ ctx' = [ctx EXCEPT !.stations = [ctx.stations EXCEPT ![k] = st]]
    /\ DOMAIN told' = DOMAIN told /\ Exact(st.addrs, told'[k])
    /\ \A i \in DOMAIN told : i # k => told'[i] = told[i]
    /\ UNCHANGED <<move_job, intf_job, dangling, fault, set_snr, moved, causes>>

LEMMA SameLinked ==
    ASSUME NEW y, NEW z, NEW c, NEW m, NEW set, Linked(y, c, m, set),
           z.snr = y.snr, z.prob = y.prob
    PROVE  Linked(z, c, m, set)
BY DEF Linked

(***************************************************************************)
(* A station may change in everything but its place, its direction and its *)
(* power without the tables or the links getting out of step.              *)
(***************************************************************************)
LEMMA StationEdited ==
    ASSUME IInv, NEW k, NEW st, Edits(k, st)
    PROVE  ShapeInv' /\ FileInv'
<1> DEFINE new == [ctx.stations EXCEPT ![k] = st]
           n == Len(ctx.stations)
<1>0. /\ k \in 1..Len(ctx.stations) /\ st \in StationRecord
      /\ st.x = ctx.stations[k].x /\ st.dir = ctx.stations[k].dir
      /\ st.tx_power = ctx.stations[k].tx_power
      /\ ctx' = [ctx EXCEPT !.stations = new]
      /\ DOMAIN told' = DOMAIN told /\ Exact(st.addrs, told'[k])
      /\ \A i \in DOMAIN told : i # k => told'[i] = told[i]
      /\ UNCHANGED <<move_job, intf_job, dangling, fault, set_snr, moved, causes>>
  BY DEF Edits
<1>1. /\ DOMAIN ctx = CtxFields /\ ctx.config_path \in File
      /\ ctx.stations \in Seq(StationRecord)
      /\ {ctx.sta_array, ctx.intf, ctx.snr_matrix, ctx.error_prob_matrix}
            \subseteq Pointer
      /\ DOMAIN told = 1..n
      /\ \A i \in 1..n : Exact(ctx.stations[i].addrs, told[i])
  BY DEF IInv, ShapeInv, ShapeOf
<1>2. /\ new \in Seq(StationRecord) /\ Len(new) = n
      /\ \A i \in 1..n : new[i] = IF i = k THEN st ELSE ctx.stations[i]
  BY <1>0, <1>1, ExceptSeq
<1> HIDE DEF new, n
<1>3. /\ DOMAIN ctx' = CtxFields /\ ctx'.stations = new
      /\ ctx'.config_path = ctx.config_path /\ ctx'.num_stas = ctx.num_stas
      /\ ctx'.sta_array = ctx.sta_array /\ ctx'.intf = ctx.intf
      /\ ctx'.snr_matrix = ctx.snr_matrix
      /\ ctx'.error_prob_matrix = ctx.error_prob_matrix
      /\ ctx'.snr = ctx.snr /\ ctx'.prob = ctx.prob
      /\ ctx'.get_link_snr = ctx.get_link_snr
      /\ ctx'.get_error_prob = ctx.get_error_prob
      /\ ctx'.path_loss = ctx.path_loss
  BY <1>0, <1>1 DEF CtxFields
<1>4. \A i \in 1..n : Exact(new[i].addrs, told'[i])
  BY <1>0, <1>1, <1>2
<1>5. ShapeInv'
  BY <1>0, <1>1, <1>2, <1>3, <1>4 DEF ShapeInv, ShapeOf
<1>6. \A i \in 1..n : /\ new[i].x = ctx.stations[i].x
                      /\ new[i].dir = ctx.stations[i].dir
                      /\ new[i].tx_power = ctx.stations[i].tx_power
  BY <1>0, <1>2
<1>7. ASSUME NEW c, Current(ctx, c) PROVE Current(ctx', c)
  BY <1>2, <1>3, <1>7 DEF Current, Served, n
<1>8. ASSUME NEW c, Current(ctx, c), Linking(ctx, c, moved, set_snr, move_job)
      PROVE  Linking(ctx', c, moved, set_snr, move_job)
  <2>1. Len(c.ids) = n
    BY <1>8 DEF Current, n
  <2>2. Placed(ctx'.stations, c, moved)
    BY <1>3, <1>6, <1>8, <2>1 DEF Placed, Linking
  <2>3. Linked(ctx', c, moved, set_snr)
    BY <1>3, <1>8, SameLinked DEF Linking
  <2> QED
    BY <1>3, <1>8, <2>2, <2>3 DEF Linking
<1>9. FileInv'
  <2>1. SUFFICES ASSUME fault = None, "rewritten" \notin causes
                 PROVE  LET c == Content[ctx.config_path] IN
                        /\ Current(ctx', c)
                        /\ ~dangling
                        /\ "interference" \notin causes => intf_job = c.enable_interference
                        /\ "moving" \notin causes =>
                              Linking(ctx', c, moved, set_snr, move_job)
    BY <1>0, <1>3 DEF FileInv, Running
  <2> DEFINE c == Content[ctx.config_path]
  <2>2. /\ Current(ctx, c) /\ ~dangling
        /\ "interference" \notin causes => intf_job = c.enable_interference
        /\ "moving" \notin causes => Linking(ctx, c, moved, set_snr, move_job)
    BY <2>1 DEF IInv, FileInv, Running
  <2> HIDE DEF c
  <2>3. Current(ctx', c)
    BY <1>7, <2>2
  <2>4. "moving" \notin causes => Linking(ctx', c, moved, set_snr, move_job)
    BY <1>8, <2>2
  <2> QED
    BY <2>2, <2>3, <2>4 DEF c
<1> QED
  BY <1>5, <1>9

(***************************************************************************)
(* The parts of the invariant that do not look at the configuration.       *)
(***************************************************************************)
LEMMA RestKept ==
    ASSUME IInv, fault = None,
           UNCHANGED <<gen, move_job, intf_job, dangling, now, callback,
                       pcap_file, open_files, fault, moved, causes>>,
           frames' \subseteq frames \cup {gen},
           reply' \in {None, "ACK", "INVALID"}
    PROVE  ScalarInv' /\ CapturesClosed' /\ BusyInv' /\ FaultsHaveCauses'
<1>1. ScalarInv'
  BY DEF IInv, ScalarInv
<1>2. CapturesClosed' /\ FaultsHaveCauses'
  BY DEF IInv, CapturesClosed, FaultsHaveCauses
<1>3. BusyInv'
  BY DEF IInv, BusyInv
<1> QED
  BY <1>1, <1>2, <1>3

LEMMA AddMacAddrStep ==
    ASSUME IInv, fault = None, NEW hwaddr, NEW a \in Addr, AddMacAddr(hwaddr, a)
    PROVE  IInv'
<1> DEFINE k == get_station_by_addr(hwaddr)
           old == ctx.stations[k]
           st == [old EXCEPT !.addrs = Append(@, a)]
<1>1. /\ k # 0
      /\ ctx' = IF a \in Range(old.addrs) THEN ctx
                ELSE [ctx EXCEPT !.stations[k].addrs = Append(@, a)]
      /\ told' = [told EXCEPT ![k] = @ \cup {a}]
      /\ UNCHANGED <<gen, move_job, intf_job, dangling, now, frames, callback,
                   pcap_file, open_files, reply, fault, causes, set_snr, moved>>
  BY DEF AddMacAddr
<1>2. /\ ctx.stations \in Seq(StationRecord) /\ DOMAIN ctx = CtxFields
      /\ DOMAIN told = 1..Len(ctx.stations)
      /\ \A i \in 1..Len(ctx.stations) : Exact(ctx.stations[i].addrs, told[i])
  BY DEF IInv, ShapeInv, ShapeOf
<1>3. k \in 1..Len(ctx.stations)
  BY <1>1, <1>2, StationByAddr
<1> HIDE DEF k
<1>4. old \in StationRecord /\ DOMAIN ctx.stations = 1..Len(ctx.stations)
  BY <1>2, <1>3, ElementOfSeq, LenProperties
<1>5. old.addrs \in Seq(Addr) /\ Exact(old.addrs, told[k])
      /\ DOMAIN old.addrs = 1..Len(old.addrs)
  BY <1>2, <1>3, LenProperties DEF Exact
<1>6. /\ told'[k] = told[k] \cup {a} /\ DOMAIN told' = DOMAIN told
      /\ \A i \in DOMAIN told : i # k => told'[i] = told[i]
  BY <1>1, <1>2, <1>3
<1>7. ScalarInv' /\ CapturesClosed' /\ BusyInv' /\ FaultsHaveCauses'
  <2>1. reply \in {None, "ACK", "INVALID"}
    BY DEF IInv, ScalarInv
  <2> QED
    BY <1>1, <2>1, RestKept
<1>8. CASE a \in Range(old.addrs)
  <2>1. ctx' = ctx
    BY <1>1, <1>8
  <2>2. a \in told[k]
    BY <1>5, <1>8 DEF Exact, Range
  <2>3. told'[k] = told[k]
    BY <1>6, <2>2
  <2>4. \A i \in 1..Len(ctx.stations) : told'[i] = told[i]
    BY <1>2, <1>6, <2>3
  <2>5. ShapeInv'
    <3>1. ShapeOf(ctx, told)
      BY DEF IInv, ShapeInv
    <3>2. ShapeOf(ctx, told')
      BY <1>2, <1>6, <2>4, <3>1 DEF ShapeOf
    <3> QED
      BY <2>1, <3>2 DEF ShapeInv
  <2>6. FileInv'
    BY <1>1, <2>1 DEF IInv, FileInv, Running
  <2> QED
    BY <1>7, <2>5, <2>6 DEF IInv
<1>9. CASE a \notin Range(old.addrs)
  <2>1. ctx' = [ctx EXCEPT !.stations = [ctx.stations EXCEPT ![k] = st]]
    BY <1>1, <1>2, <1>3, <1>4, <1>9
  <2>2. \A i \in 1..Len(old.addrs) : old.addrs[i] # a
    BY <1>5, <1>9 DEF Range
  <2>3. Exact(Append(old.addrs, a), told'[k])
    BY <1>5, <1>6, <2>2, AppendExact
  <2>4. Append(old.addrs, a) \in Seq(Addr)
    BY <2>3 DEF Exact
  <2>5. /\ st \in StationRecord /\ st.addrs = Append(old.addrs, a)
        /\ st.x = old.x /\ st.dir = old.dir /\ st.tx_power = old.tx_power
    BY <1>4, <2>4 DEF StationRecord
  <2> HIDE DEF st
  <2>6. ShapeInv' /\ FileInv'
    <3>1. Edits(k, st)
      BY <1>1, <1>3, <1>6, <2>1, <2>3, <2>5 DEF Edits
    <3> QED
      BY <3>1, StationEdited
  <2> QED
    BY <1>7, <2>6 DEF IInv
<1> QED
  BY <1>8, <1>9

LEMMA DelMacAddrStep ==
    ASSUME IInv, fault = None, NEW hwaddr, NEW a \in Addr, DelMacAddr(hwaddr, a)
    PROVE  IInv'
<1> DEFINE k == get_station_by_addr(hwaddr)
           old == ctx.stations[k]
           n == SelectInSeq(old.addrs, LAMBDA b : b = a)
           st == [old EXCEPT !.addrs = Without(@, n)]
<1>1. /\ k # 0
      /\ ctx' = IF n = 0 THEN ctx
                ELSE [ctx EXCEPT !.stations[k].addrs = Without(@, n)]
      /\ told' = [told EXCEPT ![k] = @ \ {a}]
      /\ UNCHANGED <<gen, move_job, intf_job, dangling, now, frames, callback,
                   pcap_file, open_files, reply, fault, causes, set_snr, moved>>
  BY DEF DelMacAddr
<1>2. /\ ctx.stations \in Seq(StationRecord) /\ DOMAIN ctx = CtxFields
      /\ DOMAIN told = 1..Len(ctx.stations)
      /\ \A i \in 1..Len(ctx.stations) : Exact(ctx.stations[i].addrs, told[i])
  BY DEF IInv, ShapeInv, ShapeOf
<1>3. k \in 1..Len(ctx.stations)
  BY <1>1, <1>2, StationByAddr
<1> HIDE DEF k
<1>4. old \in StationRecord /\ DOMAIN ctx.stations = 1..Len(ctx.stations)
  BY <1>2, <1>3, ElementOfSeq, LenProperties
<1>5. old.addrs \in Seq(Addr) /\ Exact(old.addrs, told[k])
  BY <1>2, <1>3 DEF Exact
<1>6. /\ told'[k] = told[k] \ {a} /\ DOMAIN told' = DOMAIN told
      /\ \A i \in DOMAIN told : i # k => told'[i] = told[i]
  BY <1>1, <1>2, <1>3
<1>7. ScalarInv' /\ CapturesClosed' /\ BusyInv' /\ FaultsHaveCauses'
  <2>1. reply \in {None, "ACK", "INVALID"}
    BY DEF IInv, ScalarInv
  <2> QED
    BY <1>1, <2>1, RestKept
<1>8. IF n = 0 THEN \A i \in 1..Len(old.addrs) : old.addrs[i] # a
      ELSE n \in 1..Len(old.addrs) /\ old.addrs[n] = a
  BY <1>5, PlaceOfAddr
<1> HIDE DEF n
<1>9. CASE n = 0
  <2>1. ctx' = ctx
    BY <1>1, <1>9
  <2>2. a \notin told[k]
    BY <1>5, <1>8, <1>9 DEF Exact
  <2>3. told'[k] = told[k]
    BY <1>6, <2>2
  <2>4. \A i \in 1..Len(ctx.stations) : told'[i] = told[i]
    BY <1>2, <1>6, <2>3
  <2>5. ShapeInv'
    <3>1. ShapeOf(ctx, told)
      BY DEF IInv, ShapeInv
    <3>2. ShapeOf(ctx, told')
      BY <1>2, <1>6, <2>4, <3>1 DEF ShapeOf
    <3> QED
      BY <2>1, <3>2 DEF ShapeInv
  <2>6. FileInv'
    BY <1>1, <2>1 DEF IInv, FileInv, Running
  <2> QED
    BY <1>7, <2>5, <2>6 DEF IInv
<1>10. CASE n # 0
  <2>1. ctx' = [ctx EXCEPT !.stations = [ctx.stations EXCEPT ![k] = st]]
    BY <1>1, <1>2, <1>3, <1>4, <1>10
  <2>2. Exact(Without(old.addrs, n), told'[k])
    BY <1>5, <1>6, <1>8, <1>10, WithoutExact
  <2>3. Without(old.addrs, n) \in Seq(Addr)
    BY <2>2 DEF Exact
  <2>4. /\ st \in StationRecord /\ st.addrs = Without(old.addrs, n)
        /\ st.x = old.x /\ st.dir = old.dir /\ st.tx_power = old.tx_power
    BY <1>4, <2>3 DEF StationRecord
  <2> HIDE DEF st
  <2>5. Edits(k, st)
    BY <1>1, <1>3, <1>6, <2>1, <2>2, <2>4 DEF Edits
  <2>6. ShapeInv' /\ FileInv'
    BY <2>5, StationEdited
  <2> QED
    BY <1>7, <2>6 DEF IInv
<1> QED
  BY <1>9, <1>10

(***************************************************************************)
(* A frame teaches the daemon the radio and the client of its station, and *)
(* refers to the stations as they are now.                                 *)
(***************************************************************************)
LEMMA ProcessFrameStep ==
    ASSUME IInv, fault = None, NEW cl \in Client, NEW hwaddr \in AllAddr,
           NEW src \in AllAddr, ProcessFrame(cl, hwaddr, src)
    PROVE  IInv'
<1> DEFINE h == get_station_by_addr(hwaddr)
           k == IF h # 0 THEN h ELSE get_station_by_used_addr(src)
           old == ctx.stations[k]
           hw == IF h = 0 THEN hwaddr ELSE old.hwaddr
           own == IF old.client = None THEN cl ELSE old.client
           st == [old EXCEPT !.hwaddr = hw, !.client = own]
<1>1. /\ k # 0
      /\ UNCHANGED <<now, callback, pcap_file, open_files, causes>>
      /\ IF dangling THEN Crash("move job") /\ UNCHANGED frames
         ELSE IF ctx.get_link_snr = "matrix" /\ ctx.snr_matrix # "live"
         THEN Crash("use after free") /\ UNCHANGED frames
         ELSE /\ frames' = {gen}
              /\ ctx' = [ctx EXCEPT
                      !.stations[k].hwaddr = IF h = 0 THEN hwaddr ELSE @,
                      !.stations[k].client = IF @ = None THEN cl ELSE @]
              /\ UNCHANGED <<gen, move_job, intf_job, dangling, reply, fault,
                               set_snr, told, moved>>
  BY DEF ProcessFrame
<1>2. /\ ctx.stations \in Seq(StationRecord) /\ DOMAIN ctx = CtxFields
      /\ DOMAIN told = 1..Len(ctx.stations)
      /\ \A i \in 1..Len(ctx.stations) : Exact(ctx.stations[i].addrs, told[i])
  BY DEF IInv, ShapeInv, ShapeOf
<1>3. k \in 1..Len(ctx.stations)
  BY <1>1, <1>2, StationByAddr, StationByUsedAddr
<1> HIDE DEF k, h
<1>4. /\ Explains("move job") = {"directions"}
      /\ Explains("use after free") = {"busy", "rewritten"}
      /\ {"move job", "use after free"} \subseteq Faults
  BY DEF Explains, Faults
<1>5. CASE dangling
  <2>1. "directions" \in causes'
    BY <1>1, <1>5 DEF IInv, BusyInv
  <2>2. Crash("move job") /\ causes' = causes /\ frames' = frames
    BY <1>1, <1>5
  <2> QED
    BY <1>1, <1>4, <2>1, <2>2, CrashStep
<1>6. CASE ~dangling /\ ctx.snr_matrix # "live" /\ Crash("use after free")
           /\ UNCHANGED frames
  <2>1. "rewritten" \in causes'
    BY <1>1, <1>6, TablesLive
  <2> QED
    BY <1>1, <1>4, <1>6, <2>1, CrashStep
<1>7. CASE /\ ~dangling
           /\ frames' = {gen}
           /\ ctx' = [ctx EXCEPT
                      !.stations[k].hwaddr = IF h = 0 THEN hwaddr ELSE @,
                      !.stations[k].client = IF @ = None THEN cl ELSE @]
           /\ UNCHANGED <<gen, move_job, intf_job, dangling, reply, fault,
                               set_snr, told, moved>>
  <2>1. old \in StationRecord /\ DOMAIN ctx.stations = 1..Len(ctx.stations)
    BY <1>2, <1>3, ElementOfSeq, LenProperties
  <2>2. hw \in AllAddr /\ own \in Client \cup {None}
    BY <2>1 DEF StationRecord
  <2>3. ctx' = [ctx EXCEPT !.stations = [ctx.stations EXCEPT ![k] = st]]
    BY <1>2, <1>3, <1>7, <2>1, ZenonT(40) DEF CtxFields, StationRecord
  <2> HIDE DEF hw, own
  <2>4. /\ st \in StationRecord /\ st.addrs = old.addrs
        /\ st.x = old.x /\ st.dir = old.dir /\ st.tx_power = old.tx_power
    BY <2>1, <2>2 DEF StationRecord
  <2> HIDE DEF st
  <2>5. Edits(k, st)
    BY <1>1, <1>2, <1>3, <1>7, <2>3, <2>4 DEF Edits
  <2>6. ShapeInv' /\ FileInv'
    BY <2>5, StationEdited
  <2>7. ScalarInv' /\ CapturesClosed' /\ BusyInv' /\ FaultsHaveCauses'
    <3>1. reply' \in {None, "ACK", "INVALID"}
      BY <1>7 DEF IInv, ScalarInv
    <3> QED
      BY <1>1, <1>7, <3>1, RestKept
  <2> QED
    BY <2>6, <2>7 DEF IInv
<1> QED
  BY <1>1, <1>5, <1>6, <1>7

\* the links y become z, with one more in set
SetsBoth(y, z, set, set2, m, n, v) ==
    /\ z.prob = y.prob
    /\ z.snr = [y.snr EXCEPT ![<<n - 1, m - 1>>] = v, ![<<m - 1, n - 1>>] = v]
    /\ set2 = [p \in DOMAIN set \cup {{m - 1, n - 1}} |->
                  IF p = {m - 1, n - 1} THEN v ELSE set[p]]

(***************************************************************************)
(* A message that sets the signal between two stations sets both           *)
(* directions, and no other link.                                          *)
(***************************************************************************)
LEMMA LinksSet ==
    ASSUME NEW c, NEW k \in Nat, Len(c.ids) = k, NEW m \in 1..k, NEW n \in 1..k,
           m # n, NEW v, NEW j, NEW y, NEW z, NEW set, NEW set2,
           Linked(y, c, j, set), DOMAIN y.snr = Pairs(k),
           SetsBoth(y, z, set, set2, m, n, v)
    PROVE  Linked(z, c, j, set2)
<1>1. /\ z.prob = y.prob
      /\ z.snr = [y.snr EXCEPT ![<<n - 1, m - 1>>] = v, ![<<m - 1, n - 1>>] = v]
      /\ set2 = [p \in DOMAIN set \cup {{m - 1, n - 1}} |->
                     IF p = {m - 1, n - 1} THEN v ELSE set[p]]
  BY DEF SetsBoth
<1>2. ASSUME NEW a \in 0..(k - 1), NEW b \in 0..(k - 1), a # b
      PROVE  /\ c.type = "prob" =>
                   z.prob[<<a, b>>] = Configured(c, a, b, c.default_prob)
             /\ z.snr[<<a, b>>] = IF {a, b} \in DOMAIN set2 THEN set2[{a, b}]
                                  ELSE FileSnr(c, j, a, b)
  <2>1. c.type = "prob" =>
            z.prob[<<a, b>>] = Configured(c, a, b, c.default_prob)
    BY <1>1, <1>2 DEF Linked
  <2>2. y.snr[<<a, b>>] = IF {a, b} \in DOMAIN set THEN set[{a, b}]
                          ELSE FileSnr(c, j, a, b)
    BY <1>2 DEF Linked
  <2>3. <<a, b>> \in Pairs(k)
    BY DEF Pairs
  <2>4. DOMAIN set2 = DOMAIN set \cup {{m - 1, n - 1}}
    BY <1>1
  <2>5. CASE {a, b} = {m - 1, n - 1}
    <3>1. (a = m - 1 /\ b = n - 1) \/ (a = n - 1 /\ b = m - 1)
      BY <1>2, <2>5
    <3>2. z.snr[<<a, b>>] = v
      BY <1>1, <2>3, <3>1
    <3>3. {a, b} \in DOMAIN set2 /\ set2[{a, b}] = v
      BY <1>1, <2>4, <2>5
    <3> QED
      BY <2>1, <3>2, <3>3
  <2>6. CASE {a, b} # {m - 1, n - 1}
    <3>1. <<a, b>> # <<m - 1, n - 1>> /\ <<a, b>> # <<n - 1, m - 1>>
      BY <2>6
    <3>2. z.snr[<<a, b>>] = y.snr[<<a, b>>]
      BY <1>1, <2>3, <3>1
    <3>3. {a, b} \in DOMAIN set2 <=> {a, b} \in DOMAIN set
      BY <2>4, <2>6
    <3>4. {a, b} \in DOMAIN set => set2[{a, b}] = set[{a, b}]
      BY <1>1, <2>6
    <3> QED
      BY <2>1, <2>2, <3>2, <3>3, <3>4
  <2> QED
    BY <2>5, <2>6
<1> QED
  BY <1>2 DEF Linked

LEMMA SetSnrStep ==
    ASSUME IInv, fault = None, NEW a, NEW b, NEW v, a # b, SetSnr(a, b, v)
    PROVE  IInv'
<1> DEFINE m == get_station_by_addr(a)
           n == get_station_by_addr(b)
<1>1. UNCHANGED <<now, frames, callback, pcap_file, open_files, causes>>
  BY DEF SetSnr
<1>2. ctx.stations \in Seq(StationRecord) /\ DOMAIN ctx = CtxFields
  BY DEF IInv, ShapeInv, ShapeOf
<1>3. CASE m = 0 \/ n = 0
  <2>1. /\ reply' = "INVALID"
        /\ UNCHANGED <<config_vars, fault, set_snr, told, moved>>
    BY <1>3 DEF SetSnr
  <2>2. ScalarInv' /\ CapturesClosed' /\ BusyInv' /\ FaultsHaveCauses'
    BY <1>1, <2>1, RestKept DEF config_vars
  <2>3. ShapeInv' /\ FileInv'
    BY <1>1, <2>1 DEF IInv, ShapeInv, FileInv, Running, config_vars
  <2> QED
    BY <2>2, <2>3 DEF IInv
<1>4. CASE m # 0 /\ n # 0 /\ ctx.snr_matrix # "live"
  <2>1. Crash("use after free")
    BY <1>4 DEF SetSnr
  <2>2. "rewritten" \in causes'
    BY <1>1, <1>4, TablesLive
  <2>3. Explains("use after free") = {"busy", "rewritten"}
        /\ "use after free" \in Faults
    BY DEF Explains, Faults
  <2> QED
    BY <1>1, <2>1, <2>2, <2>3, CrashStep
<1>5. CASE m # 0 /\ n # 0 /\ ctx.snr_matrix = "live"
  <2>1. /\ ctx' = [ctx EXCEPT !.snr = [@ EXCEPT
                      ![<<n - 1, m - 1>>] = v, ![<<m - 1, n - 1>>] = v]]
        /\ set_snr' = [p \in DOMAIN set_snr \cup {{m - 1, n - 1}} |->
                          IF p = {m - 1, n - 1} THEN v ELSE set_snr[p]]
        /\ reply' = "ACK"
        /\ UNCHANGED <<gen, move_job, intf_job, dangling, fault, told, moved>>
    BY <1>5 DEF SetSnr
  <2>2. /\ m \in 1..Len(ctx.stations) /\ ctx.stations[m].addr = a
        /\ n \in 1..Len(ctx.stations) /\ ctx.stations[n].addr = b
    BY <1>2, <1>5, StationByAddr
  <2>3. m # n
    BY <2>2
  <2> HIDE DEF m, n
  <2>4. /\ DOMAIN ctx' = CtxFields /\ ctx'.stations = ctx.stations
        /\ ctx'.config_path = ctx.config_path /\ ctx'.num_stas = ctx.num_stas
        /\ ctx'.sta_array = ctx.sta_array /\ ctx'.intf = ctx.intf
        /\ ctx'.snr_matrix = ctx.snr_matrix
        /\ ctx'.error_prob_matrix = ctx.error_prob_matrix
        /\ ctx'.prob = ctx.prob
        /\ ctx'.get_link_snr = ctx.get_link_snr
        /\ ctx'.get_error_prob = ctx.get_error_prob
        /\ ctx'.path_loss = ctx.path_loss
        /\ ctx'.snr = [ctx.snr EXCEPT
                          ![<<n - 1, m - 1>>] = v, ![<<m - 1, n - 1>>] = v]
    BY <1>2, <2>1 DEF CtxFields
  <2>5. ShapeInv'
    BY <2>1, <2>4 DEF IInv, ShapeInv, ShapeOf
  <2>6. ScalarInv' /\ CapturesClosed' /\ BusyInv' /\ FaultsHaveCauses'
    BY <1>1, <2>1, RestKept
  <2>7. DOMAIN ctx'.snr = DOMAIN ctx.snr
    BY <2>4
  <2>8. ASSUME NEW c, Current(ctx, c) PROVE Current(ctx', c)
    BY <2>4, <2>7, <2>8 DEF Current, Served
  <2>9. ASSUME NEW c, Current(ctx, c), Linking(ctx, c, moved, set_snr, move_job)
        PROVE  Linking(ctx', c, moved, set_snr', move_job)
    <3>1. Len(c.ids) = Len(ctx.stations) /\ DOMAIN ctx.snr = Pairs(Len(ctx.stations))
      BY <2>9 DEF Current
    <3>2. Len(ctx.stations) \in Nat
      BY <1>2, LenProperties
    <3>3. Linked(ctx', c, moved, set_snr')
      <4>1. Linked(ctx, c, moved, set_snr)
        BY <2>9 DEF Linking
      <4>2. SetsBoth(ctx, ctx', set_snr, set_snr', m, n, v)
        BY <2>1, <2>4 DEF SetsBoth
      <4> QED
        BY <2>2, <2>3, <3>1, <3>2, <4>1, <4>2, LinksSet
    <3> QED
      BY <2>4, <2>9, <3>3 DEF Linking
  <2>10. FileInv'
    <3>1. SUFFICES ASSUME "rewritten" \notin causes
                   PROVE  LET c == Content[ctx.config_path] IN
                          /\ Current(ctx', c)
                          /\ ~dangling
                          /\ "interference" \notin causes =>
                                intf_job = c.enable_interference
                          /\ "moving" \notin causes =>
                                Linking(ctx', c, moved, set_snr', move_job)
      BY <1>1, <2>1, <2>4 DEF FileInv, Running
    <3> DEFINE c == Content[ctx.config_path]
    <3>2. /\ Current(ctx, c) /\ ~dangling
          /\ "interference" \notin causes => intf_job = c.enable_interference
          /\ "moving" \notin causes => Linking(ctx, c, moved, set_snr, move_job)
      BY <3>1 DEF IInv, FileInv, Running
    <3> HIDE DEF c
    <3>3. Current(ctx', c)
      BY <2>8, <3>2
    <3>4. "moving" \notin causes => Linking(ctx', c, moved, set_snr', move_job)
      BY <2>9, <3>2
    <3> QED
      BY <3>2, <3>3, <3>4 DEF c
  <2> QED
    BY <2>5, <2>6, <2>10 DEF IInv
<1> QED
  BY <1>3, <1>4, <1>5
-----------------------------------------------------------------------------
(* The jobs, the time and the captures.                                    *)

(***************************************************************************)
(* A frame whose sender is gone was on its way during a reload.            *)
(***************************************************************************)
LEMMA DeliverFrameStep ==
    ASSUME IInv, fault = None, NEW g \in frames, DeliverFrame(g)
    PROVE  IInv'
<1>1. /\ frames' = frames \ {g}
      /\ UNCHANGED <<ctx, gen, move_job, intf_job, dangling, now, pcap_file,
                     open_files, reply, causes, set_snr, told, moved>>
      /\ IF g = gen /\ ~dangling
         THEN callback' = g /\ fault' = fault
         ELSE fault' = "use after free" /\ callback' = callback
  BY DEF DeliverFrame, config_vars, history_vars
<1>2. ShapeInv' /\ CapturesClosed'
  BY <1>1 DEF IInv, ShapeInv, CapturesClosed
<1>3. ScalarInv'
  BY <1>1 DEF IInv, ScalarInv
<1>4. BusyInv'
  BY <1>1 DEF IInv, BusyInv
<1>5. CASE g = gen /\ ~dangling
  <2>1. fault' = None
    BY <1>1, <1>5
  <2>2. FileInv'
    BY <1>1, <2>1 DEF IInv, FileInv, Running
  <2>3. FaultsHaveCauses'
    BY <2>1 DEF FaultsHaveCauses
  <2> QED
    BY <1>2, <1>3, <1>4, <2>2, <2>3 DEF IInv
<1>6. CASE ~(g = gen /\ ~dangling)
  <2>1. fault' = "use after free" /\ "use after free" # None
    BY <1>1, <1>6, NoneAssumption
  <2>2. FileInv'
    BY <2>1 DEF FileInv, Running
  <2>3. g # gen => "busy" \in causes
    BY DEF IInv, BusyInv
  <2>4. dangling => "rewritten" \in causes
    BY TablesLive
  <2>5. {"busy", "rewritten"} \cap causes' # {}
    BY <1>1, <1>6, <2>3, <2>4
  <2>6. Explains("use after free") = {"busy", "rewritten"}
    BY DEF Explains
  <2>7. FaultsHaveCauses'
    BY <2>1, <2>5, <2>6 DEF FaultsHaveCauses, Explains
  <2> QED
    BY <1>2, <1>3, <1>4, <2>2, <2>7 DEF IInv
<1> QED
  BY <1>5, <1>6

LEMMA CallbackReturnsStep ==
    ASSUME IInv, fault = None, CallbackReturns
    PROVE  IInv'
<1>1. /\ callback # None /\ callback' = None
      /\ fault' = IF callback = gen THEN fault ELSE "use after free"
      /\ UNCHANGED <<ctx, gen, move_job, intf_job, dangling, now, frames,
                     pcap_file, open_files, reply, causes, set_snr, told, moved>>
  BY DEF CallbackReturns, config_vars, history_vars
<1>2. ShapeInv' /\ CapturesClosed'
  BY <1>1 DEF IInv, ShapeInv, CapturesClosed
<1>3. ScalarInv'
  BY <1>1 DEF IInv, ScalarInv
<1>4. BusyInv'
  BY <1>1 DEF IInv, BusyInv
<1>5. CASE callback = gen
  <2>1. fault' = None
    BY <1>1, <1>5
  <2>2. FileInv' /\ FaultsHaveCauses'
    BY <1>1, <2>1 DEF IInv, FileInv, Running, FaultsHaveCauses
  <2> QED
    BY <1>2, <1>3, <1>4, <2>2 DEF IInv
<1>6. CASE callback # gen
  <2>1. fault' = "use after free" /\ "use after free" # None
    BY <1>1, <1>6, NoneAssumption
  <2>2. FileInv'
    BY <2>1 DEF FileInv, Running
  <2>3. "busy" \in causes'
    BY <1>1, <1>6 DEF IInv, BusyInv
  <2>4. FaultsHaveCauses'
    BY <2>1, <2>3 DEF FaultsHaveCauses, Explains
  <2> QED
    BY <1>2, <1>3, <1>4, <2>2, <2>4 DEF IInv
<1> QED
  BY <1>5, <1>6

\* every station of old goes one step to new
Steps(old, new) ==
    /\ new \in Seq(StationRecord) /\ Len(new) = Len(old)
    /\ \A k \in 1..Len(old) :
          /\ new[k].x = old[k].x + old[k].dir
          /\ new[k].dir = old[k].dir /\ new[k].tx_power = old[k].tx_power
          /\ new[k].addrs = old[k].addrs

LEMMA MovedStations ==
    ASSUME NEW old \in Seq(StationRecord)
    PROVE  Steps(old, [k \in DOMAIN old |->
                          [old[k] EXCEPT !.x = @ + old[k].dir]])
<1> DEFINE new == [k \in DOMAIN old |-> [old[k] EXCEPT !.x = @ + old[k].dir]]
           n == Len(old)
<1>1. DOMAIN old = 1..n /\ n \in Nat
  BY LenProperties
<1>2. ASSUME NEW k \in 1..n
      PROVE  /\ new[k] \in StationRecord
             /\ new[k].x = old[k].x + old[k].dir
             /\ new[k].dir = old[k].dir /\ new[k].tx_power = old[k].tx_power
             /\ new[k].addrs = old[k].addrs
  <2>1. old[k] \in StationRecord
    BY ElementOfSeq
  <2>2. new[k] = [old[k] EXCEPT !.x = old[k].x + old[k].dir]
    BY <1>1, <2>1 DEF StationRecord
  <2> HIDE DEF new
  <2>3. old[k].x + old[k].dir \in Int
    BY <2>1 DEF StationRecord
  <2> QED
    BY <2>1, <2>2, <2>3 DEF StationRecord
<1>3. new \in [1..n -> StationRecord]
  BY <1>1, <1>2
<1> HIDE DEF new, n
<1>4. new \in Seq(StationRecord) /\ Len(new) = n
  BY <1>1, <1>3, SequenceOf
<1>5. Steps(old, new)
  BY <1>2, <1>4 DEF Steps, n
<1> QED
  BY <1>5 DEF new

(***************************************************************************)
(* Where a station of a moving file is after one more move.                *)
(***************************************************************************)
LEMMA PlacesNext ==
    ASSUME NEW g \in File, Content[g].type = "path_loss", Content[g].moving,
           Content[g].broken = "no",
           NEW m \in Nat, NEW old \in Seq(StationRecord), NEW new,
           Len(old) = Len(Content[g].ids), Steps(old, new),
           Placed(old, Content[g], m)
    PROVE  /\ Placed(new, Content[g], m + 1)
           /\ \A k \in 1..Len(Content[g].ids) : XAfter(Content[g], m + 1, k) \in Int
<1> DEFINE c == Content[g]
           n == Len(c.ids)
<1>1. /\ c.positions \in [1..n -> Int] /\ c.directions \in [1..n -> Int]
  BY IdsTyped DEF IsContent
<1>2. ASSUME NEW k \in 1..n
      PROVE  /\ XAfter(c, m + 1, k) = XAfter(c, m, k) + c.directions[k]
             /\ XAfter(c, m + 1, k) \in Int
  <2>1. c.positions[k] \in Int /\ c.directions[k] \in Int
    BY <1>1
  <2>2. /\ XAfter(c, m + 1, k) = c.positions[k] + (m + 1) * c.directions[k]
        /\ XAfter(c, m, k) = c.positions[k] + m * c.directions[k]
    BY DEF XAfter
  <2>3. ASSUME NEW p \in Int, NEW d \in Int
        PROVE  /\ p + (m + 1) * d = (p + m * d) + d
               /\ p + (m + 1) * d \in Int
    OBVIOUS
  <2> HIDE DEF c
  <2> QED
    BY <2>1, <2>2, <2>3
<1>3. ASSUME NEW k \in 1..n
      PROVE  /\ new[k].x = XAfter(c, m + 1, k)
             /\ new[k].dir = IF c.moving THEN c.directions[k] ELSE 0
             /\ new[k].tx_power = c.tx_powers[k]
  <2>1. /\ old[k].x = XAfter(c, m, k) /\ old[k].dir = c.directions[k]
        /\ old[k].tx_power = c.tx_powers[k]
    BY <1>3 DEF Placed
  <2>2. /\ new[k].x = old[k].x + old[k].dir
        /\ new[k].dir = old[k].dir /\ new[k].tx_power = old[k].tx_power
    BY <1>3 DEF Steps
  <2> QED
    BY <1>2, <2>1, <2>2
<1> QED
  BY <1>2, <1>3 DEF Placed

(***************************************************************************)
(* A move brings every station one step on and computes the signals again; *)
(* links that a message has set are not spared.                            *)
(***************************************************************************)
LEMMA MoveStationsStep ==
    ASSUME IInv, fault = None, MoveStations
    PROVE  IInv'
<1> DEFINE new == [k \in DOMAIN ctx.stations |->
                     [ctx.stations[k] EXCEPT !.x = @ + ctx.stations[k].dir]]
           matrix == PathLossMatrix(ctx.path_loss, new, ctx.snr)
<1>1. /\ move_job = now
      /\ UNCHANGED <<now, frames, callback, pcap_file, open_files, causes>>
  BY DEF MoveStations
<1>2. /\ ctx.stations \in Seq(StationRecord) /\ DOMAIN ctx = CtxFields
      /\ ctx.config_path \in File
      /\ {ctx.sta_array, ctx.intf, ctx.snr_matrix, ctx.error_prob_matrix}
            \subseteq Pointer
      /\ DOMAIN told = 1..Len(ctx.stations)
      /\ \A i \in 1..Len(ctx.stations) : Exact(ctx.stations[i].addrs, told[i])
  BY DEF IInv, ShapeInv, ShapeOf
<1>3. /\ Explains("use after free") = {"busy", "rewritten"}
      /\ Explains("null pointer") = {"interference", "rewritten", "capture"}
      /\ {"null pointer", "use after free"} \subseteq Faults
  BY DEF Explains, Faults
<1>4. CASE dangling \/ ctx.snr_matrix = "freed"
  <2>1. Crash("use after free")
    BY <1>4 DEF MoveStations
  <2>2. "rewritten" \in causes'
    BY <1>1, <1>4, TablesLive
  <2> QED
    BY <1>1, <1>3, <2>1, <2>2, CrashStep
<1>5. CASE ~(dangling \/ ctx.snr_matrix = "freed") /\ ctx.sta_array = "NULL"
  <2>1. Crash("null pointer")
    BY <1>5 DEF MoveStations
  <2>2. "rewritten" \in causes'
    BY <1>1, <1>5, TablesLive
  <2> QED
    BY <1>1, <1>3, <2>1, <2>2, CrashStep
<1>6. CASE ~(dangling \/ ctx.snr_matrix = "freed") /\ ctx.sta_array # "NULL"
  <2>1. /\ ctx' = [ctx EXCEPT !.stations = new, !.snr = matrix]
        /\ move_job' = now + 1
        /\ moved' = moved + 1
        /\ set_snr' = NoneSet
        /\ UNCHANGED <<gen, intf_job, dangling, reply, fault, told>>
    BY <1>6 DEF MoveStations, NextMove, NoneSet
  <2>2. Steps(ctx.stations, new)
    BY <1>2, MovedStations
  <2>3. DOMAIN matrix = DOMAIN ctx.snr
    BY DEF PathLossMatrix
  <2> HIDE DEF new, matrix
  <2>4. /\ DOMAIN ctx' = CtxFields /\ ctx'.stations = new
        /\ ctx'.config_path = ctx.config_path /\ ctx'.num_stas = ctx.num_stas
        /\ ctx'.sta_array = ctx.sta_array /\ ctx'.intf = ctx.intf
        /\ ctx'.snr_matrix = ctx.snr_matrix
        /\ ctx'.error_prob_matrix = ctx.error_prob_matrix
        /\ ctx'.prob = ctx.prob
        /\ ctx'.get_link_snr = ctx.get_link_snr
        /\ ctx'.get_error_prob = ctx.get_error_prob
        /\ ctx'.path_loss = ctx.path_loss
        /\ ctx'.snr = matrix
    BY <1>2, <2>1 DEF CtxFields
  <2>5. /\ new \in Seq(StationRecord) /\ Len(new) = Len(ctx.stations)
        /\ \A k \in 1..Len(ctx.stations) : new[k].addrs = ctx.stations[k].addrs
    BY <2>2 DEF Steps
  <2>6. ShapeInv'
    BY <1>2, <2>1, <2>4, <2>5 DEF ShapeInv, ShapeOf
  <2>7. ScalarInv'
    <3>1. now + 1 \in 0..(MaxTime + 1) /\ moved + 1 \in Nat
      BY BoundAssumption DEF IInv, ScalarInv
    <3> QED
      BY <1>1, <2>1, <3>1 DEF IInv, ScalarInv
  <2>8. CapturesClosed' /\ BusyInv' /\ FaultsHaveCauses'
    BY <1>1, <2>1 DEF IInv, CapturesClosed, BusyInv, FaultsHaveCauses
  <2>9. FileInv'
    <3>1. SUFFICES ASSUME "rewritten" \notin causes
                   PROVE  LET c == Content[ctx.config_path] IN
                          /\ Current(ctx', c)
                          /\ ~dangling
                          /\ "interference" \notin causes =>
                                intf_job = c.enable_interference
                          /\ "moving" \notin causes =>
                                Linking(ctx', c, moved', set_snr', move_job')
      BY <1>1, <2>1, <2>4 DEF FileInv, Running
    <3> DEFINE c == Content[ctx.config_path]
    <3>2. /\ Current(ctx, c) /\ ~dangling
          /\ "interference" \notin causes => intf_job = c.enable_interference
          /\ "moving" \notin causes => Linking(ctx, c, moved, set_snr, move_job)
      BY <3>1 DEF IInv, FileInv, Running
    <3>3. Len(c.ids) \in Nat
      BY <1>2, IdsTyped
    <3> HIDE DEF c
    <3>4. Current(ctx', c)
      BY <2>3, <2>4, <2>5, <3>2 DEF Current, Served
    <3>5. ASSUME "moving" \notin causes
          PROVE  Linking(ctx', c, moved', set_snr', move_job')
      <4>1. Linking(ctx, c, moved, set_snr, move_job)
        BY <3>2, <3>5
      <4>2. now # None /\ moved \in Nat
        <5>1. now \in Int /\ moved \in Nat
          BY BoundAssumption DEF IInv, ScalarInv
        <5> QED
          BY <5>1, NoneAssumption
      <4>3. /\ c.type = "path_loss" /\ c.moving /\ c.broken = "no"
            /\ ctx.path_loss = c.model /\ Placed(ctx.stations, c, moved)
        BY <1>1, <4>1, <4>2 DEF Linking
      <4>4. Len(ctx.stations) = Len(c.ids) /\ DOMAIN ctx.snr = Pairs(Len(c.ids))
        BY <3>2 DEF Current
      <4>5. /\ Placed(new, c, moved + 1)
            /\ \A k \in 1..Len(c.ids) : XAfter(c, moved + 1, k) \in Int
        BY <1>2, <2>2, <4>2, <4>3, <4>4, PlacesNext DEF c
      <4>6. \A a, b \in 0..(Len(c.ids) - 1) : a # b =>
                matrix[<<a, b>>] = SignalAfter(c, moved + 1, a, b)
        <5>1. moved + 1 \in Nat
          BY <4>2
        <5>2. matrix = PathLossMatrix(c.model, new, ctx.snr)
          BY <4>3 DEF matrix
        <5> QED
          BY <3>3, <4>3, <4>4, <4>5, <5>1, <5>2, PathLossIs, SMTT(30)
      <4>7. Linked(ctx', c, moved + 1, NoneSet)
        BY <2>4, <4>3, <4>6 DEF Linked, FileSnr, NoneSet
      <4> QED
        BY <2>1, <2>4, <4>3, <4>5, <4>7 DEF Linking
    <3> QED
      BY <3>2, <3>4, <3>5 DEF c
  <2> QED
    BY <2>6, <2>7, <2>8, <2>9 DEF IInv
<1> QED
  BY <1>4, <1>5, <1>6

(***************************************************************************)
(* The interference job meets no table only after a reload that took it    *)
(* away, or a file that changed.                                           *)
(***************************************************************************)
LEMMA IntfUpdateStep ==
    ASSUME IInv, fault = None, IntfUpdate
    PROVE  IInv'
<1>1. /\ intf_job /\ ctx.intf = "NULL" /\ Crash("null pointer")
      /\ UNCHANGED <<now, frames, callback, pcap_file, open_files, causes>>
  BY DEF IntfUpdate
<1>2. {"interference", "rewritten"} \cap causes # {}
  <2>1. SUFFICES ASSUME "interference" \notin causes, "rewritten" \notin causes
                 PROVE  FALSE
    OBVIOUS
  <2> DEFINE c == Content[ctx.config_path]
  <2>2. Current(ctx, c) /\ intf_job = c.enable_interference
    BY <2>1 DEF IInv, FileInv, Running
  <2>3. ctx.intf = IF c.enable_interference THEN "live" ELSE "NULL"
    BY <2>2 DEF Current
  <2> HIDE DEF c
  <2>4. c.enable_interference
    BY <1>1, <2>2
  <2> QED
    BY <1>1, <2>3, <2>4
<1>3. /\ Explains("null pointer") = {"interference", "rewritten", "capture"}
      /\ "null pointer" \in Faults
  BY DEF Explains, Faults
<1> QED
  BY <1>1, <1>2, <1>3, CrashStep

LEMMA TimePassesStep ==
    ASSUME IInv, fault = None, TimePasses
    PROVE  IInv'
<1>1. /\ now < MaxTime /\ now' = now + 1
      /\ UNCHANGED <<ctx, gen, move_job, intf_job, dangling, frames, callback,
                     pcap_file, open_files, reply, fault, causes, set_snr, told,
                     moved>>
  BY DEF TimePasses, config_vars, history_vars
<1>2. ScalarInv'
  BY <1>1, BoundAssumption DEF IInv, ScalarInv
<1>3. ShapeInv' /\ CapturesClosed' /\ BusyInv' /\ FaultsHaveCauses'
  BY <1>1 DEF IInv, ShapeInv, CapturesClosed, BusyInv, FaultsHaveCauses
<1>4. FileInv'
  BY <1>1 DEF IInv, FileInv, Running
<1> QED
  BY <1>2, <1>3, <1>4 DEF IInv

LEMMA StartPcapStep ==
    ASSUME IInv, fault = None, NEW path \in CapturePath, StartPcap(path)
    PROVE  IInv'
<1>1. /\ UNCHANGED <<ctx, gen, move_job, intf_job, dangling, now, frames,
                     callback, set_snr, told, moved>>
      /\ IF path \in Unwritable
         THEN /\ fault' = "null pointer"
              /\ causes' = causes \cup {"capture"}
              /\ UNCHANGED <<pcap_file, open_files, reply>>
         ELSE /\ pcap_file' = path
              /\ open_files' = Closed \cup {path}
              /\ reply' = "ACK"
              /\ UNCHANGED <<fault, causes>>
  BY DEF StartPcap, config_vars
<1>2. CASE path \in Unwritable
  <2>1. Crash("null pointer")
    BY <1>1, <1>2 DEF Crash, config_vars
  <2>2. /\ Explains("null pointer") = {"interference", "rewritten", "capture"}
        /\ "null pointer" \in Faults
    BY DEF Explains, Faults
  <2>3. causes \subseteq causes' /\ Explains("null pointer") \cap causes' # {}
    BY <1>1, <1>2, <2>2
  <2> QED
    BY <1>1, <1>2, <2>1, <2>2, <2>3, CrashStep
<1>3. CASE path \notin Unwritable
  <2>1. path # None
    BY NoneAssumption
  <2>2. open_files = {pcap_file} \ {None}
    BY DEF IInv, CapturesClosed
  <2>3. CapturesClosed'
    BY <1>1, <1>3, <2>1, <2>2 DEF CapturesClosed, Closed
  <2>4. ShapeInv' /\ BusyInv' /\ FaultsHaveCauses'
    BY <1>1, <1>3 DEF IInv, ShapeInv, BusyInv, FaultsHaveCauses
  <2>5. ScalarInv'
    BY <1>1, <1>3 DEF IInv, ScalarInv
  <2>6. FileInv'
    BY <1>1, <1>3 DEF IInv, FileInv, Running
  <2> QED
    BY <2>3, <2>4, <2>5, <2>6 DEF IInv
<1> QED
  BY <1>2, <1>3

LEMMA StopPcapStep ==
    ASSUME IInv, fault = None, StopPcap
    PROVE  IInv'
<1>1. /\ pcap_file' = None /\ open_files' = Closed /\ reply' = "ACK"
      /\ UNCHANGED <<ctx, gen, move_job, intf_job, dangling, now, frames,
                     callback, fault, causes, set_snr, told, moved>>
  BY DEF StopPcap, config_vars, history_vars
<1>2. CapturesClosed'
  BY <1>1 DEF IInv, CapturesClosed, Closed
<1>3. ShapeInv' /\ BusyInv' /\ FaultsHaveCauses'
  BY <1>1 DEF IInv, ShapeInv, BusyInv, FaultsHaveCauses
<1>4. ScalarInv'
  BY <1>1 DEF IInv, ScalarInv
<1>5. FileInv'
  BY <1>1 DEF IInv, FileInv, Running
<1> QED
  BY <1>2, <1>3, <1>4, <1>5 DEF IInv
-----------------------------------------------------------------------------
(* The theorems.                                                           *)

LEMMA NextStep ==
    ASSUME IInv, [Next]_vars
    PROVE  IInv'
<1>1. CASE UNCHANGED vars
  <2>1. UNCHANGED <<ctx, gen, move_job, intf_job, dangling, now, frames, callback,
                    pcap_file, open_files, reply, fault, causes, set_snr, told,
                    moved>>
    BY <1>1 DEF vars, config_vars, history_vars
  <2>2. ShapeInv' /\ CapturesClosed' /\ BusyInv' /\ FaultsHaveCauses'
    BY <2>1 DEF IInv, ShapeInv, CapturesClosed, BusyInv, FaultsHaveCauses
  <2>3. ScalarInv'
    BY <2>1 DEF IInv, ScalarInv
  <2>4. FileInv'
    BY <2>1 DEF IInv, FileInv, Running
  <2> QED
    BY <2>2, <2>3, <2>4 DEF IInv
<1>2. CASE Next
  <2>1. fault = None
    BY <1>2 DEF Next
  <2>2. CASE ReloadConfig
    BY <2>1, <2>2, ReloadStep DEF ReloadConfig
  <2>3. CASE ReloadCurrentConfig
    <3>1. ctx.config_path \in File
      BY DEF IInv, ShapeInv, ShapeOf
    <3> QED
      BY <2>1, <2>3, <3>1, ReloadStep DEF ReloadCurrentConfig
  <2>4. CASE \E hwaddr \in AllAddr, a \in Addr :
                AddMacAddr(hwaddr, a) \/ DelMacAddr(hwaddr, a)
    BY <2>1, <2>4, AddMacAddrStep, DelMacAddrStep
  <2>5. CASE \E cl \in Client, hwaddr, src \in AllAddr :
                ProcessFrame(cl, hwaddr, src)
    BY <2>1, <2>5, ProcessFrameStep
  <2>6. CASE \E a, b \in AllAddr \ Addr, v \in Snr : a # b /\ SetSnr(a, b, v)
    BY <2>1, <2>6, SetSnrStep
  <2>7. CASE \E g \in frames : DeliverFrame(g)
    BY <2>1, <2>7, DeliverFrameStep
  <2>8. CASE CallbackReturns \/ MoveStations \/ IntfUpdate \/ TimePasses
    BY <2>1, <2>8, CallbackReturnsStep, MoveStationsStep, IntfUpdateStep,
       TimePassesStep
  <2>9. CASE \E path \in CapturePath : StartPcap(path)
    BY <2>1, <2>9, StartPcapStep
  <2>10. CASE StopPcap
    BY <2>1, <2>10, StopPcapStep
  <2> QED
    BY <1>2, <2>2, <2>3, <2>4, <2>5, <2>6, <2>7, <2>8, <2>9, <2>10 DEF Next
<1> QED
  BY <1>1, <1>2

\* The inductive invariant holds after any sequence of reloads, messages, jobs
\* and moves.
THEOREM Invariance == Spec => []IInv
<1>1. Init => IInv
  BY InitHolds
<1>2. IInv /\ [Next]_vars => IInv'
  BY NextStep
<1> QED
  BY <1>1, <1>2, PTL DEF Spec

\* The tables that load_config() allocates fit the stations and the functions
\* that read them, whatever was reloaded in whatever order, as long as no file
\* changed between validate_config() and the second load; and at most the one
\* capture that pcap_file names is open.
THEOREM TablesKept == Spec => []TablesInv
<1>1. ASSUME IInv PROVE TablesInv
  <2>1. ShapeOf(ctx, told)
    BY <1>1 DEF IInv, ShapeInv
  <2>2. ctx.stations \in Seq(StationRecord)
    BY <2>1 DEF ShapeOf
  <2>3. DOMAIN ctx.stations = 1..Len(ctx.stations)
    BY <2>2, LenProperties
  <2>4. DOMAIN NoCtx = CtxFields
    BY DEF NoCtx, CtxFields
  <2>5. TypeOK
    BY <1>1, <2>1, <2>3, <2>4 DEF IInv, ScalarInv, TypeOK, ShapeOf, Pointer
  <2>6. TablesMatchStations
    <3>1. SUFFICES ASSUME Running, "rewritten" \notin causes
                   PROVE  /\ ctx.sta_array = "live" /\ ctx.snr_matrix = "live"
                          /\ ctx.num_stas = Len(ctx.stations)
                          /\ DOMAIN ctx.snr = Pairs(Len(ctx.stations))
                          /\ (ctx.error_prob_matrix = "live")
                                <=> (ctx.get_error_prob = "matrix")
                          /\ (ctx.error_prob_matrix = "live")
                                <=> (ctx.get_link_snr = "default")
      BY DEF TablesMatchStations
    <3> DEFINE c == Content[ctx.config_path]
    <3>2. Current(ctx, c)
      BY <1>1, <3>1 DEF IInv, FileInv
    <3> HIDE DEF c
    <3> QED
      BY <3>2 DEF Current, Served
  <2>7. CapturesClosed
    BY <1>1 DEF IInv
  <2> QED
    BY <2>5, <2>6, <2>7 DEF TablesInv
<1> QED
  BY <1>1, Invariance, PTL

\* A station has exactly the addresses that ADD_MAC_ADDR and DEL_MAC_ADDR have
\* left it since the configuration was loaded, each of them once: filling the
\* gap of a deleted address with the last one loses none.
THEOREM AddressesKept == Spec => []AddressesAsTold
<1>1. ASSUME IInv PROVE AddressesAsTold
  <2>1. /\ ctx.stations \in Seq(StationRecord)
        /\ \A k \in 1..Len(ctx.stations) : Exact(ctx.stations[k].addrs, told[k])
    BY <1>1 DEF IInv, ShapeInv, ShapeOf
  <2>2. DOMAIN ctx.stations = 1..Len(ctx.stations)
    BY <2>1, LenProperties
  <2>3. ASSUME NEW s, NEW t, Exact(s, t)
        PROVE  Range(s) = t /\ Len(s) = Cardinality(t)
    <3>1. DOMAIN s = 1..Len(s)
      BY <2>3, LenProperties DEF Exact
    <3> QED
      BY <2>3, <3>1 DEF Exact, Range
  <2> QED
    BY <2>1, <2>2, <2>3 DEF AddressesAsTold
<1> QED
  BY <1>1, Invariance, PTL

\* What the daemon can die of: a double free, a use after free, a null pointer
\* and a failed assertion of the scheduler each go back to one of the reloads,
\* rewritten files or captures that Explains names.
THEOREM FaultsExplained == Spec => []FaultsHaveCauses
<1>1. IInv => FaultsHaveCauses
  BY DEF IInv
<1> QED
  BY <1>1, Invariance, PTL

\* Every link has the quality that the file loaded last gives it after the
\* moves since, or the value of the last SET_SNR message since the load or the
\* last move, in both directions.
THEOREM LinksKept == Spec => []LinksAsConfigured
<1>1. ASSUME IInv PROVE LinksAsConfigured
  <2> DEFINE c == Content[ctx.config_path]
             Link(a, b) ==
                /\ c.type = "prob" =>
                      ctx.prob[<<a, b>>] = Configured(c, a, b, c.default_prob)
                /\ ctx.snr[<<a, b>>] =
                      IF {a, b} \in DOMAIN set_snr THEN set_snr[{a, b}]
                      ELSE CASE c.type = "snr" -> Configured(c, a, b, SNR_DEFAULT)
                             [] c.type = "path_loss" -> Moved(c, a, b)
                             [] OTHER -> SNR_DEFAULT
  <2>1. SUFFICES ASSUME Running, "moving" \notin causes, "rewritten" \notin causes,
                        NEW a \in 0..(ctx.num_stas - 1),
                        NEW b \in 0..(ctx.num_stas - 1), a # b
                 PROVE  Link(a, b)
    BY DEF LinksAsConfigured
  <2>2. Current(ctx, c) /\ Linked(ctx, c, moved, set_snr)
    BY <1>1, <2>1 DEF IInv, FileInv, Linking
  <2>3. ctx.num_stas = Len(c.ids)
    BY <2>2 DEF Current
  <2>4. /\ c.type = "prob" =>
              ctx.prob[<<a, b>>] = Configured(c, a, b, c.default_prob)
        /\ ctx.snr[<<a, b>>] =
              IF {a, b} \in DOMAIN set_snr THEN set_snr[{a, b}]
              ELSE FileSnr(c, moved, a, b)
    <3> HIDE DEF c
    <3> QED
      BY <2>1, <2>2, <2>3 DEF Linked
  <2>5. Moved(c, a, b) = SignalAfter(c, moved, a, b)
    BY DEF Moved, SignalAfter, XAfter
  <2> QED
    BY <2>4, <2>5 DEF FileSnr
<1> QED
  BY <1>1, Invariance, PTL

\* A reload that the daemon answers with WMEDIUMD_MSG_INVALID, and survives,
\* has left the configuration, its stations and its jobs as they were.
THEOREM RejectedHarmless == Spec => RejectedReloadChangesNothing
<1>1. ASSUME Next, reloads' # reloads, Running', reply' = "INVALID"
      PROVE  UNCHANGED <<config_vars, told, set_snr>>
  <2>1. \E f : Reload(f)
    <3>1. \/ ReloadConfig \/ ReloadCurrentConfig
          \/ reloads' = reloads
      BY <1>1, ZenonT(40) DEF Next, AddMacAddr, DelMacAddr, ProcessFrame, SetSnr,
            DeliverFrame, CallbackReturns, MoveStations, IntfUpdate, TimePasses,
            StartPcap, StopPcap, bound_vars
    <3> QED
      BY <1>1, <3>1 DEF ReloadConfig, ReloadCurrentConfig
  <2>2. PICK f, g : Revalidated(f, g)
    BY <2>1 DEF Reload
  <2>3. ~Crash("move job") /\ ~Crash("double free")
    BY <1>1, NoneAssumption DEF Crash, Running
  <2>4. \A x, p, q : ~Commit(x, p, q)
    BY <1>1 DEF Commit
  <2>5. UNCHANGED <<config_vars, fault, set_snr, told, moved>>
    BY <2>2, <2>3, <2>4 DEF Revalidated
  <2> QED
    BY <2>5
<1>2. [Next]_vars =>
        [reloads' # reloads /\ Running' /\ reply' = "INVALID"
            => UNCHANGED <<config_vars, told, set_snr>>]_vars
  BY <1>1
<1> QED
  BY <1>2, PTL DEF Spec, RejectedReloadChangesNothing
=============================================================================
