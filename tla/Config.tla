------------------------------- MODULE Config -------------------------------
(***************************************************************************)
(* The configuration of a running daemon: load_config(), clear_config() and *)
(* validate_config(), the jobs that work on what they allocate, and the    *)
(* messages that change it: reloads, SET_SNR, added and deleted addresses, *)
(* packet captures.                                                        *)
(*                                                                         *)
(* A file is a record of what libconfig finds in it.  load_config() makes  *)
(* no calls that wait, so each call is one operator on the context; a      *)
(* pointer is "NULL", "live" or "freed".  Stations are the members of a    *)
(* sequence, the station with index i at i + 1; a reload starts a new      *)
(* generation of stations, and a frame remembers the generation of its     *)
(* sender.  What is undefined behaviour in C, and a failed assertion,      *)
(* sets fault and ends the behaviour.                                      *)
(***************************************************************************)
EXTENDS Integers, Sequences, SequencesExt, FiniteSets

CONSTANTS
    Content,        \* Content[f]: what is in file f
    FirstFile,      \* the files the daemon may be started with
    PerFile,        \* the daemon is started with a PER file
    Addr,           \* addresses that may be added to a station
    Client,
    Snr,            \* the values of SET_SNR messages
    CapturePath,    \* where captures may go
    Unwritable,     \* those of them that cannot be opened
    None,
    RewrittenAs,    \* the files another may turn into before it is read again
    MaxTime,        \* bound: the time in move intervals
    MaxMessages     \* bound: the number of messages

File == DOMAIN Content

\* a link names two stations and a value, unless it is misspelt
LinkEntry == {<<>>} \cup (Int \X Int \X Int)

\* what load_config() may find in a file that libconfig can read; the lists of
\* a path loss model that is not broken have an entry for every station
IsContent(c) ==
    /\ {c.readable, c.enable_interference, c.moving} \subseteq BOOLEAN
    /\ c.type \in {"none", "snr", "prob", "path_loss"}
    /\ c.broken \in {"no", "early", "late"}
    /\ c.ids \in Seq(Range(c.ids))
    /\ c.links \in Seq(LinkEntry)
    /\ c.type = "path_loss" /\ c.broken = "no" =>
          /\ {c.positions, c.tx_powers} \subseteq [1..Len(c.ids) -> Int]
          /\ c.moving => c.directions \in [1..Len(c.ids) -> Int]

ASSUME ContentAssumption == \A f \in File : IsContent(Content[f])
ASSUME FileAssumption ==
    /\ FirstFile \cup RewrittenAs \subseteq File
    /\ PerFile \in BOOLEAN
ASSUME NoneAssumption ==
    None \notin Int \cup CapturePath \cup
        {"ACK", "INVALID", "double free", "use after free", "null pointer",
         "move job"}
ASSUME BoundAssumption == MaxTime \in Nat /\ MaxMessages \in Nat

VARIABLES
    ctx,            \* the fields of struct wmediumd that depend on the file
    gen,            \* the generation of the stations
    move_job,       \* the start of the move job, or None
    intf_job,       \* the interference job is scheduled
    dangling,       \* the job list holds a job of a context that is gone
    now,            \* scheduler.current_time
    frames,         \* the generations of the senders of the queued frames
    callback,       \* the generation a delivery callback works on, or None
    pcap_file,
    open_files,     \* history: the captures that were opened and not closed
    reply,          \* the response to the last API message
    fault,
    causes,         \* history: what was done that the code is not up to
    set_snr,        \* history: the links set by messages since the last load
    told,           \* history: the addresses each station was told to have
    moved,          \* history: the moves since the last load
    reloads,        \* history: the reloads among the messages
    messages

config_vars == <<ctx, gen, move_job, intf_job, dangling>>
history_vars == <<causes, set_snr, told, moved>>
bound_vars == <<reloads, messages>>
vars == <<config_vars, now, frames, callback, pcap_file, open_files, reply,
          fault, history_vars, bound_vars>>

NOISE_LEVEL == -91
SNR_DEFAULT == 30
Garbage == -1000        \* log10(0) converted to int
-----------------------------------------------------------------------------
(* Path loss, in hundredths of dB until it is converted to int.            *)

\* 100 * log10(d) for distances up to 20 m
Log10(d) == <<0, 30, 48, 60, 70, 78, 85, 90, 95, 100, 104, 108, 111, 115, 118,
              120, 123, 126, 128, 130>>[d]

\* the three calc_path_loss functions, with the parameters of the file
calc_path_loss(m, d) ==
    CASE m.name = "free_space" -> (4009 + 20 * Log10(d)) \div 100
      [] m.name = "log_distance" ->
            (4009 + 10 * m.path_loss_exp * Log10(d) + m.xg) \div 100
      [] m.name = "itu" ->
            (18765 + (IF d > 16 THEN 38 ELSE 28) * Log10(d)
             + 100 * m.LF * m.nFLOORS - 2800) \div 100

Distance(a, b) == IF a.x > b.x THEN a.x - b.x ELSE b.x - a.x

\* recalc_path_loss(): the matrix from the positions and transmit powers
PathLossMatrix(m, stations, matrix) ==
    [e \in DOMAIN matrix |->
        LET from == stations[e[1] + 1]
            to == stations[e[2] + 1]
        IN  IF e[1] = e[2] THEN matrix[e]
            ELSE IF Distance(from, to) = 0 THEN Garbage
            ELSE from.tx_power - calc_path_loss(m, Distance(to, from))
                 - NOISE_LEVEL]
-----------------------------------------------------------------------------
(* load_config() and clear_config() on a context x.                        *)

NoCtx ==
    [config_path |-> None, num_stas |-> 0, stations |-> <<>>,
     sta_array |-> "NULL", intf |-> "NULL", snr_matrix |-> "NULL",
     error_prob_matrix |-> "NULL", snr |-> <<>>, prob |-> <<>>,
     get_link_snr |-> None, get_error_prob |-> None, path_loss |-> None]

NewStation(a) ==
    [addr |-> a, hwaddr |-> a, addrs |-> <<>>, client |-> None, x |-> 0,
     dir |-> 0, tx_power |-> SNR_DEFAULT]

Pairs(n) == (0..(n - 1)) \X (0..(n - 1))

Valid(link, n) == link # <<>> /\ link[1] \in 0..(n - 1) /\ link[2] \in 0..(n - 1)
Probability == 0..10        \* in tenths

\* the last entry of the links is the one that stays
LinkValue(links, e, default) ==
    LET k == SelectLastInSeq(links, LAMBDA l : l[1] = e[1] /\ l[2] = e[2])
    IN  IF k = 0 THEN default ELSE links[k][3]

\* mutant: mirrors every link that is configured
MirrorAll(links, e, default) ==
    IF \E k \in DOMAIN links : links[k][1] = e[2] /\ links[k][2] = e[1]
    THEN LinkValue(links, <<e[2], e[1]>>, default)
    ELSE LinkValue(links, e, default)
\* the link map and mirror_link(): the other direction, if only that is there
Mirrored(links, e, default) ==
    IF /\ e[1] # e[2]
       /\ \A k \in DOMAIN links : ~(links[k][1] = e[1] /\ links[k][2] = e[2])
    THEN LinkValue(links, <<e[2], e[1]>>, default)
    ELSE LinkValue(links, e, default)

FreeIfLive(p) == IF p = "live" THEN "freed" ELSE p

\* the label "fail": the tables are freed, the pointers to them stay
Fail(x, adds) ==
    [result |-> "fail", adds_job |-> adds,
     ctx |-> [x EXCEPT !.snr_matrix = FreeIfLive(@),
                       !.error_prob_matrix = FreeIfLive(@)]]

\* parse_path_loss(): where the values of the model do not fit the stations it
\* fails before ("early") or after ("late") it has added the move job.
ParsePathLoss(x, c) ==
    LET stations == [k \in DOMAIN x.stations |->
                       [x.stations[k] EXCEPT !.x = c.positions[k],
                            !.dir = IF c.moving THEN c.directions[k] ELSE 0,
                            !.tx_power = c.tx_powers[k]]]
    IN  [x EXCEPT !.stations = stations, !.path_loss = c.model,
                  !.snr = PathLossMatrix(c.model, stations, x.snr)]

\* the part of load_config() behind the stations and the interference table
LoadLinks(x, c, per) ==
    LET n == x.num_stas
        adds == c.type = "path_loss" /\ c.moving /\ c.broken # "early"
        modelled == IF c.type = "path_loss" THEN ParsePathLoss(x, c) ELSE x
        table == IF c.type = "prob" THEN [modelled EXCEPT
                        !.error_prob_matrix = "live", !.get_link_snr = "default",
                        !.get_error_prob = "matrix"]
                 ELSE [modelled EXCEPT
                        !.error_prob_matrix = "NULL", !.get_link_snr = "matrix",
                        !.get_error_prob = IF per THEN "per" ELSE "snr"]
        bad_link == \E k \in DOMAIN c.links :
                        \/ ~Valid(c.links[k], n)
                        \/ c.type = "prob" /\ c.links[k][3] \notin Probability
    IN  IF \/ c.type = "path_loss" /\ c.broken # "no"
           \/ c.type = "prob" /\ per
        THEN Fail(x, adds)
        ELSE IF \/ c.type = "prob" /\ c.default_prob \notin Probability
                \/ c.type \in {"snr", "prob"} /\ bad_link
        THEN Fail(table, FALSE)
        ELSE [result |-> "ok", adds_job |-> adds,
              ctx |-> [table EXCEPT
                 !.snr = IF c.type # "snr" THEN @
                         ELSE [e \in Pairs(n) |->
                                 Mirrored(c.links, e, SNR_DEFAULT)],
                 !.prob = IF c.type # "prob" THEN <<>>
                          ELSE [e \in Pairs(n) |->
                                  Mirrored(c.links, e,
                                     IF e[1] = e[2] THEN 0
                                     ELSE c.default_prob)]]]

load_config(x, f, c, per) ==
    LET n == Len(c.ids)
        stations == [k \in 1..n |-> NewStation(c.ids[k])]
    IN  IF ~c.readable
        THEN [result |-> "error", adds_job |-> FALSE,
              ctx |-> [x EXCEPT !.config_path = f]]
        ELSE LoadLinks([x EXCEPT
                !.config_path = f, !.sta_array = "live", !.num_stas = n,
                !.stations = @ \o stations,
                !.intf = IF c.enable_interference THEN "live" ELSE "NULL",
                !.snr_matrix = "live",
                !.snr = [e \in Pairs(n) |-> SNR_DEFAULT]], c, per)

\* mutant: the list of stations is not emptied
clear_config_keeps_stations(x) ==
    [x EXCEPT !.sta_array = "NULL", !.intf = "NULL", !.snr_matrix = "NULL",
              !.error_prob_matrix = "NULL", !.config_path = None]
clear_config(x) ==
    [x EXCEPT !.sta_array = "NULL", !.intf = "NULL", !.snr_matrix = "NULL",
              !.error_prob_matrix = "NULL", !.config_path = None,
              !.stations = <<>>]

\* clear_config() frees what the context points to
FreesTwice(x) == "freed" \in {x.snr_matrix, x.error_prob_matrix}
-----------------------------------------------------------------------------
(* Reloading: process_reload_config_message() and                          *)
(* process_reload_current_config_message().                                *)

Fresh(x) ==
    /\ set_snr' = [p \in {} |-> 0]
    /\ told' = [k \in DOMAIN x.stations |-> {}]
    /\ moved' = 0

Crash(why) ==
    /\ fault' = why
    /\ UNCHANGED <<config_vars, reply, set_snr, told, moved>>

\* What a reload does that the code is not up to: file f is validated and g is
\* what is found when it is read again.
Causes(f, g) ==
    LET c == Content[g] IN
    {w \in {"rejected", "directions", "busy", "moving", "interference",
           "rewritten"} :
        CASE w = "rejected" ->
                load_config(NoCtx, f, Content[f], FALSE).result = "fail"
          [] w = "directions" ->
                load_config(NoCtx, f, Content[f], FALSE).adds_job
                \/ load_config(NoCtx, g, c, FALSE).adds_job
          [] w = "busy" -> Content[f].readable /\ (frames # {} \/ callback # None)
          [] w = "moving" -> Content[f].readable /\ move_job # None
          [] w = "interference" ->
                Content[f].readable /\ intf_job # c.enable_interference
          [] w = "rewritten" -> f # g}

Commit(x, adds, trial_adds) ==
    /\ ctx' = x
    /\ gen' = gen + 1
    /\ move_job' = IF adds THEN 1 ELSE move_job
    /\ dangling' = (dangling \/ trial_adds)
    /\ reply' = "ACK"
    /\ Fresh(x)
    /\ UNCHANGED <<intf_job, fault>>

\* mutant: loads the file without validating it first
RevalidatedNot(f, g) ==
    LET main == load_config(clear_config(ctx), f, Content[g], FALSE) IN
    IF main.result = "ok" THEN Commit(main.ctx, main.adds_job, FALSE)
    ELSE /\ ctx' = main.ctx
         /\ gen' = gen + 1
         /\ reply' = "INVALID"
         /\ Fresh(main.ctx)
         /\ UNCHANGED <<move_job, intf_job, dangling, fault>>

\* validate_config() loads into a context of its own and clears that; only
\* then the running context is cleared and loaded, without the PER file and
\* whatever the result.
Revalidated(f, g) ==
    LET trial == load_config(NoCtx, f, Content[f], FALSE)
        main == load_config(clear_config(ctx), f, Content[g], FALSE)
        \* the assertions in add_job, or it meets the job of the trial
        clash == now > 1 \/ move_job # None \/ trial.adds_job \/ dangling
    IN  IF trial.adds_job /\ now > 1 THEN Crash("move job")
        ELSE IF FreesTwice(trial.ctx) THEN Crash("double free")
        ELSE IF trial.result = "error"
        THEN /\ reply' = "INVALID"
             /\ UNCHANGED <<config_vars, fault, set_snr, told, moved>>
        ELSE IF FreesTwice(ctx) THEN Crash("double free")
        ELSE IF main.adds_job /\ clash THEN Crash("move job")
        ELSE Commit(main.ctx, main.adds_job, trial.adds_job)

Message == messages < MaxMessages /\ messages' = messages + 1

Reload(f) ==
    /\ Message
    /\ reloads' = reloads + 1
    /\ \E g \in {f} \cup RewrittenAs :
          /\ causes' = causes \cup Causes(f, g)
          /\ Revalidated(f, g)
    /\ UNCHANGED <<now, frames, callback, pcap_file, open_files>>

\* the file is named, or it is the one that was loaded last
ReloadConfig == \E f \in File : Reload(f)
ReloadCurrentConfig == Reload(ctx.config_path)
-----------------------------------------------------------------------------
(* Stations and their addresses.                                           *)

station_has_addr(st, a) == st.addr = a \/ a \in Range(st.addrs)

\* the list is walked from its head; 0 stands for NULL
get_station_by_addr(a) == SelectInSeq(ctx.stations, LAMBDA st : st.addr = a)
get_station_by_used_addr(a) ==
    SelectInSeq(ctx.stations, LAMBDA st : station_has_addr(st, a))

AllAddr == Addr \cup UNION {Range(Content[f].ids) : f \in File}

\* HWSIM_CMD_ADD_MAC_ADDR
AddMacAddr(hwaddr, a) ==
    LET k == get_station_by_addr(hwaddr) IN
    /\ Message
    /\ k # 0
    /\ ctx' = IF a \in Range(ctx.stations[k].addrs) THEN ctx
              ELSE [ctx EXCEPT !.stations[k].addrs = Append(@, a)]
    /\ told' = [told EXCEPT ![k] = @ \cup {a}]
    /\ UNCHANGED <<gen, move_job, intf_job, dangling, now, frames, callback,
                   pcap_file, open_files, reply, fault, causes, set_snr, moved,
                   reloads>>

\* mutant: the last address goes, wherever the deleted one was
WithoutLast(addrs, k) == Front(addrs)
\* the last address takes the place of the deleted one
Without(addrs, k) ==
    LET last == Last(addrs) IN Front([addrs EXCEPT ![k] = last])

\* HWSIM_CMD_DEL_MAC_ADDR
DelMacAddr(hwaddr, a) ==
    LET k == get_station_by_addr(hwaddr)
        n == SelectInSeq(ctx.stations[k].addrs, LAMBDA b : b = a)
    IN  /\ Message
        /\ k # 0
        /\ ctx' = IF n = 0 THEN ctx
                  ELSE [ctx EXCEPT !.stations[k].addrs = Without(@, n)]
        /\ told' = [told EXCEPT ![k] = @ \ {a}]
        /\ UNCHANGED <<gen, move_job, intf_job, dangling, now, frames,
                       callback, pcap_file, open_files, reply, fault, causes,
                       set_snr, moved, reloads>>

\* HWSIM_CMD_FRAME from station src, to another station: the sender is looked
\* up, learns its radio and its client, and the frame is queued on it.
ProcessFrame(cl, hwaddr, src) ==
    LET k == IF get_station_by_addr(hwaddr) # 0 THEN get_station_by_addr(hwaddr)
             ELSE get_station_by_used_addr(src)
    IN  /\ Message
        /\ frames = {}
        /\ k # 0
        /\ IF dangling THEN Crash("move job") /\ UNCHANGED frames
           ELSE IF ctx.get_link_snr = "matrix" /\ ctx.snr_matrix # "live"
           THEN Crash("use after free") /\ UNCHANGED frames
           ELSE /\ frames' = {gen}
                /\ ctx' = [ctx EXCEPT
                      !.stations[k].hwaddr =
                          IF get_station_by_addr(hwaddr) = 0 THEN hwaddr ELSE @,
                      !.stations[k].client = IF @ = None THEN cl ELSE @]
                /\ UNCHANGED <<gen, move_job, intf_job, dangling, reply, fault,
                               set_snr, told, moved>>
        /\ UNCHANGED <<now, callback, pcap_file, open_files, causes, reloads>>

\* WMEDIUMD_MSG_SET_SNR
SetSnr(a, b, v) ==
    LET m == get_station_by_addr(a)
        n == get_station_by_addr(b)
    IN  /\ Message
        /\ CASE m = 0 \/ n = 0 ->
                  /\ reply' = "INVALID"
                  /\ UNCHANGED <<config_vars, fault, set_snr, told, moved>>
             [] m # 0 /\ n # 0 /\ ctx.snr_matrix # "live" ->
                  Crash("use after free")
             [] OTHER ->
                  /\ ctx' = [ctx EXCEPT !.snr = [@ EXCEPT
                               ![<<n - 1, m - 1>>] = v, ![<<m - 1, n - 1>>] = v]]
                  /\ set_snr' = [p \in DOMAIN set_snr \cup {{m - 1, n - 1}} |->
                                   IF p = {m - 1, n - 1} THEN v ELSE set_snr[p]]
                  /\ reply' = "ACK"
                  /\ UNCHANGED <<gen, move_job, intf_job, dangling, fault, told,
                                 moved>>
        /\ UNCHANGED <<now, frames, callback, pcap_file, open_files, causes,
                       reloads>>
-----------------------------------------------------------------------------
(* Jobs: they run while no callback is on the stack; a callback that waits *)
(* for a client lets the event loop handle messages.                       *)

\* wmediumd_deliver_frame(): the frame is taken off its sender's queue
DeliverFrame(g) ==
    /\ callback = None
    /\ frames' = frames \ {g}
    /\ IF g = gen /\ ~dangling
       THEN callback' = g /\ fault' = fault
       ELSE fault' = "use after free" /\ callback' = callback
    /\ UNCHANGED <<config_vars, now, pcap_file, open_files, reply,
                   history_vars, bound_vars>>

\* it goes on with the list of stations and the sender
CallbackReturns ==
    /\ callback # None
    /\ callback' = None
    /\ fault' = IF callback = gen THEN fault ELSE "use after free"
    /\ UNCHANGED <<config_vars, now, frames, pcap_file, open_files, reply,
                   history_vars, bound_vars>>

\* job->start += MOVE_INTERVAL * 1000000
NextMove == now + 1

\* move_stations_to_direction()
MoveStations ==
    /\ callback = None
    /\ move_job = now
    /\ IF dangling \/ ctx.snr_matrix = "freed"
       THEN Crash("use after free")
       ELSE IF ctx.sta_array = "NULL"
       THEN Crash("null pointer")
       ELSE LET stations == [k \in DOMAIN ctx.stations |->
                  [ctx.stations[k] EXCEPT !.x = @ + ctx.stations[k].dir]] IN
            /\ ctx' = [ctx EXCEPT !.stations = stations, !.snr =
                          PathLossMatrix(ctx.path_loss, stations, ctx.snr)]
            /\ move_job' = NextMove
            /\ moved' = moved + 1
            /\ set_snr' = [p \in {} |-> 0]
            /\ UNCHANGED <<gen, intf_job, dangling, reply, fault, told>>
    /\ UNCHANGED <<now, frames, callback, pcap_file, open_files, causes,
                   bound_vars>>

\* mutant: the job is there whether or not there is a table to update
IntfJobAlways(x) == TRUE
\* main() adds the job once, for the table it finds
IntfJob(x) == x.intf = "live"

\* wmediumd_intf_update() where there is no table any more; with one it
\* changes nothing that this module is about
IntfUpdate ==
    /\ callback = None
    /\ intf_job
    /\ ctx.intf = "NULL" /\ ctx.num_stas > 1
    /\ Crash("null pointer")
    /\ UNCHANGED <<now, frames, callback, pcap_file, open_files, causes,
                   bound_vars>>

TimePasses ==
    /\ callback = None
    /\ now < MaxTime
    /\ move_job # None => now < move_job
    /\ now' = now + 1
    /\ UNCHANGED <<config_vars, frames, callback, pcap_file, open_files, reply,
                   fault, history_vars, bound_vars>>
-----------------------------------------------------------------------------
(* Packet captures.                                                        *)

\* close_pcapng()
Closed == open_files \ {pcap_file}

\* init_pcapng() for WMEDIUMD_MSG_START_PCAP
StartPcap(path) ==
    /\ Message
    /\ IF path \in Unwritable
       THEN /\ fault' = "null pointer"
            /\ causes' = causes \cup {"capture"}
            /\ UNCHANGED <<pcap_file, open_files, reply>>
       ELSE /\ pcap_file' = path
            /\ open_files' = Closed \cup {path}
            /\ reply' = "ACK"
            /\ UNCHANGED <<fault, causes>>
    /\ UNCHANGED <<config_vars, now, frames, callback, set_snr, told, moved,
                   reloads>>

StopPcap ==
    /\ Message
    /\ pcap_file' = None
    /\ open_files' = Closed
    /\ reply' = "ACK"
    /\ UNCHANGED <<config_vars, now, frames, callback, fault, history_vars,
                   reloads>>
-----------------------------------------------------------------------------
\* main(): the first file has to load
Init ==
    /\ \E f \in FirstFile :
          LET first == load_config(NoCtx, f, Content[f], PerFile) IN
          /\ first.result = "ok"
          /\ ctx = first.ctx
          /\ move_job = IF first.adds_job THEN 1 ELSE None
          /\ intf_job = IntfJob(first.ctx)
          /\ told = [k \in DOMAIN first.ctx.stations |-> {}]
    /\ gen = 0 /\ dangling = FALSE /\ now = 0
    /\ frames = {} /\ callback = None
    /\ pcap_file = None /\ open_files = {}
    /\ reply = None /\ fault = None /\ causes = {}
    /\ set_snr = [p \in {} |-> 0] /\ moved = 0
    /\ reloads = 0 /\ messages = 0

Next ==
    /\ fault = None
    /\ \/ ReloadConfig \/ ReloadCurrentConfig
       \/ \E hwaddr \in AllAddr, a \in Addr :
             AddMacAddr(hwaddr, a) \/ DelMacAddr(hwaddr, a)
       \/ \E cl \in Client, hwaddr, src \in AllAddr :
             ProcessFrame(cl, hwaddr, src)
       \/ \E a, b \in AllAddr \ Addr, v \in Snr : a # b /\ SetSnr(a, b, v)
       \/ \E g \in frames : DeliverFrame(g)
       \/ CallbackReturns \/ MoveStations \/ IntfUpdate \/ TimePasses
       \/ \E path \in CapturePath : StartPcap(path)
       \/ StopPcap

Spec == Init /\ [][Next]_vars
-----------------------------------------------------------------------------
(* Properties.                                                             *)

Running == fault = None

\* The context has the shape of struct wmediumd, and the pointers are NULL,
\* live or freed.
TypeOK ==
    /\ DOMAIN ctx = DOMAIN NoCtx
    /\ {ctx.sta_array, ctx.intf, ctx.snr_matrix, ctx.error_prob_matrix}
          \subseteq {"NULL", "live", "freed"}
    /\ DOMAIN told = DOMAIN ctx.stations
    /\ move_job \in (0..(MaxTime + 1)) \cup {None} /\ now \in 0..MaxTime
    /\ fault \in {None, "double free", "use after free", "null pointer",
                  "move job"}
    /\ reply \in {None, "ACK", "INVALID"}

\* While the daemon runs, the tables fit the stations whatever was reloaded in
\* whatever order: the matrices have a row for every station, and the function
\* that reads the error probabilities is set exactly if their matrix is there,
\* which is also what use_fixed_random_value() goes by.
TablesMatchStations ==
    Running /\ "rewritten" \notin causes =>
        /\ ctx.sta_array = "live" /\ ctx.snr_matrix = "live"
        /\ ctx.num_stas = Len(ctx.stations)
        /\ DOMAIN ctx.snr = Pairs(Len(ctx.stations))
        /\ (ctx.error_prob_matrix = "live") <=> (ctx.get_error_prob = "matrix")
        /\ (ctx.error_prob_matrix = "live") <=> (ctx.get_link_snr = "default")

\* Reference definition of the links of a file: README.md:124, "If only one
\* direction of a link is configured, then the link will be symmetric."
Configured(c, a, b, default) ==
    LET Entries(x, y) == {k \in DOMAIN c.links :
                            c.links[k][1] = x /\ c.links[k][2] = y}
        Latest(ks) == c.links[CHOOSE k \in ks : \A n \in ks : n <= k][3]
    IN  IF Entries(a, b) # {} THEN Latest(Entries(a, b))
        ELSE IF Entries(b, a) # {} THEN Latest(Entries(b, a)) ELSE default

\* the signal between two stations after the moves since the load
Moved(c, a, b) ==
    LET X(k) == c.positions[k + 1] + (IF c.moving THEN moved * c.directions[k + 1]
                                      ELSE 0)
        d == IF X(a) > X(b) THEN X(a) - X(b) ELSE X(b) - X(a)
    IN  IF d = 0 THEN Garbage
        ELSE c.tx_powers[a + 1] - calc_path_loss(c.model, d) - NOISE_LEVEL

\* Every link has the quality that the file loaded last gives it, or the value
\* of the last SET_SNR message since, in both directions: nothing of an earlier
\* file shows through.  (A move job that outlives its file does, and so does a
\* file that changes between the two times it is read.)
LinksAsConfigured ==
    Running /\ causes \cap {"moving", "rewritten"} = {} =>
        LET c == Content[ctx.config_path] IN
        \A a, b \in 0..(ctx.num_stas - 1) : a # b =>
            /\ c.type = "prob" =>
                  ctx.prob[<<a, b>>] = Configured(c, a, b, c.default_prob)
            /\ ctx.snr[<<a, b>>] =
                  IF {a, b} \in DOMAIN set_snr THEN set_snr[{a, b}]
                  ELSE CASE c.type = "snr" -> Configured(c, a, b, SNR_DEFAULT)
                         [] c.type = "path_loss" -> Moved(c, a, b)
                         [] OTHER -> SNR_DEFAULT

\* The addresses of a station are those the kernel added and did not delete
\* since the configuration was loaded, without duplicates: deleting one moves
\* another and loses none.
AddressesAsTold ==
    \A k \in DOMAIN ctx.stations :
        /\ Range(ctx.stations[k].addrs) = told[k]
        /\ Len(ctx.stations[k].addrs) = Cardinality(told[k])

\* A reload that is answered with WMEDIUMD_MSG_INVALID leaves the running
\* configuration, its stations and its jobs as they were.
RejectedReloadChangesNothing ==
    [][reloads' # reloads /\ Running' /\ reply' = "INVALID"
        => UNCHANGED <<config_vars, told, set_snr>>]_vars

\* What a daemon can die of.  Files that are static, valid or unreadable may be
\* reloaded in any order while no frame is on its way; every fault goes back
\* to one of the causes that its entry names.
Explains(w) ==
    CASE w = "double free" -> {"rejected", "rewritten"}
      [] w = "move job" -> {"directions"}
      [] w = "use after free" -> {"busy", "rewritten"}
      [] w = "null pointer" -> {"interference", "rewritten", "capture"}

FaultsHaveCauses == fault # None => Explains(fault) \cap causes # {}

\* Starting a capture closes the one before it (api.h:60, "If a previous
\* capture exists, the capture will be closed"): no capture stays open that
\* pcap_file does not name.
CapturesClosed == open_files = {pcap_file} \ {None}

\* What the daemon keeps fits together after any sequence of messages: the
\* tables, the stations and the functions that read them, and the captures
\* that are open.
TablesInv == TypeOK /\ TablesMatchStations /\ CapturesClosed

\* Reloading files that are valid, while no frame is on its way, does not bring
\* the daemon down (api.h:50, "Clear and reload configuration at specified
\* path", and api.h:55, "Clear and reload configuration loaded before").
SurvivesReload ==
    fault # None => causes \cap {"rejected", "rewritten", "busy", "capture"} # {}

\* Reloading "configuration loaded before" (api.h:55) keeps the PER file.
PerFileKept ==
    Running /\ PerFile /\ causes = {} /\ ctx.config_path \in FirstFile
        => ctx.get_error_prob = "per"
=============================================================================
