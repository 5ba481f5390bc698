------------------------------ MODULE Programs ------------------------------
(***************************************************************************)
(* Which programs are watched, and under which name their pipes are        *)
(* recorded.  The execve probes of bpf-recorder/src/main.rs look at the    *)
(* arguments and the environment of every program that is started, announce *)
(* the ones that matter and put their pid into a kernel map; the consumer  *)
(* thread keeps tables by pid from those announcements and hands the reads *)
(* and writes of descriptors 0 and 1 to a CapnpReader (module Ipc).        *)
(*                                                                         *)
(* No table is ever cleaned: a pid that gets a new program, by another     *)
(* execve or because the system reuses it, keeps what the former one left. *)
(* The programs themselves are external: each is given by what the probes  *)
(* look at and by the messages it exchanges over its pipes.  Events arrive *)
(* in reservation order (module RingBuffer) and times grow with them.      *)
(***************************************************************************)
EXTENDS Ipc

CONSTANTS
    Pids,            \* process identifiers
    Plans,           \* the programs to be started on every pid, in order; a
                     \* program is [snark, named, alias, script]
    Unknown,         \* no alias: in the environment, or 0.0.0.0:0 in a row
    MaxLosses,       \* bound of the model: reservations or insertions that fail
    MaxQueue         \* bound of the model: events in flight

VARIABLES
    todo,              \* programs still to be started
    image,             \* pid -> number of the program it runs, 0 for none
    pid,               \* kernel map of watched pids
    pid_snark_worker,  \* kernel map of snark workers
    queue,             \* events sent and not yet dispatched
    apps,              \* pid -> <<alias, port>>
    snark_workers,     \* pids the consumer takes for snark workers
    capnp_readers,     \* <<pid, incoming>> -> buffer
    capnp_blacklist,   \* the pipes it has given up
    subscriptions,     \* subscription id -> topic, of all programs
    rows,              \* the capnp table
    gens,              \* history: the programs started, in order
    losses             \* failures so far

kernelVars == <<pid, pid_snark_worker>>
readerVars == <<capnp_readers, capnp_blacklist, subscriptions, rows>>
userVars == <<apps, snark_workers, readerVars>>
vars == <<todo, image, kernelVars, queue, userVars, gens, losses>>

Empty == [x \in {} |-> 0]

Init ==
    /\ todo \in Plans
    /\ image = [p \in Pids |-> 0]
    /\ pid = {} /\ pid_snark_worker = {}
    /\ queue = <<>>
    /\ apps = Empty /\ snark_workers = {}
    /\ capnp_readers = Empty /\ capnp_blacklist = {}
    /\ subscriptions = Empty /\ rows = <<>>
    /\ gens = <<>> /\ losses = 0

-----------------------------------------------------------------------------
(* The probes of execve and execveat.  k is [sent, pid, snark, failed]:    *)
(* the events sent, the two maps, and how many requests for room failed.   *)

(* A probe in which one request for room, the n-th, finds none. *)
Fails(k, n) == k.fail = n
Scratch == 1  \* room for strings to be compared
Report == 2   \* room for the event
Insertion == 3

(* check_snark_worker: is the third argument "snark-worker"?  The result  *)
(* is Ok(true) only when the event was sent and the pid inserted.         *)
check_snark_worker(k, p, prog) ==
    IF Fails(k, <<"snark", Scratch>>) \/ ~prog.snark THEN [k EXCEPT !.res = "no"]
    ELSE IF Fails(k, <<"snark", Report>>) THEN [k EXCEPT !.res = "no"]
    ELSE LET sent == [k EXCEPT !.sent = Append(@, [tag |-> "snark", pid |-> p])]
         IN IF Fails(k, <<"snark", Insertion>>) THEN [sent EXCEPT !.res = "no"]
            ELSE [sent EXCEPT !.snark = @ \cup {p}, !.res = "yes"]

(* check_name: does the first argument name libp2p_helper or openmina? *)
check_name(k, prog) == prog.named /\ ~Fails(k, <<"name", Scratch>>)

(* Mutant of check_env_flag: the pid is inserted, then announced. *)
check_env_flag_late(k, p, prog) ==
    IF prog.alias = Unknown \/ Fails(k, <<"env", Scratch>>) THEN k
    ELSE LET in == [k EXCEPT !.pid = IF Fails(k, <<"env", Insertion>>) THEN @ ELSE @ \cup {p}]
         IN IF Fails(k, <<"env", Report>>) THEN in
            ELSE [in EXCEPT !.sent = Append(@, [tag |-> "alias", pid |-> p,
                                                alias |-> prog.alias])]

(* check_env_flag: the alias in the environment is announced, then the    *)
(* pid is inserted.                                                       *)
check_env_flag(k, p, prog) ==
    IF prog.alias = Unknown \/ Fails(k, <<"env", Scratch>>)
                            \/ Fails(k, <<"env", Report>>) THEN k
    ELSE LET sent == [k EXCEPT !.sent = Append(@, [tag |-> "alias", pid |-> p,
                                                   alias |-> prog.alias])]
         IN IF Fails(k, <<"env", Insertion>>) THEN sent
            ELSE [sent EXCEPT !.pid = @ \cup {p}]

Probe(k, p, prog) ==
    LET s == check_snark_worker(k, p, prog)
    IN IF s.res = "yes" \/ ~check_name(s, prog) THEN s
       ELSE check_env_flag(s, p, prog)

Failures == {<<"none", 0>>, <<"name", Scratch>>} \cup
            ({"snark", "env"} \X {Scratch, Report, Insertion})

Announced(sent, prog) ==
    \E i \in DOMAIN sent : sent[i].tag = "alias" /\ sent[i].alias = prog.alias

(* execve, execveat: the probe runs when the call begins; the program is  *)
(* replaced unless the call fails.                                        *)
Execve(p) ==
    /\ todo[p] # <<>>
    /\ todo' = [todo EXCEPT ![p] = Tail(@)]
    /\ Len(queue) + 2 <= MaxQueue
    /\ \E fail \in Failures, replaced \in BOOLEAN :
          /\ fail # <<"none", 0>> => losses < MaxLosses
          /\ ~replaced => image[p] # 0
          /\ LET prog == Head(todo[p])
                 k == Probe([sent |-> <<>>, pid |-> pid, snark |-> pid_snark_worker,
                             fail |-> fail, res |-> "no"], p, prog)
                 new == [pid |-> p, prog |-> prog, pos |-> 0, lost |-> FALSE,
                         announced |-> Announced(k.sent, prog),
                         heard |-> [d \in BOOLEAN |-> <<>>]]
             IN /\ queue' = queue \o k.sent
                /\ pid' = k.pid
                /\ pid_snark_worker' = k.snark
                /\ IF replaced
                   THEN /\ gens' = Append(gens, new)
                        /\ image' = [image EXCEPT ![p] = Len(gens')]
                   ELSE /\ gens' = [gens EXCEPT ![image[p]].announced = FALSE,
                                                ![image[p]].lost =
                                                    @ \/ prog.snark \/ p \notin pid]
                        /\ UNCHANGED image
                /\ losses' = losses + (IF fail = <<"none", 0>> THEN 0 ELSE 1)
    /\ UNCHANGED userVars

-----------------------------------------------------------------------------
(* The running program reads its requests and writes its answers, in the  *)
(* order of its script; a call carries any number of parts one way.       *)

Trace(prog) ==
    FlattenSeq([i \in DOMAIN prog.script |->
        [j \in 1..2 |-> [incoming |-> prog.script[i].incoming,
                         part |-> Parts(prog.script[i].msg)[j]]]])

(* check_pid, check_pid_snark_worker *)
Watched(p) == p \in pid \cup pid_snark_worker

(* enter, exit, on_ret, on_ret_snark_worker for descriptors 0 and 1: the   *)
(* data is sent when one of the maps has the pid.                          *)
Transfer(p) ==
    /\ image[p] # 0
    /\ LET g == image[p]
           trace == Trace(gens[g].prog)
           pos == gens[g].pos
       IN \E n \in 1..(Len(trace) - pos) :
          /\ \A i \in 1..n : trace[pos + i].incoming = trace[pos + 1].incoming
          /\ LET e == [tag |-> "data", pid |-> p, gen |-> g,
                       incoming |-> trace[pos + 1].incoming,
                       data |-> [i \in 1..n |-> trace[pos + i].part]]
                 seen == Watched(p)
             IN \/ /\ seen /\ Len(queue) < MaxQueue
                   /\ queue' = Append(queue, e)
                   /\ gens' = [gens EXCEPT ![g].pos = @ + n]
                   /\ UNCHANGED losses
                \/ /\ seen /\ losses < MaxLosses
                   /\ losses' = losses + 1
                   /\ gens' = [gens EXCEPT ![g].pos = @ + n, ![g].lost = TRUE]
                   /\ UNCHANGED queue
                \/ /\ ~seen
                   /\ gens' = [gens EXCEPT ![g].pos = @ + n]
                   /\ UNCHANGED <<queue, losses>>
    /\ UNCHANGED <<todo, image, kernelVars, userVars>>

(* bind: reported for watched programs only.  The model binds before the   *)
(* first message, and one bind is in flight at a time.                     *)
Bind(p) ==
    /\ image[p] # 0 /\ p \in pid
    /\ Len(queue) < MaxQueue
    /\ gens[image[p]].pos = 0
    /\ \A i \in DOMAIN queue : queue[i].tag # "bind"
    /\ queue' = Append(queue, [tag |-> "bind", pid |-> p])
    /\ UNCHANGED <<todo, image, kernelVars, userVars, gens, losses>>

-----------------------------------------------------------------------------
(* The consumer thread. *)

(* NewSnarkWorkerApp *)
OnSnarkWorker(e) ==
    /\ e.tag = "snark"
    /\ snark_workers' = snark_workers \cup {e.pid}
    /\ UNCHANGED <<apps, readerVars, gens>>

(* NewApp, on_alias *)
OnNewApp(e) ==
    /\ e.tag = "alias"
    /\ apps' = With(apps, e.pid, <<e.alias, "8302">>)
    /\ UNCHANGED <<snark_workers, readerVars, gens>>

(* Bind, set_port *)
OnBind(e) ==
    /\ e.tag = "bind"
    /\ apps' = IF e.pid \in DOMAIN apps THEN [apps EXCEPT ![e.pid][2] = "bound"] ELSE apps
    /\ UNCHANGED <<snark_workers, readerVars, gens>>

pid_to_addr(p) == IF p \in DOMAIN apps THEN apps[p] ELSE <<Unknown, "0">>

Heard(e) == gens' = [gens EXCEPT ![e.gen].heard[e.incoming] = @ \o e.data]

(* IncomingData and OutgoingData of a snark worker go nowhere, and so do   *)
(* those of a pipe that was given up.                                      *)
OnDataIgnored(e) ==
    /\ e.tag = "data"
    /\ e.pid \in snark_workers \/ <<e.pid, e.incoming>> \in capnp_blacklist
    /\ Heard(e)
    /\ UNCHANGED userVars

(* IncomingData and OutgoingData on descriptors 0 and 1: the reader takes *)
(* the data; what it found becomes one row, if it has a height and no     *)
(* error came after it; a pipe with an error is given up for good.        *)
OnIpcData(e) ==
    LET key == <<e.pid, e.incoming>>
        old == IF key \in DOMAIN capnp_readers THEN capnp_readers[key] ELSE <<>>
    IN /\ e.tag = "data"
       /\ e.pid \notin snark_workers
       /\ key \notin capnp_blacklist
       /\ \E garbled \in {"more", "error"} :
             LET r == ProcessStep(old \o e.data, subscriptions, e.incoming, garbled)
                 height == RowHeight(r.events)
             IN /\ subscriptions' = r.subscriptions
                /\ rows' = IF r.ok /\ height # 0
                           THEN put_capnp(rows, [height |-> height,
                                                 node |-> pid_to_addr(e.pid),
                                                 events |-> r.events, gen |-> e.gen])
                           ELSE rows
                /\ capnp_readers' = IF r.ok THEN With(capnp_readers, key, r.buffer)
                                    ELSE Without(capnp_readers, key)
                /\ capnp_blacklist' = IF r.ok THEN capnp_blacklist
                                      ELSE capnp_blacklist \cup {key}
       /\ Heard(e)
       /\ UNCHANGED <<apps, snark_workers>>

Dispatch ==
    /\ queue # <<>>
    /\ LET e == Head(queue)
       IN OnSnarkWorker(e) \/ OnNewApp(e) \/ OnBind(e) \/ OnDataIgnored(e) \/ OnIpcData(e)
    /\ queue' = Tail(queue)
    /\ UNCHANGED <<todo, image, kernelVars, losses>>

Next ==
    \/ \E p \in Pids : Execve(p) \/ Transfer(p) \/ Bind(p)
    \/ Dispatch

Spec == Init /\ [][Next]_vars

-----------------------------------------------------------------------------
(* The properties. *)

(* Every row of the capnp table names a node, and the right one: never     *)
(* the 0.0.0.0:0 that pid_to_addr gives for a pid nobody announced, and,   *)
(* as long as the program's own announcement was sent and no execve that   *)
(* failed announced another, the alias of the program that wrote the data. *)
(* It rests on the order in check_env_flag, the event before the pid, and  *)
(* on the queue between the probes and the consumer.                       *)
AddressedRight ==
    \A i \in DOMAIN rows :
        /\ rows[i].node[1] # Unknown
        /\ gens[rows[i].gen].announced => rows[i].node[1] = gens[rows[i].gen].prog.alias

(* What a program has said one way, as far as the consumer has seen it,    *)
(* in messages.                                                            *)
Messages(g, d) ==
    LET h == gens[g].heard[d]
    IN [i \in 1..(Len(h) \div 2) |-> h[2 * i - 1].msg]
Garbage(g, d) == \E i \in DOMAIN gens[g].heard[d] : gens[g].heard[d][i].msg.t = "bad"

(* Nothing the pid did before, and nothing lost, is in the program's way. *)
Undisturbed(g, d) ==
    \A f \in 1..g : gens[f].pid = gens[g].pid =>
        /\ ~gens[f].lost /\ ~gens[f].prog.snark
        /\ f < g => Len(gens[f].heard[d]) % 2 = 0 /\ ~Garbage(f, d)

SaidBlocks(g, d) ==
    LET ms == SelectSeq(Messages(g, d), LAMBDA m : m.t \in {"publish", "gossip"})
        pays == [i \in DOMAIN ms |-> ms[i].pay]
    IN SelectSeq(pays, LAMBDA x : x.kind \in {"block", "test"})

(* The blocks of a program's rows by height: rows of one height are in the *)
(* order in which they were put.                                           *)
StoredBlocks(g, d) ==
    LET own == SelectSeq(rows, LAMBDA r : r.gen = g)
        all == FlattenSeq([i \in DOMAIN own |-> own[i].events])
        dir == IF d THEN "sent" ELSE "received"
        blocks == SelectSeq(all, LAMBDA e : e.dir = dir /\ HasHeight(e))
    IN [i \in DOMAIN blocks |-> blocks[i].pay]

Count(s, x) == Len(SelectSeq(s, LAMBDA y : y = x))

(* However a program's messages are cut into reads and writes, every block *)
(* it published or received is in exactly as many events of the table as   *)
(* the program said it, as soon as its last byte was dispatched: process   *)
(* takes all it can from each buffer.  With garbage on the pipe none is    *)
(* invented.  The exceptions are those of Undisturbed: the reader, the     *)
(* blacklist and the table of snark workers outlive the program.           *)
BlocksStoredOnce ==
    \A g \in DOMAIN gens, d \in BOOLEAN :
        Undisturbed(g, d) =>
            LET said == SaidBlocks(g, d)
                stored == StoredBlocks(g, d)
            IN \A x \in ToSet(said) \cup ToSet(stored) :
                  IF Garbage(g, d) THEN Count(stored, x) <= Count(said, x)
                  ELSE Count(stored, x) = Count(said, x)

(* The list of a height without repeats (fetch_capnp with all = false,     *)
(* through fetch_capnp_latest for the last height) shows no event of a     *)
(* node twice, and it leaves an event out only after a row, of that height *)
(* and before it, that has nothing new: there scan ends the list instead   *)
(* of passing over the row.                                                *)
ListEndsAtRepeat ==
    \A h \in {rows[i].height : i \in DOMAIN rows} :
        LET full == fetch_capnp(rows, h, TRUE)
            list == IF h = Last(rows).height THEN fetch_capnp_latest(rows, FALSE)
                    ELSE fetch_capnp(rows, h, FALSE)
            KeysOf(r) == {Key(r.node, r.events[j]) : j \in DOMAIN r.events}
            Before(i) == UNION {KeysOf(full[j]) : j \in 1..(i - 1)}
            repeats == {i \in DOMAIN full : KeysOf(full[i]) \subseteq Before(i)}
        IN /\ \A i, j \in DOMAIN list : i < j => KeysOf(list[i]) \cap KeysOf(list[j]) = {}
           /\ \A i \in DOMAIN full :
                 (\A k \in repeats : i < k) =>
                    i \in DOMAIN list /\ KeysOf(full[i]) \ Before(i) = KeysOf(list[i])
=============================================================================
