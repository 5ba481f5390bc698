----------------------------- MODULE BlockStats -----------------------------
(***************************************************************************)
(* Statistics of block propagation: meshsub_sink of                        *)
(* mina-recorder/src/connection/mina_protocol/mod.rs hands every gossip    *)
(* message to update_block_stats and StatsState::observe of                *)
(* mina-recorder/src/stats.rs, then posts the events to the aggregator,    *)
(* then writes the statistics to the database.                             *)
(*                                                                         *)
(* A debugger traces several nodes on one consumer thread; StatsState is   *)
(* kept per node.  A message is a sequence of events: a block, a           *)
(* transaction (or a snark, treated alike), a control message about a      *)
(* hash, a testing message.  `time` and `better_time` are one number.      *)
(***************************************************************************)
EXTENDS Integers, Sequences, SequencesExt, FiniteSets

CONSTANTS
    Debuggers,      \* recorders, each with a database
    Blocks,         \* [hash, height, txs]
    Txs,            \* transactions; what else a block takes from a pool is a snark
    ZeroHash,       \* the hash of testing messages
    NoValue,        \* the Option without a value
    Scenarios       \* what the model explores: who hosts which node, with an
                    \* aggregator or without, which messages and how many

VARIABLES
    scenario,   \* the one chosen
    clock,      \* messages so far; the next message's identifier
    st,         \* Cx::stats_state, per node
    sink,       \* per debugger the meshsub_sink in progress
    stats,      \* table of BlockStat, by height and node, persistent
    stats_v2,   \* table of single events, by height and time, persistent
    stats_tx,   \* table of TxStat, by height, persistent
    faults,     \* history: failures so far, bounded
    newest,     \* history: per debugger the latest time of a message
    disorder,   \* history: debuggers that met a message older than a former one
    gaps,       \* history: debuggers for which writing to stats_v2 failed
    gossiped    \* history: how often a transaction entered the pool of a node

statsVars == <<scenario, clock, st, sink, stats, stats_v2, stats_tx, faults, newest, disorder, gaps, gossiped>>

Nothing == [i \in {} |-> NoValue]
With(f, i, v) == [j \in DOMAIN f \cup {i} |-> IF j = i THEN v ELSE f[j]]
Without(f, S) == [j \in DOMAIN f \ S |-> f[j]]

Host(n) == scenario.host[n]
Traced == DOMAIN scenario.host
Hosted(d) == {n \in Traced : Host(n) = d}
Items == UNION {b.txs : b \in Blocks}

(* StatsState::default *)
StatsDefault == [first |-> Nothing, height |-> 0, events |-> <<>>, pool |-> Nothing, tx |-> NoValue]
SinkIdle == [phase |-> "idle", node |-> NoValue, queue |-> <<>>, updated |-> FALSE]

StatsInit ==
    /\ scenario \in Scenarios
    /\ clock = 0
    /\ st = [n \in Traced |-> StatsDefault]
    /\ sink = [d \in Debuggers |-> SinkIdle]
    /\ stats = [d \in Debuggers |-> Nothing]
    /\ stats_v2 = [d \in Debuggers |-> Nothing]
    /\ stats_tx = [d \in Debuggers |-> Nothing]
    /\ faults = 0
    /\ newest = [d \in Debuggers |-> 0]
    /\ disorder = {}
    /\ gaps = {}
    /\ gossiped = [n \in Traced |-> [t \in Items |-> 0]]

(* Something fails, or a process restarts. *)
Fault == faults < scenario.faults /\ faults' = faults + 1

Later(t0, t) == IF t > t0 THEN t - t0 ELSE 0

EventOf(m, hash, height, kind, latency) ==
    [hash |-> hash, height |-> height, kind |-> kind, incoming |-> m.incoming,
     id |-> m.id, time |-> m.time, latency |-> latency]

(* Mutant of NewHeight: the events of the former height stay. *)
NewHeightKeeps(s, height) ==
    IF s.height < height
    THEN [s EXCEPT !.first = Nothing, !.height = height, !.tx = NoValue]
    ELSE s

(* A block of a greater height ends the statistics of the former one. *)
NewHeight(s, height) ==
    IF s.height < height
    THEN [s EXCEPT !.first = Nothing, !.events = <<>>, !.height = height, !.tx = NoValue]
    ELSE s

(* Mutant of Include: a transaction of the block stays in the pool. *)
IncludeKeeps(s, m, block) ==
    LET taken == block.txs \cap DOMAIN s.pool
        stat == IF s.tx = NoValue
                THEN [height |-> block.height, listed |-> {}, pending |-> {}] ELSE s.tx
    IN [s EXCEPT
          !.first = With(@, block.hash, [time |-> m.time, height |-> block.height]),
          !.tx = [stat EXCEPT
                    !.listed = @ \cup {[tx |-> t, time |-> s.pool[t].time, block |-> block.hash] : t \in taken},
                    !.pending = {s.pool[t].id : t \in Txs \cap DOMAIN s.pool}]]

(* A block seen for the first time takes its transactions out of the pool. *)
Include(s, m, block) ==
    LET taken == block.txs \cap DOMAIN s.pool
        stat == IF s.tx = NoValue
                THEN [height |-> block.height, listed |-> {}, pending |-> {}] ELSE s.tx
    IN [s EXCEPT
          !.first = With(@, block.hash, [time |-> m.time, height |-> block.height]),
          !.pool = Without(@, taken),
          !.tx = [stat EXCEPT
                    !.listed = @ \cup {[tx |-> t, time |-> s.pool[t].time, block |-> block.hash] : t \in taken},
                    !.pending = {s.pool[t].id : t \in (Txs \cap DOMAIN s.pool) \ taken}]]

(* Mutant of Negative: the difference is taken the other way round. *)
NegativeSwapped(s, m, block) == \E t \in block.txs \cap DOMAIN s.pool : s.pool[t].time < m.time

(* The latency of a transaction would be negative: unwrap panics. *)
Negative(s, m, block) == \E t \in block.txs \cap DOMAIN s.pool : s.pool[t].time > m.time

Push(acc, event) ==
    [acc EXCEPT !.s.events = Append(@, event), !.updated = TRUE]
PushAndPost(acc, event) ==
    [Push(acc, event) EXCEPT !.out = Append(@, event)]

(* observe, GossipNetMessageV2::NewState *)
ObserveBlock(acc, m, block) ==
    LET s == NewHeight(acc.s, block.height)
        fresh == block.hash \notin DOMAIN s.first
        latency == IF fresh THEN NoValue ELSE Later(s.first[block.hash].time, m.time)
    IN IF s.height > block.height THEN acc
       ELSE PushAndPost([acc EXCEPT !.s = IF fresh THEN Include(s, m, block) ELSE s,
                                    !.panic = @ \/ (fresh /\ Negative(s, m, block))],
                        EventOf(m, block.hash, block.height, "block", latency))

(* observe, TransactionPoolDiff and SnarkPoolDiff *)
ObserveTx(acc, m, t) ==
    IF t \in DOMAIN acc.s.pool THEN acc
    ELSE [acc EXCEPT !.s.pool = With(@, t, [time |-> m.time, id |-> m.id]),
                     !.entered = @ \cup {t}]

(* observe, Control: a hash announced or asked for *)
ObserveControl(acc, m, hash) ==
    IF hash \in DOMAIN acc.s.first /\ acc.s.first[hash].height = acc.s.height
    THEN LET t0 == acc.s.first[hash].time IN
         PushAndPost(acc, EventOf(m, hash, acc.s.height, "control",
                                  IF m.time >= t0 THEN m.time - t0 ELSE NoValue))
    ELSE acc

(* observe, PublishTestingMessage *)
ObserveTest(acc, m, height) == Push(acc, EventOf(m, ZeroHash, height, "test", NoValue))

ObserveOne(acc, m, e) ==
    CASE e.kind = "block" -> ObserveBlock(acc, m, e.block)
      [] e.kind = "tx" -> ObserveTx(acc, m, e.tx)
      [] e.kind = "control" -> ObserveControl(acc, m, e.hash)
      [] e.kind = "test" -> ObserveTest(acc, m, e.height)

(* StatsState::observe *)
Observe(s, m, msg) ==
    FoldLeft(LAMBDA acc, e : ObserveOne(acc, m, e),
             [s |-> s, out |-> <<>>, updated |-> FALSE, panic |-> FALSE, entered |-> {}], msg)

(* The three tables of statistics and their keys. *)
put_stats(rows, s, n) == With(rows, <<s.height, n>>, s.events)
put_stats_block_v2(rows, event) == With(rows, <<event.height, event.time>>, event)
put_stats_tx(rows, s) == IF s.tx = NoValue THEN rows ELSE With(rows, s.height, s.tx)

(* update_block_stats writes an event at once, whatever its height. *)
UpdateBlockStats(rows, m, msg) ==
    FoldLeft(LAMBDA acc, e :
               CASE e.kind = "block" ->
                      put_stats_block_v2(acc, EventOf(m, e.block.hash, e.block.height, "block", NoValue))
                 [] e.kind = "test" ->
                      put_stats_block_v2(acc, EventOf(m, ZeroHash, e.height, "test", NoValue))
                 [] OTHER -> acc,
             rows, msg)

(* meshsub_sink until the lock of stats_state is dropped: the message has  *)
(* its number.  The error of a failing update_block_stats is logged.       *)
MeshsubSink(n, msg, incoming, time) ==
    LET d == Host(n)
        m == [id |-> clock + 1, time |-> time, incoming |-> incoming]
        acc == Observe(st[n], m, msg)
    IN /\ sink[d].phase = "idle"
       /\ clock < scenario.limit
       /\ clock' = clock + 1
       /\ st' = [st EXCEPT ![n] = acc.s]
       /\ \/ /\ stats_v2' = [stats_v2 EXCEPT ![d] = UpdateBlockStats(@, m, msg)]
             /\ UNCHANGED <<gaps, faults>>
          \/ /\ UpdateBlockStats(stats_v2[d], m, msg) # stats_v2[d]
             /\ Fault
             /\ gaps' = gaps \cup {d}
             /\ UNCHANGED stats_v2
       /\ sink' = [sink EXCEPT ![d] =
                     IF acc.panic THEN [SinkIdle EXCEPT !.phase = "negative"]
                     ELSE [phase |-> "io", node |-> n, updated |-> acc.updated,
                           queue |-> IF scenario.aggregator THEN acc.out ELSE <<>>]]
       /\ newest' = [newest EXCEPT ![d] = IF time > @ THEN time ELSE @]
       /\ disorder' = IF time < newest[d] THEN disorder \cup {d} ELSE disorder
       /\ gossiped' = [gossiped EXCEPT ![n] = [t \in Items |-> @[t] + IF t \in acc.entered THEN 1 ELSE 0]]
       /\ UNCHANGED <<scenario, stats, stats_tx>>

(* The event at the head of the queue was posted, or could not be. *)
Posted(d) == sink' = [sink EXCEPT ![d].queue = Tail(@)]

(* The end of meshsub_sink: DbFacade::stats if a block event was added,    *)
(* and DbFacade::stats_tx (its flag is never false).  A failing write is   *)
(* an unwrap.                                                              *)
Store(d) ==
    LET n == sink[d].node
        put == put_stats(stats[d], st[n], n)
    IN /\ sink[d].phase = "io" /\ sink[d].queue = <<>>
       /\ \/ /\ stats' = IF sink[d].updated THEN [stats EXCEPT ![d] = put] ELSE stats
             /\ stats_tx' = [stats_tx EXCEPT ![d] = put_stats_tx(@, st[n])]
             /\ sink' = [sink EXCEPT ![d] = SinkIdle]
             /\ UNCHANGED faults
          \/ /\ Fault
             /\ stats' \in {stats} \cup IF sink[d].updated THEN {[stats EXCEPT ![d] = put]} ELSE {}
             /\ sink' = [sink EXCEPT ![d] = [SinkIdle EXCEPT !.phase = "unwritten"]]
             /\ UNCHANGED stats_tx
       /\ UNCHANGED <<scenario, clock, st, stats_v2, newest, disorder, gaps, gossiped>>

(* The recorder ends and starts again. *)
RestartRecorder(d) ==
    /\ Fault
    /\ st' = [n \in Traced |-> IF Host(n) = d THEN StatsDefault ELSE st[n]]
    /\ sink' = [sink EXCEPT ![d] = SinkIdle]
    /\ gossiped' = [n \in Traced |-> IF Host(n) = d THEN [t \in Items |-> 0] ELSE gossiped[n]]
    /\ newest' = [newest EXCEPT ![d] = 0]
    /\ disorder' = disorder \ {d}
    /\ UNCHANGED <<scenario, clock, stats, stats_v2, stats_tx, gaps>>

-----------------------------------------------------------------------------
(* Properties *)

BlockEvents(events, hash) == SelectSeq(events, LAMBDA e : e.hash = hash /\ e.kind # "test")

(* A row of statistics is about one height; what it says of a block starts *)
(* with the block's own first sight, which is the only block event without *)
(* a latency, and all latencies count from there, however heights, forks,  *)
(* control messages and testing messages mix.  The table of single events  *)
(* has a row for each of its block events.                                 *)
LatencyFromFirst ==
    \A d \in Debuggers : \A key \in DOMAIN stats[d] : \A b \in Blocks :
        LET row == stats[d][key]
            about == BlockEvents(row, b.hash)
        IN about # <<>> =>
             /\ d \notin gaps => \A i \in 1 .. Len(about) :
                  about[i].kind = "block" => <<b.height, about[i].time>> \in DOMAIN stats_v2[d]
             /\ b.height = key[1]
             /\ about[1].kind = "block" /\ about[1].latency = NoValue
             /\ \A i \in 2 .. Len(about) :
                  IF about[i].time < about[1].time
                  THEN about[i].latency = IF about[i].kind = "block" THEN 0 ELSE NoValue
                  ELSE about[i].latency = about[i].time - about[1].time

(* A transaction is listed as included once for each time it entered the   *)
(* pool, also when two blocks of a height contain it, and what is listed   *)
(* is not pending unless it was gossiped again.                            *)
ListedOnce ==
    \A n \in Traced : st[n].tx # NoValue =>
        \A t \in Items :
            LET listed == {l \in st[n].tx.listed : l.tx = t} IN
            /\ Cardinality(listed) <= gossiped[n][t]
            /\ listed # {} /\ gossiped[n][t] = 1 => t \notin DOMAIN st[n].pool

(* The consumer thread only panics over the latency of a transaction if    *)
(* the messages of its nodes came out of order.                            *)
PanicsOnlyOnDisorder == \A d \in Debuggers : sink[d].phase = "negative" => d \in disorder
=============================================================================
