---------------------------- MODULE Propagation -----------------------------
(***************************************************************************)
(* Recorders and the aggregator: the events meshsub_sink finds are posted  *)
(* one after the other over HTTP by a client that waits for the answer     *)
(* (Aggregator::post_event) and forgets about errors.  A request may be    *)
(* refused, or time out and be handled all the same later.  Recorders and  *)
(* aggregator end and start again.                                         *)
(***************************************************************************)
EXTENDS BlockStats, Aggregator

VARIABLES
    requests,   \* requests sent and not accepted yet
    waiting,    \* per debugger the request it waits for, or None
    serving     \* per worker the request it serves, or None

vars == <<statsVars, aggregatorVars, requests, waiting, serving>>

KeyOf(n) == [alias |-> Host(n), node |-> n]

Init ==
    /\ StatsInit
    /\ AggregatorInit
    /\ requests = {}
    /\ waiting = [d \in Debuggers |-> None]
    /\ serving = [w \in Workers |-> None]

(* Gossip reaches a node, or leaves it. *)
Gossip(n) ==
    /\ \E msg \in scenario.msgs, incoming \in scenario.directions :
         \E time \in clock + 1 - scenario.skew .. clock + 1 :
            time > 0 /\ MeshsubSink(n, msg, incoming, time)
    /\ UNCHANGED <<aggregatorVars, requests, waiting, serving>>

StoreStats(d) ==
    /\ Store(d)
    /\ UNCHANGED <<aggregatorVars, requests, waiting, serving>>

(* Aggregator::post_event: the request goes out, and the client waits. *)
PostEvent(d) ==
    LET r == [key |-> KeyOf(sink[d].node), event |-> Head(sink[d].queue)] IN
    /\ sink[d].phase = "io" /\ sink[d].queue # <<>>
    /\ waiting[d] = None
    /\ waiting' = [waiting EXCEPT ![d] = r]
    /\ requests' = requests \cup {r}
    /\ UNCHANGED <<statsVars, aggregatorVars, serving>>

Rest == UNCHANGED <<scenario, clock, st, stats, stats_v2, stats_tx, newest, disorder, gaps, gossiped>>

(* The client stops waiting for a request and goes on with its queue. *)
Resume(d) ==
    /\ Posted(d)
    /\ waiting' = [waiting EXCEPT ![d] = None]
    /\ Rest

(* The answer reaches the client if it still waits. *)
Answer(r) ==
    IF waiting[r.key.alias] = r THEN Resume(r.key.alias)
    ELSE UNCHANGED <<sink, waiting>> /\ Rest

(* The connection is refused. *)
Refused(d) ==
    /\ waiting[d] # None /\ waiting[d] \in requests
    /\ requests' = requests \ {waiting[d]}
    /\ Resume(d)
    /\ Fault
    /\ UNCHANGED <<aggregatorVars, serving>>

(* The client's timeout passes; the request remains. *)
TimesOut(d) ==
    /\ waiting[d] # None
    /\ Resume(d)
    /\ Fault
    /\ UNCHANGED <<aggregatorVars, requests, serving>>

(* A worker accepts a request; an event of a former height is answered at  *)
(* once.                                                                   *)
Register(w) ==
    \E r \in requests :
        /\ serving[w] = None
        /\ PostData(w, r.key, r.event)
        /\ requests' = requests \ {r}
        /\ IF r.event.height < height
           THEN Answer(r) /\ UNCHANGED serving
           ELSE serving' = [serving EXCEPT ![w] = r] /\ UNCHANGED <<sink, waiting>> /\ Rest
        /\ UNCHANGED faults

Finish(w) ==
    /\ (PutBlock(w) /\ UNCHANGED faults) \/ (PutBlockFails(w) /\ Fault)
    /\ Answer(serving[w])
    /\ serving' = [serving EXCEPT ![w] = None]
    /\ UNCHANGED requests

(* The aggregator restarts; clients get an error. *)
RestartAggregator ==
    /\ scenario.aggregator
    /\ Fault
    /\ OpenAggregator
    /\ requests' = {}
    /\ serving' = [w \in Workers |-> None]
    /\ waiting' = [d \in Debuggers |-> None]
    /\ sink' = [d \in Debuggers |->
                  IF waiting[d] = None THEN sink[d] ELSE [sink[d] EXCEPT !.queue = Tail(@)]]
    /\ Rest

(* A recorder restarts; what it sent stays sent. *)
Restart(d) ==
    /\ RestartRecorder(d)
    /\ waiting' = [waiting EXCEPT ![d] = None]
    /\ UNCHANGED <<aggregatorVars, requests, serving>>

Next ==
    \/ \E n \in Traced : Gossip(n)
    \/ \E d \in Debuggers : StoreStats(d) \/ PostEvent(d) \/ Refused(d) \/ TimesOut(d) \/ Restart(d)
    \/ \E w \in Workers : Register(w) \/ Finish(w)
    \/ RestartAggregator

Spec == Init /\ [][Next]_vars

-----------------------------------------------------------------------------
(* Properties *)

(* What the aggregator should know of a hash from the events of a node. *)
Expected(events) ==
    LET sent == SelectSeq(events, LAMBDA e : ~e.incoming /\ (e.latency # None \/ e = events[1])) IN
    [received |-> IF events[1].incoming THEN events[1].id ELSE None,
     sent |-> IF sent = <<>> THEN None ELSE sent[1].id]

(* As long as no request was lost or late and nothing restarted, the       *)
(* aggregator is never behind a recorder that has posted its events, and   *)
(* what it knows of a block at a node of its height is what that recorder  *)
(* recorded: the first reception and the first sending.                    *)
FaithfulRelay ==
    scenario.aggregator /\ faults = 0 =>
        \A n \in Traced : sink[Host(n)].phase # "negative" /\ sink[Host(n)].queue = <<>> =>
            /\ st[n].height <= height
            /\ st[n].height = height /\ height > 0 =>
                 \A hash \in Hashes :
                    LET known == last[<<hash, KeyOf(n)>>]
                        events == BlockEvents(st[n].events, hash)
                    IN IF events = <<>> THEN known = None
                       ELSE known # None /\ Expected(events) =
                              [received |-> known.received, sent |-> known.sent]
=============================================================================
