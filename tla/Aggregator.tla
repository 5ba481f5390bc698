---------------------------- MODULE Aggregator -----------------------------
(***************************************************************************)
(* mina-aggregator: debuggers post what their nodes saw of a block, the    *)
(* aggregator keeps the latest height in memory and writes a row for each  *)
(* height.  Requests are handled by several worker threads at once.        *)
(*                                                                         *)
(* post_data changes the state under a lock and takes a copy of it; the    *)
(* copy is written to the database after the lock is released.  A row is   *)
(* the map from (hash, key) to what is known; the order of its events, by  *)
(* receiving time, and the times are left out.                             *)
(***************************************************************************)
EXTENDS Integers

CONSTANTS
    Hashes,     \* hashes of blocks
    Keys,       \* debugger and node, [alias, node]
    Workers,    \* threads of the HTTP server
    Heights,    \* heights of blocks
    None        \* the Option without a value

VARIABLES
    height,     \* State::height
    last,       \* State::last
    ids,        \* State::ids, None for an address not seen
    counter,    \* State::counter
    handler,    \* per worker: None or the row it is about to write
    table,      \* the column family "block", persistent
    peak,       \* history: per height the latest contents of last in this life
    crowded,    \* history: heights with two writes in flight, or a failed one
    mine        \* history: heights whose row was written in this life

aggregatorVars == <<height, last, ids, counter, handler, table, peak, crowded, mine>>

Rows == Hashes \X Keys
Empty == [i \in Rows |-> None]

Addrs == {k.node : k \in Keys}

(* What the database keeps of a hash and a key, a row, and a row on its    *)
(* way to the table.                                                       *)
Entries == [received : Nat \cup {None}, sent : Nat \cup {None}, node_id : Nat]
Values == [Rows -> Entries \cup {None}]
Writes == [height : Heights, value : Values]

ASSUME HeightsAssumption == Heights \subseteq Nat \ {0}
ASSUME NoneAssumption ==
    None \notin Nat /\ None \notin Entries /\ None \notin Values /\ None \notin Writes

AggregatorInit ==
    /\ height = 0
    /\ last = Empty
    /\ ids = [n \in Addrs |-> None]
    /\ counter = 0
    /\ handler = [w \in Workers |-> None]
    /\ table = [h \in Heights |-> None]
    /\ peak = [h \in Heights |-> None]
    /\ crowded = {}
    /\ mine = {}

(* GlobalEvent::new *)
GlobalEvent(event, id) ==
    [received |-> IF event.incoming THEN event.id ELSE None,
     sent |-> IF event.incoming THEN None ELSE event.id,
     node_id |-> id]

(* Mutant of AppendEvent: the direction is not looked at. *)
AppendEventAny(entry, event) ==
    IF event.latency # None THEN [entry EXCEPT !.sent = event.id] ELSE entry

(* GlobalEvent::append: only an event that knows its latency and goes out. *)
AppendEvent(entry, event) ==
    IF event.latency # None /\ ~event.incoming
    THEN [entry EXCEPT !.sent = event.id] ELSE entry

(* Mutant of Update: the guard on sent_message_id is dropped. *)
UpdateAlways(entry, event, id) ==
    IF entry = None THEN GlobalEvent(event, id) ELSE AppendEvent(entry, event)

(* What post_data makes of the entry of the event's hash and key. *)
Update(entry, event, id) ==
    IF entry = None THEN GlobalEvent(event, id)
    ELSE IF entry.sent = None THEN AppendEvent(entry, event) ELSE entry

Busy(h) == \E w \in Workers : handler[w] # None /\ handler[w].height = h

(* post_data up to the release of the lock. *)
PostData(w, key, event) ==
    /\ handler[w] = None
    /\ IF event.height < height
       THEN UNCHANGED aggregatorVars
       ELSE LET id == IF ids[key.node] = None THEN counter ELSE ids[key.node]
                kept == IF event.height > height THEN Empty ELSE last
                i == <<event.hash, key>>
                new == [kept EXCEPT ![i] = Update(kept[i], event, id)]
            IN /\ height' = event.height
               /\ ids' = [ids EXCEPT ![key.node] = id]
               /\ counter' = IF ids[key.node] = None THEN counter + 1 ELSE counter
               /\ last' = new
               /\ handler' = [handler EXCEPT ![w] = [height |-> event.height, value |-> new]]
               /\ peak' = [peak EXCEPT ![event.height] = new]
               /\ crowded' = IF Busy(event.height) THEN crowded \cup {event.height} ELSE crowded
               /\ UNCHANGED <<table, mine>>

(* Mutant of PutBlock: a row that is there is left alone. *)
PutBlockOnce(w) ==
    /\ handler[w] # None
    /\ table' = [table EXCEPT ![handler[w].height] = IF @ = None THEN handler[w].value ELSE @]
    /\ handler' = [handler EXCEPT ![w] = None]
    /\ mine' = mine \cup {handler[w].height}
    /\ UNCHANGED <<height, last, ids, counter, peak, crowded>>

(* put_block, the end of post_data *)
PutBlock(w) ==
    /\ handler[w] # None
    /\ table' = [table EXCEPT ![handler[w].height] = handler[w].value]
    /\ handler' = [handler EXCEPT ![w] = None]
    /\ mine' = mine \cup {handler[w].height}
    /\ UNCHANGED <<height, last, ids, counter, peak, crowded>>

(* put_block fails: the error is logged. *)
PutBlockFails(w) ==
    /\ handler[w] # None
    /\ crowded' = crowded \cup {handler[w].height}
    /\ handler' = [handler EXCEPT ![w] = None]
    /\ UNCHANGED <<height, last, ids, counter, table, peak, mine>>

(* The process ends, with writes in flight or none, and is started again:  *)
(* Database::open reads nothing back.                                      *)
OpenAggregator ==
    /\ height' = 0
    /\ last' = Empty
    /\ ids' = [n \in Addrs |-> None]
    /\ counter' = 0
    /\ handler' = [w \in Workers |-> None]
    /\ peak' = [h \in Heights |-> None]
    /\ crowded' = {}
    /\ mine' = {}
    /\ UNCHANGED table

(* Database::latest and Database::by_height *)
Latest == <<height, last>>
ByHeight(h) == table[h]

(* Events as post_data looks at them. *)
Events == [hash : Hashes, height : Heights, incoming : BOOLEAN, id : Nat, latency : Nat \cup {None}]

(* The aggregator by itself: any debugger posts anything at any time. *)
AggregatorNext ==
    \/ \E w \in Workers :
         \/ \E key \in Keys, event \in Events : PostData(w, key, event)
         \/ PutBlock(w) \/ PutBlockFails(w)
    \/ OpenAggregator

AggregatorSpec == AggregatorInit /\ [][AggregatorNext]_aggregatorVars

-----------------------------------------------------------------------------
(* Properties *)

(* v is an earlier state of w: what v knows, w knows. *)
Grown(v, w) ==
    \A i \in Rows : v[i] # None =>
        /\ w[i] # None
        /\ w[i].received = v[i].received
        /\ w[i].node_id = v[i].node_id
        /\ v[i].sent # None => w[i].sent = v[i].sent

(* A copy of the state that waits to be written, and a row once written,   *)
(* never contradict the state post_data went on to build: they know less,  *)
(* never something else, however many workers and posts lie between.       *)
SnapshotsArePast ==
    /\ \A w \in Workers : handler[w] # None =>
         /\ peak[handler[w].height] # None
         /\ Grown(handler[w].value, peak[handler[w].height])
    /\ \A h \in mine : Grown(ByHeight(h), peak[h])
    /\ height # 0 => Latest = <<height, peak[height]>>

(* The row of a height is the state of that height as it was last in       *)
(* memory, or is about to be, unless two posts of that height overlapped   *)
(* between the release of the lock and the write, or a write failed.       *)
RowIsCurrent ==
    \A h \in Heights : peak[h] # None /\ h \notin crowded =>
        \/ ByHeight(h) = peak[h]
        \/ \E w \in Workers : handler[w] = [height |-> h, value |-> peak[h]]
=============================================================================
