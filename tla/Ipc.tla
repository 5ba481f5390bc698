-------------------------------- MODULE Ipc --------------------------------
(***************************************************************************)
(* What the recorder makes of the pipes between a mina node and its        *)
(* libp2p_helper: CapnpReader of mina-recorder/src/libp2p_helper/mod.rs,   *)
(* the rows it puts into the database, and the queries of                  *)
(* database/core.rs that list them.                                        *)
(*                                                                         *)
(* A capnp message is a record with a tag t; the wire carries it in two    *)
(* parts, so that a read may end inside it.  A payload has an identity, a  *)
(* kind and a height: a "block" and a "test" message have one, a "tx"      *)
(* (transactions, snark work) has none, "junk" is not decodable.  A hash   *)
(* is the pair of what calc_hash mixes, the payload and the topic.  Chain  *)
(* identifiers, peer names and log lines are left out: the code never      *)
(* reads them back.                                                        *)
(***************************************************************************)
EXTENDS Integers, Sequences, SequencesExt

CONSTANT DefaultTopic

Parts(m) == <<[msg |-> m, part |-> 1], [msg |-> m, part |-> 2]>>
calc_hash(pay, topic) == <<pay.id, topic>>

Without(f, x) == [y \in DOMAIN f \ {x} |-> f[y]]
With(f, x, v) == [y \in DOMAIN f \cup {x} |-> IF y = x THEN v ELSE f[y]]

-----------------------------------------------------------------------------
(* One message, taken into the events and the table of subscriptions. *)

process_request(r, m) ==
    CASE m.t = "publish" ->
           [r EXCEPT !.events = Append(@, [dir |-> "sent", pay |-> m.pay,
                                           hash |-> calc_hash(m.pay, m.topic)])]
      [] m.t = "subscribe" ->
           [r EXCEPT !.subscriptions = With(@, m.id, m.topic)]
      [] OTHER -> r

process_response(r, m) ==
    LET topic == IF m.id \in DOMAIN r.subscriptions
                 THEN r.subscriptions[m.id] ELSE DefaultTopic
    IN IF m.t = "gossip"
       THEN [r EXCEPT !.events = Append(@, [dir |-> "received", pay |-> m.pay,
                                            hash |-> calc_hash(m.pay, topic)])]
       ELSE r

(* read_message of the capnp library: a message that is not there in full *)
(* asks for more; a buffer that does not begin with one either fails or,  *)
(* taking what it sees for a length, asks for more as well.               *)
ReadMessage(buffer, garbled) ==
    LET h == Head(buffer)
    IN IF h.part = 2 THEN garbled
       ELSE IF h.msg.t = "bad" THEN "error"
       ELSE IF Len(buffer) = 1 THEN "more"
       ELSE IF buffer[2] = [h EXCEPT !.part = 2] THEN "ok" ELSE garbled

(* process: messages are taken until the buffer is empty or ends inside   *)
(* one.  r is [buffer, events, subscriptions, ok].                        *)
RECURSIVE ProcessLoop(_, _, _)
ProcessLoop(r, incoming, garbled) ==
    IF r.buffer = <<>> THEN r
    ELSE LET res == ReadMessage(r.buffer, garbled)
             m == Head(r.buffer).msg
             s == IF incoming THEN process_request(r, m) ELSE process_response(r, m)
         IN CASE res = "ok" ->
                   ProcessLoop([s EXCEPT !.buffer = SubSeq(@, 3, Len(@))], incoming, garbled)
              [] res = "more" -> r
              [] res = "error" -> [r EXCEPT !.ok = FALSE]

(* Mutant of ProcessStep: one message per read, the rest stays in the buffer. *)
ProcessOne(buffer, subs, incoming, garbled) ==
    LET n == IF Len(buffer) < 2 THEN Len(buffer) ELSE 2
        r == ProcessLoop([buffer |-> SubSeq(buffer, 1, n), events |-> <<>>,
                          subscriptions |-> subs, ok |-> TRUE], incoming, garbled)
    IN [r EXCEPT !.buffer = @ \o SubSeq(buffer, n + 1, Len(buffer))]
ProcessStep(buffer, subs, incoming, garbled) ==
    ProcessLoop([buffer |-> buffer, events |-> <<>>, subscriptions |-> subs,
                 ok |-> TRUE], incoming, garbled)

(* The height of a row: that of the first event that has one, 0 if none. *)
HasHeight(e) == e.pay.kind \in {"block", "test"}
RowHeight(events) ==
    LET with == SelectSeq(events, HasHeight)
    IN IF with = <<>> THEN 0 ELSE Head(with).pay.height

-----------------------------------------------------------------------------
(* The rows, in the order of their keys: by height, then by time. *)

(* put_capnp: times grow, so a row follows all rows of its height. *)
put_capnp(rows, row) ==
    LET before == {i \in DOMAIN rows : rows[i].height <= row.height}
    IN InsertAt(rows, 1 + (IF before = {} THEN 0 ELSE Max(before)), row)

(* CapnpTableRow::transform: events that cannot be decoded are left out. *)
Transform(row) == [row EXCEPT !.events = SelectSeq(@, LAMBDA e : e.pay.kind # "junk")]

(* retain, event by event, what was not seen of this node in this         *)
(* direction.  s is [seen, out].                                          *)
Key(node, e) == <<node, e.dir, e.hash>>
(* Mutant of Retain: what one node has seen is filtered out for all. *)
RetainAcross(s, node, e) ==
    IF <<e.dir, e.hash>> \in {<<k[2], k[3]>> : k \in s.seen} THEN s
    ELSE [seen |-> s.seen \cup {Key(node, e)}, out |-> Append(s.out, e)]
Retain(s, node, e) ==
    IF Key(node, e) \in s.seen THEN s
    ELSE [seen |-> s.seen \cup {Key(node, e)}, out |-> Append(s.out, e)]

(* scan: a row left without events ends the iteration. *)
RECURSIVE Scan(_, _)
Scan(rows, seen) ==
    IF rows = <<>> THEN <<>>
    ELSE LET row == Head(rows)
             s == FoldLeft(LAMBDA acc, e : Retain(acc, row.node, e),
                           [seen |-> seen, out |-> <<>>], row.events)
         IN IF s.out = <<>> THEN <<>>
            ELSE <<[row EXCEPT !.events = s.out]>> \o Scan(Tail(rows), s.seen)

fetch_capnp_all(rows) == [i \in DOMAIN rows |-> Transform(rows[i])]

fetch_capnp(rows, height, all) ==
    LET found == SelectSeq(fetch_capnp_all(rows), LAMBDA r : r.height = height)
    IN IF all THEN found ELSE Scan(found, {})

(* fetch_capnp_latest: the height of the last key; nothing without rows. *)
fetch_capnp_latest(rows, all) ==
    IF rows = <<>> THEN <<>> ELSE fetch_capnp(rows, Last(rows).height, all)
=============================================================================
