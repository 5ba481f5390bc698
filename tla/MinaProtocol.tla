---------------------------- MODULE MinaProtocol ----------------------------
(***************************************************************************)
(* The application protocols of a stream,                                  *)
(* mina-recorder/src/connection/mina_protocol: RPC and meshsub messages    *)
(* are put together by accumulator.rs, one accumulator for both            *)
(* directions, and stored with the direction of the chunk that is handled  *)
(* when they come out.                                                     *)
(*                                                                         *)
(* A message is a token of two pieces; its first piece holds the length.   *)
(* Kinds of messages: "query", "response", "beat" (a heartbeat) and        *)
(* "magic" (the response 4411474 nobody asked for) of RPC, and "gossip".   *)
(***************************************************************************)
EXTENDS Integers, Sequences, SequencesExt

(* mina_protocol::State, with what it has stored. *)
MinaInit ==
    [acc |-> <<>>,          \* accumulator::State::acc from pos on
     pending |-> {},        \* rpc::State::pending
     stored |-> <<>>,       \* history: messages stored, with their direction
     unasked |-> {},        \* history: responses without a query
     spliced |-> FALSE]     \* history: a message was put together wrongly

(* post_process yields nothing to store and no error. *)
Silent(t) == t.val.msg \in {"beat", "magic"}

Stored(m, d, t) == [m EXCEPT !.stored = Append(@, [token |-> t, dir |-> d])]

(* Mutant of PostProcess: the answer to a query ends all queries. *)
PostProcessClears(m, d, t) ==
    CASE t.val.msg = "query" -> Stored([m EXCEPT !.pending = @ \cup {t.val.no}], d, t)
      [] t.val.msg = "response" /\ t.val.no \in m.pending -> Stored([m EXCEPT !.pending = {}], d, t)
      [] t.val.msg = "response" /\ t.val.no \notin m.pending -> [m EXCEPT !.unasked = @ \cup {t}]
      [] t.val.msg = "gossip" -> Stored(m, d, t)
      [] OTHER -> m

(* rpc::State::post_process and stream.add: a query is remembered, its     *)
(* response stored under the query's tag, any other response an error that *)
(* is logged.  Meshsub messages go to meshsub_sink.                        *)
PostProcess(m, d, t) ==
    CASE t.val.msg = "query" -> Stored([m EXCEPT !.pending = @ \cup {t.val.no}], d, t)
      [] t.val.msg = "response" /\ t.val.no \in m.pending ->
           Stored([m EXCEPT !.pending = @ \ {t.val.no}], d, t)
      [] t.val.msg = "response" /\ t.val.no \notin m.pending -> [m EXCEPT !.unasked = @ \cup {t}]
      [] t.val.msg = "gossip" -> Stored(m, d, t)
      [] OTHER -> m

(* Mutant of NextMsg: one message of a chunk is taken, the others wait. *)
NextMsgOne(r, d, first, second) ==
    IF r.stop \/ r.m.spliced THEN r
    ELSE IF first.token # second.token THEN [r EXCEPT !.m.spliced = TRUE, !.m.acc = <<>>]
    ELSE [m |-> [PostProcess(r.m, d, first.token) EXCEPT !.acc = SubSeq(@, 3, Len(@))], stop |-> TRUE]

(* accumulator::State::next_msg: the length in the first piece decides     *)
(* what the next message is.  A heartbeat, like anything that is Ok(None), *)
(* ends the loop of on_data; what is behind it stays.  Of what follows a   *)
(* message put together from two others the model says nothing.            *)
NextMsg(r, d, first, second) ==
    IF r.stop \/ r.m.spliced THEN r
    ELSE IF first.token # second.token THEN [r EXCEPT !.m.spliced = TRUE, !.m.acc = <<>>]
    ELSE [m |-> [PostProcess(r.m, d, first.token) EXCEPT !.acc = SubSeq(@, 3, Len(@))],
          stop |-> Silent(first.token)]

(* on_data: extend, then next_msg until it yields nothing.  A chunk that   *)
(* is exactly one message is not copied to an empty accumulator; the       *)
(* effect is the same.                                                     *)
MinaOnData(m, d, chunk) ==
    LET all == m.acc \o chunk
        pairs == [i \in 1 .. Len(all) \div 2 |-> <<all[2 * i - 1], all[2 * i]>>]
    IN  IF m.spliced THEN m
        ELSE FoldLeft(LAMBDA r, p : NextMsg(r, d, p[1], p[2]),
                      [m |-> [m EXCEPT !.acc = all], stop |-> FALSE], pairs).m
=============================================================================
