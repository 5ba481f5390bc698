------------------------------- MODULE Select -------------------------------
(***************************************************************************)
(* multistream-select, mina-recorder/src/connection/multistream_select.rs: *)
(* the recorder overhears a negotiation in both directions and has to tell *)
(* where it ends and what was agreed.                                      *)
(*                                                                         *)
(* A chunk is a sequence of pieces [token, last]; a token travels in two   *)
(* pieces and a chunk may begin and end anywhere.  Tokens are records      *)
(* [kind, val]: "ms", "sc" (simultaneous-connect), "na", "select", "role"  *)
(* (the initiator's or the responder's), "name" (a protocol), and          *)
(* "payload", whatever comes after the negotiation.                        *)
(***************************************************************************)
EXTENDS Integers, Sequences, SequencesExt

Dirs == {"in", "out"}
Other(d) == IF d = "in" THEN "out" ELSE "in"
None == "none"

(* hl::State *)
SelectInit ==
    [acc |-> [d \in Dirs |-> <<>>],
     sc |-> [d \in Dirs |-> FALSE],         \* simultaneous_connect
     done |-> [d \in Dirs |-> None],
     misread |-> FALSE]                     \* history: payload was parsed

(* ll::State::poll, until it returns None: the whole tokens. *)
WholeTokens(pieces) == [i \in 1 .. Len(pieces) \div 2 |-> pieces[2 * i].token]

(* Mutant of Token: a refusal takes back no name. *)
TokenNaIgnored(r, d, t) ==
    CASE t.kind = "sc" ->
           [r EXCEPT !.sc[d] = TRUE, !.done[Other(d)] = IF r.sc[Other(d)] THEN None ELSE @]
      [] t.kind = "na" -> [r EXCEPT !.sc[Other(d)] = FALSE]
      [] t.kind = "name" ->
           IF r.sc[d] /\ r.sc[Other(d)] THEN r ELSE [r EXCEPT !.done[d] = t.val]
      [] t.kind = "role" -> [r EXCEPT !.sc[d] = FALSE]
      [] t.kind = "payload" -> [r EXCEPT !.misread = TRUE]
      [] OTHER -> r

(* What one token does.  A name ends the negotiation of its side, for the  *)
(* time being; the other side's `na`, or both sides' wish to connect       *)
(* simultaneously, takes that back.                                        *)
Token(r, d, t) ==
    CASE t.kind = "sc" ->
           [r EXCEPT !.sc[d] = TRUE, !.done[Other(d)] = IF r.sc[Other(d)] THEN None ELSE @]
      [] t.kind = "na" -> IF r.sc[Other(d)] THEN [r EXCEPT !.sc[Other(d)] = FALSE]
                          ELSE [r EXCEPT !.done[Other(d)] = None]
      [] t.kind = "name" ->
           IF r.sc[d] /\ r.sc[Other(d)] THEN r ELSE [r EXCEPT !.done[d] = t.val]
      [] t.kind = "role" -> [r EXCEPT !.sc[d] = FALSE]
      [] t.kind = "payload" -> [r EXCEPT !.misread = TRUE]
      [] OTHER -> r

(* The loop stops at the name that ends the negotiation and leaves what    *)
(* follows it in the accumulator.                                          *)
PollOne(r, d, t) ==
    IF r.s.done[d] # None THEN r
    ELSE [s |-> Token(r.s, d, t), used |-> r.used + 2]

(* Mutant of Poll: what was glued to the last token is dropped. *)
PollDropsGlue(s, d, chunk) ==
    IF s.done[d] # None
    THEN [s |-> [s EXCEPT !.acc[d] = <<>>], agreed |-> s.done[d], payload |-> chunk]
    ELSE LET all == s.acc[d] \o chunk
             r == FoldLeft(LAMBDA x, t : PollOne(x, d, t), [s |-> s, used |-> 0], WholeTokens(all))
         IN  [s |-> [r.s EXCEPT !.acc[d] = SubSeq(all, r.used + 1, Len(all))],
              agreed |-> None, payload |-> <<>>]

(* poll, and `end` once this side is done. *)
Poll(s, d, chunk) ==
    IF s.done[d] # None
    THEN [s |-> [s EXCEPT !.acc[d] = <<>>], agreed |-> s.done[d], payload |-> s.acc[d] \o chunk]
    ELSE LET all == s.acc[d] \o chunk
             r == FoldLeft(LAMBDA x, t : PollOne(x, d, t), [s |-> s, used |-> 0], WholeTokens(all))
         IN  [s |-> [r.s EXCEPT !.acc[d] = SubSeq(all, r.used + 1, Len(all))],
              agreed |-> None, payload |-> <<>>]
=============================================================================
