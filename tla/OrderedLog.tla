----------------------------- MODULE OrderedLog -----------------------------
(***************************************************************************)
(* What the event queue between the eBPF programs and the recorder         *)
(* promises, without memory, positions in a ring or a shared cursor: every *)
(* probe takes a ticket, tickets are handed out in increasing order, and   *)
(* the reader goes through the tickets in that order.  It waits at a       *)
(* ticket whose record is still being written, skips a record that is      *)
(* discarded or says nothing, and hands every other record on once.        *)
(***************************************************************************)
EXTENDS Naturals, Sequences

CONSTANTS Ticket,  \* the tickets there are
          Kinds    \* what a record can turn out to be; "event" is handed on

VARIABLES log,     \* ticket -> [kind, st]
          head,    \* every ticket below head has been dealt with
          out      \* tickets handed on, in order

vars == <<log, head, out>>

Tickets == DOMAIN log

Init ==
    /\ log = [t \in {} |-> [kind |-> "event", st |-> "busy"]]
    /\ head = 0
    /\ out = <<>>

(* A new ticket is above every earlier one and was not yet passed over. *)
TakeTicket ==
    \E t \in Ticket, k \in Kinds :
        /\ t >= head
        /\ \A u \in Tickets : u < t
        /\ log' = [u \in Tickets \cup {t} |->
                     IF u = t THEN [kind |-> k, st |-> "busy"] ELSE log[u]]
        /\ UNCHANGED <<head, out>>

Complete ==
    \E t \in Tickets, st \in {"ready", "discard"} :
        /\ log[t].st = "busy"
        /\ log' = [log EXCEPT ![t].st = st]
        /\ UNCHANGED <<head, out>>

(* The reader looks at the first ticket it has not dealt with, and nothing *)
(* else.                                                                   *)
PassFirst ==
    \E t \in Tickets, h \in Ticket :
        /\ head <= t
        /\ \A u \in Tickets : head <= u => t <= u
        /\ log[t].st # "busy"
        /\ t < h
        /\ \A u \in Tickets : t < u => h <= u
        /\ head' = h
        /\ out' = IF log[t].st = "ready" /\ log[t].kind = "event"
                  THEN Append(out, t) ELSE out
        /\ UNCHANGED log

Next == TakeTicket \/ Complete \/ PassFirst

Spec == Init /\ [][Next]_vars
=============================================================================
