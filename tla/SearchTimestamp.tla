-------------------------- MODULE SearchTimestamp ---------------------------
(***************************************************************************)
(* search_timestamp of mina-recorder/src/database/core.rs, which turns the *)
(* timestamp a message list starts at into an id: a search by halving over *)
(* the ids 0 .. total (the persisted total is the last id, see Database).  *)
(* One step of the model is one turn of the loop.  Messages are taken to   *)
(* be stored in the order of their timestamps, so that all the search can  *)
(* see of them is how many are older than the timestamp and how many have  *)
(* exactly it.                                                             *)
(***************************************************************************)
EXTENDS Integers

CONSTANT MaxTotal   \* bound of the model: the last id

ASSUME MaxTotalAssumption == MaxTotal \in Nat

VARIABLES
    total,
    older,      \* ids below this one are older than the timestamp
    same,       \* this many ids from there on have the timestamp
    pos, r,
    pc          \* "start", "loop", "done", or "error": NoItemAtCursor

vars == <<total, older, same, pos, r, pc>>

Init ==
    /\ total \in 0 .. MaxTotal
    /\ older \in 0 .. total + 1
    /\ same \in 0 .. total + 1 - older
    /\ pos = 0 /\ r = 0
    /\ pc = "start"

Start ==
    /\ pc = "start"
    /\ IF total = 0 THEN pc' = "error" /\ UNCHANGED <<pos, r>>
       ELSE pos' = total \div 2 /\ r' = total \div 2 /\ pc' = "loop"
    /\ UNCHANGED <<total, older, same>>

(* Mutant of Less: the comparison the other way round. *)
LessInverted(id) == id >= older + same

(* v.timestamp().cmp(&timestamp) for the message `id` *)
Less(id) == id < older
Equal(id) == older <= id /\ id < older + same

(* Mutant of Halve: moves by all of r, and halves it afterwards. *)
HalveLate ==
    /\ pc = "loop" /\ r > 0
    /\ IF pos \notin 0 .. total THEN pc' = "error" /\ UNCHANGED <<pos, r>>
       ELSE /\ r' = IF Equal(pos) THEN 0 ELSE r \div 2
            /\ pos' = IF Less(pos) THEN pos + r
                      ELSE IF Equal(pos) THEN pos ELSE pos - r
            /\ UNCHANGED pc
    /\ UNCHANGED <<total, older, same>>

(* `get` fails on an id that is not there. *)
Halve ==
    /\ pc = "loop" /\ r > 0
    /\ IF pos \notin 0 .. total THEN pc' = "error" /\ UNCHANGED <<pos, r>>
       ELSE /\ r' = IF Equal(pos) THEN 0 ELSE r \div 2
            /\ pos' = IF Less(pos) THEN pos + r \div 2
                      ELSE IF Equal(pos) THEN pos ELSE pos - r \div 2
            /\ UNCHANGED pc
    /\ UNCHANGED <<total, older, same>>

Return ==
    /\ pc = "loop" /\ r = 0
    /\ pc' = "done"
    /\ UNCHANGED <<total, older, same, pos, r>>

Next == Start \/ Halve \/ Return
Spec == Init /\ [][Next]_vars

-----------------------------------------------------------------------------
(* Properties *)

(* The search stays among the ids there are, whatever the total: `pos -= r` *)
(* does not wrap, `get` fails only when there is nothing to search, and the *)
(* result is an id.                                                         *)
InBounds ==
    /\ pc \in {"loop", "done"} => r >= 0 /\ r <= pos /\ pos + r <= total
    /\ pc = "error" => total = 0

Log2(n) == CHOOSE k \in 0 .. n : 2 ^ k <= n /\ n < 2 ^ (k + 1)

(* Rounding the halves down costs at most a logarithm of the total: that    *)
(* far from an id with the timestamp, or from where it would be, the search *)
(* may end.                                                                 *)
OffByLogarithm ==
    pc = "done" =>
        /\ older - pos <= Log2(total) + 2
        /\ pos - (older + same) <= Log2(total)
=============================================================================
