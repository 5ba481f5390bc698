-------------------------- MODULE SortedIntersect ---------------------------
(***************************************************************************)
(* sorted_intersect of mina-recorder/src/database/sorted_intersect.rs, the *)
(* algorithm behind a message list filtered both by stream and by kind.    *)
(* One step of the model is one turn of the loop.  The iterators are       *)
(* sequences of message ids; those over kinds are merged and may repeat an *)
(* id (a message of two of the kinds asked for), the others do not.        *)
(***************************************************************************)
EXTENDS Integers, Sequences, FiniteSets, SequencesExt

CONSTANTS
    Ids,       \* message ids
    MaxIters,  \* how many iterators at most
    MaxLen,    \* bound of the model: length of an iterator
    Limits     \* limits asked for

VARIABLES
    input,     \* the iterators as they were
    limit, forward,
    iters,     \* what is left of them
    heap,      \* pairs <<item, number of its iterator>>
    ret,
    pc         \* "start", "loop" or "done"

vars == <<input, limit, forward, iters, heap, ret, pc>>

(* Does a come before b, or beside it, in the direction of the list? *)
Before(a, b) == IF forward THEN a <= b ELSE a >= b
Ordered(s) == \A i, j \in DOMAIN s : i < j => Before(s[i], s[j])
Distinct(s) == \A i, j \in DOMAIN s : i # j => s[i] # s[j]

Init ==
    /\ limit \in Limits
    /\ forward \in BOOLEAN
    /\ \E n \in 0 .. MaxIters :
          input \in [1 .. n -> {s \in BoundedSeq(Ids, MaxLen) : Ordered(s)}]
    /\ input # <<>> => \A i \in 1 .. Len(input) - 1 : Distinct(input[i])
    /\ iters = input
    /\ heap = {}
    /\ ret = <<>>
    /\ pc = "start"

(* fill_heap: the next item of every iterator; FALSE when one has none.    *)
(* It stops at that one, but the caller then returns.                      *)
Exhausted == \E i \in DOMAIN iters : iters[i] = <<>>
FillHeap ==
    IF Exhausted THEN pc' = "done" /\ UNCHANGED <<iters, heap>>
    ELSE /\ heap' = {<<iters[i][1], i>> : i \in DOMAIN iters}
         /\ iters' = [i \in DOMAIN iters |-> Tail(iters[i])]
         /\ pc' = "loop"

(* No iterator: nothing.  One: its first items. *)
Start ==
    /\ pc = "start"
    /\ \/ /\ Len(iters) < 2
          /\ ret' = IF iters = <<>> THEN <<>>
                    ELSE SubSeq(iters[1], 1, IF limit < Len(iters[1]) THEN limit ELSE Len(iters[1]))
          /\ pc' = "done"
          /\ UNCHANGED <<iters, heap>>
       \/ Len(iters) > 1 /\ FillHeap /\ UNCHANGED ret
    /\ UNCHANGED <<input, limit, forward>>

(* is_hit compares each item with the next. *)
IsHit == \A a, b \in heap : a[1] = b[1]

(* heapify sorts the heap so that pop takes the item that comes first; of   *)
(* several that are equal it may take any.                                  *)
Top == {a \in heap : \A b \in heap : Before(a[1], b[1])}

LimitReached == Len(ret) >= limit

Hit ==
    /\ pc = "loop" /\ ~LimitReached
    /\ IsHit
    /\ \E a \in Top : ret' = Append(ret, a[1])
    /\ FillHeap
    /\ UNCHANGED <<input, limit, forward>>

(* Mutant of Miss: goes on with an exhausted iterator. *)
MissWaits ==
    /\ pc = "loop" /\ ~LimitReached
    /\ ~IsHit
    /\ \E a \in Top :
          IF iters[a[2]] = <<>> THEN UNCHANGED <<iters, heap, pc>>
          ELSE /\ heap' = (heap \ {a}) \cup {<<iters[a[2]][1], a[2]>>}
               /\ iters' = [iters EXCEPT ![a[2]] = Tail(@)]
               /\ UNCHANGED pc
    /\ UNCHANGED <<input, limit, forward, ret>>

Miss ==
    /\ pc = "loop" /\ ~LimitReached
    /\ ~IsHit
    /\ \E a \in Top :
          IF iters[a[2]] = <<>> THEN pc' = "done" /\ UNCHANGED <<iters, heap>>
          ELSE /\ heap' = (heap \ {a}) \cup {<<iters[a[2]][1], a[2]>>}
               /\ iters' = [iters EXCEPT ![a[2]] = Tail(@)]
               /\ UNCHANGED pc
    /\ UNCHANGED <<input, limit, forward, ret>>

Stop ==
    /\ pc = "loop" /\ LimitReached
    /\ pc' = "done"
    /\ UNCHANGED <<input, limit, forward, iters, heap, ret>>

Next == Start \/ Hit \/ Miss \/ Stop
Spec == Init /\ [][Next]_vars

=============================================================================
