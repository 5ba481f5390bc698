--------------------------- MODULE FetchMessages ----------------------------
(***************************************************************************)
(* A list of messages, fetch_messages of mina-recorder/src/database/core.rs *)
(* with the coordinates and limits of params.rs: the start is located, by  *)
(* id or by the search of SearchTimestamp; the index of the stream filter, *)
(* the merged indexes of the kind filter, or SortedIntersect of both, are  *)
(* walked from there in the direction asked for; and the list is cut at    *)
(* limit_timestamp and at the limit.                                       *)
(*                                                                         *)
(* Timestamps are cuts through the ids, as in SearchTimestamp.  An index   *)
(* is the set of the ids it has under one key, with its messages in place  *)
(* (ReferencesResolve of Database), and iterates in the order of ids.      *)
(***************************************************************************)
EXTENDS SearchTimestamp, Sequences, SequencesExt, FiniteSets

CONSTANTS
    Limits,        \* limits asked for
    Cuts,          \* and values of limit_timestamp
    MaxFiltered    \* bound of the model: the last id where there is a filter

None == <<>>
NoLimit == -1

VARIABLES
    ids,                \* the messages there are
    start, id,          \* Coordinate: "first", "id" (the id) or "time"
    until,              \* limit_timestamp: ids below it are earlier
    stream,             \* stream_filter: None, or <<what the stream has>>
    kinds,              \* kind_filter: None, or what each of its kinds has
    present, cursor,    \* what message_id returns
    input, limit, forward, iters, heap, ret, merging,   \* sorted_intersect
    stage, list

request == <<total, older, same, ids, start, id, until, stream, kinds, limit, forward>>
searching == <<pos, r, pc>>
merge == <<input, iters, heap, ret, merging>>
allVars == <<request, searching, present, cursor, merge, stage, list>>

Intersect == INSTANCE SortedIntersect
    WITH pc <- merging, Ids <- 0 .. MaxFiltered, MaxIters <- 2, MaxLen <- 2 * (MaxFiltered + 1)

(* With total = 0 there is one message or none. *)
Messages ==
    /\ Init
    /\ ids \in IF total = 0 THEN {{}, {0}} ELSE {0 .. total}

(* A list that starts at a time, without more ado. *)
PlainRequest ==
    /\ start = "time" /\ id = 0 /\ forward = TRUE
    /\ stream = None /\ kinds = None
    /\ limit = 16 /\ until = NoLimit

(* validate, for what gets through it: any start, limits and filters. *)
FilteredRequest ==
    /\ total <= MaxFiltered
    /\ start \in {"first", "id", "time"}
    /\ id \in IF start = "id" THEN 0 .. total + 1 ELSE {0}
    /\ start # "time" => older = 0 /\ same = 0
    /\ forward \in BOOLEAN
    /\ stream \in {None} \cup {<<s>> : s \in SUBSET ids}
    /\ kinds \in {None} \cup {<<k>> : k \in SUBSET ids} \cup ((SUBSET ids) \X (SUBSET ids))
    /\ limit \in Limits
    /\ until \in {NoLimit} \cup Cuts

Request ==
    /\ Messages
    /\ PlainRequest \/ FilteredRequest
    /\ present = FALSE /\ cursor = 0
    /\ input = <<>> /\ iters = <<>> /\ heap = {} /\ ret = <<>> /\ merging = "start"
    /\ stage = "locate" /\ list = <<>>

-----------------------------------------------------------------------------
(* message_id *)
ById ==
    /\ stage = "locate" /\ start # "time"
    /\ present' = (start = "id")
    /\ cursor' = IF start = "id" \/ forward THEN id ELSE total + 1     \* u64::MAX
    /\ stage' = "walk"
    /\ UNCHANGED <<request, searching, merge, list>>

ByTimestamp ==
    /\ stage = "locate" /\ start = "time"
    /\ Start \/ Halve \/ Return
    /\ UNCHANGED <<ids, start, id, until, stream, kinds, limit, forward, present, cursor, merge, stage, list>>

(* A search that fails counts as no start at all. *)
Located ==
    /\ stage = "locate" /\ pc \in {"done", "error"}
    /\ present' = (pc = "done")
    /\ cursor' = IF pc = "done" THEN pos ELSE 0
    /\ stage' = "walk"
    /\ UNCHANGED <<request, searching, merge, list>>

-----------------------------------------------------------------------------
InOrder(i, j) == IF forward THEN i < j ELSE i > j
FromCursor(S) == {i \in S : i = cursor \/ InOrder(cursor, i)}
Sorted(S) ==
    SelectSeq([n \in 1 .. total + 1 |-> IF forward THEN n - 1 ELSE total + 1 - n],
              LAMBDA i : i \in S)
Walk(S) == Sorted(FromCursor(S))

(* itertools::kmerge_by: an id that is in several indexes comes as often. *)
KMerge ==
    LET once == Walk(UNION Range(kinds))
        times(i) == Cardinality({k \in DOMAIN kinds : i \in kinds[k]})
    IN  FlattenSeq([n \in DOMAIN once |-> [k \in 1 .. times(once[n]) |-> once[n]]])

(* Mutant of Limited: the list is cut where a list forward would be. *)
LimitedForward(s) ==
    LET beyond == SelectInSeq(s, LAMBDA i : until # NoLimit /\ i >= until)
        kept == IF beyond = 0 THEN s ELSE SubSeq(s, 1, beyond - 1)
    IN  SubSeq(kept, 1, IF limit < Len(kept) THEN limit ELSE Len(kept))

(* ValidParamsCoordinate::limit: take_while and take. *)
Limited(s) ==
    LET beyond == SelectInSeq(s, LAMBDA i : until # NoLimit /\ (i < until) # forward)
        kept == IF beyond = 0 THEN s ELSE SubSeq(s, 1, beyond - 1)
    IN  SubSeq(kept, 1, IF limit < Len(kept) THEN limit ELSE Len(kept))

(* With one filter the index is walked from the cursor; with none the      *)
(* table, from its end when no start is present.                           *)
FetchPlain ==
    /\ stage = "walk" /\ (stream = None \/ kinds = None)
    /\ list' = Limited(CASE stream # None -> Walk(stream[1])
                         [] kinds # None -> KMerge
                         [] OTHER -> IF present THEN Walk(ids) ELSE Sorted(ids))
    /\ stage' = "done"
    /\ UNCHANGED <<request, searching, present, cursor, merge>>

FetchBoth ==
    /\ stage = "walk" /\ stream # None /\ kinds # None
    /\ input' = <<Walk(stream[1]), KMerge>>
    /\ iters' = input'
    /\ stage' = "intersect"
    /\ UNCHANGED <<request, searching, present, cursor, heap, ret, merging, list>>

IntersectTurn ==
    /\ stage = "intersect"
    /\ Intersect!Next
    /\ UNCHANGED <<total, older, same, ids, start, id, until, stream, kinds>>
    /\ UNCHANGED <<searching, present, cursor, stage, list>>

Intersected ==
    /\ stage = "intersect" /\ merging = "done"
    /\ list' = Limited(ret)
    /\ stage' = "done"
    /\ UNCHANGED <<request, searching, present, cursor, merge>>

FetchNext ==
    ById \/ ByTimestamp \/ Located \/ FetchPlain \/ FetchBoth \/ IntersectTurn \/ Intersected

FetchSpec == Request /\ [][FetchNext]_allVars /\ WF_allVars(FetchNext)

-----------------------------------------------------------------------------
(* Properties *)

(* The ids the request asks for, from where it starts on. *)
Selected(i) ==
    /\ present => (i = cursor \/ InOrder(cursor, i))
    /\ stream # None => i \in stream[1]
    /\ kinds # None => i \in UNION Range(kinds)
    /\ until # NoLimit => ((i < until) <=> forward)

(* A list has the first messages that pass every filter of the request, in *)
(* the order asked for, each once, whichever way it was put together; only *)
(* a list by kinds alone repeats a message of several of them.             *)
ListIsTheFilter ==
    LET asked == Sorted({i \in ids : Selected(i)})
        repeats == stream = None /\ kinds # None
                   /\ \E j, k \in DOMAIN kinds : j # k /\ kinds[j] \cap kinds[k] # {}
    IN  stage = "done" =>
          IF repeats THEN Range(list) \subseteq Range(asked) /\ Len(list) <= limit
          ELSE list = SubSeq(asked, 1, IF limit < Len(asked) THEN limit ELSE Len(asked))

(* Every request is answered: both loops end. *)
Answers == <>(stage = "done")
=============================================================================
