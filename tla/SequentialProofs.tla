-------------------------- MODULE SequentialProofs --------------------------
(***************************************************************************)
(* Proofs about two small components that share no state: the search for a *)
(* timestamp in the database, and the aggregator of the debuggers' blocks. *)
(***************************************************************************)
EXTENDS SearchTimestamp, Aggregator, TLAPS

-----------------------------------------------------------------------------
(***************************************************************************)
(* search_timestamp stays among the stored ids, for every total number of  *)
(* entries and every distribution of the timestamps.                       *)
(***************************************************************************)

(* The inductive invariant: the types and the bounds; an error comes from  *)
(* Start alone.                                                            *)
IInv ==
    /\ total \in Nat /\ older \in Nat /\ same \in Nat /\ pos \in Nat /\ r \in Nat
    /\ pc \in {"start", "loop", "done", "error"}
    /\ r <= pos /\ pos + r <= total
    /\ pc = "loop" => total > 0
    /\ pc = "error" => total = 0

(* What \div 2 does to a natural number. *)
LEMMA HalfBounds ==
  ASSUME NEW n \in Nat
  PROVE  n \div 2 \in Nat /\ 2 * (n \div 2) <= n
  OBVIOUS

(* The search starts inside the bounds. *)
LEMMA InitIInv == Init => IInv
  BY MaxTotalAssumption DEF Init, IInv

(* A turn of the loop halves r and moves pos by no more than what is left. *)
LEMMA HalveIInv ==
  ASSUME IInv, Halve
  PROVE  IInv'
  <1>1. pos \in 0 .. total
    BY DEF IInv
  <1>2. PICK h \in Nat : h = r \div 2 /\ 2 * h <= r
    BY HalfBounds DEF IInv
  <1>3. pc' = pc /\ UNCHANGED <<total, older, same>>
    BY <1>1 DEF Halve
  <1>4. CASE Equal(pos)
    <2>1. r' = 0 /\ pos' = pos
      BY <1>1, <1>4 DEF Halve, Less, Equal, IInv
    <2> QED
      BY <1>3, <2>1 DEF IInv
  <1>5. CASE Less(pos)
    <2>1. r' = h /\ pos' = pos + h
      BY <1>1, <1>2, <1>5 DEF Halve, Less, Equal, IInv
    <2> QED
      BY <1>2, <1>3, <2>1 DEF IInv
  <1>6. CASE ~Less(pos) /\ ~Equal(pos)
    <2>1. r' = h /\ pos' = pos - h
      BY <1>1, <1>2, <1>6 DEF Halve
    <2> QED
      BY <1>2, <1>3, <2>1 DEF IInv
  <1> QED
    BY <1>4, <1>5, <1>6

(* Every step keeps the invariant. *)
LEMMA NextIInv == IInv /\ [Next]_vars => IInv'
  <1> SUFFICES ASSUME IInv, [Next]_vars PROVE IInv'
    OBVIOUS
  <1>1. CASE Start
    <2>1. total \div 2 \in Nat /\ 2 * (total \div 2) <= total
      BY HalfBounds DEF IInv
    <2> QED
      BY <1>1, <2>1 DEF Start, IInv
  <1>2. CASE Halve
    BY <1>2, HalveIInv
  <1>3. CASE Return
    BY <1>3 DEF Return, IInv
  <1>4. CASE UNCHANGED vars
    BY <1>4 DEF vars, IInv
  <1> QED
    BY <1>1, <1>2, <1>3, <1>4 DEF Next

(* search_timestamp (core.rs) never computes an id outside 0 .. total, so   *)
(* its subtraction cannot wrap and `get` cannot fail while the ids are      *)
(* dense.                                                                   *)
THEOREM SearchInBounds == Spec => []InBounds
  <1>1. IInv => InBounds
    BY DEF IInv, InBounds
  <1> QED
    BY <1>1, InitIInv, NextIInv, PTL DEF Spec

-----------------------------------------------------------------------------
(***************************************************************************)
(* The aggregator for any number of workers, debuggers, nodes, hashes and  *)
(* heights, restarted and with failing writes at any time: copies and rows *)
(* are former states, and a row is current unless writes overlapped.       *)
(***************************************************************************)

AggregatorType ==
    /\ height \in Heights \cup {0}
    /\ last \in Values
    /\ ids \in [Addrs -> Nat \cup {None}]
    /\ counter \in Nat
    /\ handler \in [Workers -> Writes \cup {None}]
    /\ table \in [Heights -> Values \cup {None}]
    /\ peak \in [Heights -> Values \cup {None}]
    /\ crowded \subseteq Heights
    /\ mine \subseteq Heights

(* Heights above the present one are untouched in this life, rows of this  *)
(* life belong to heights that were reached, and as long as no two writes  *)
(* of a height overlapped the one in flight is the present state.          *)
Untouched == \A h \in Heights : h > height => peak[h] = None
Reached == \A h \in mine : peak[h] # None /\ table[h] # None
Lonely ==
    \A w \in Workers : handler[w] # None /\ handler[w].height \notin crowded =>
        handler[w].value = peak[handler[w].height]

AggregatorInv ==
    AggregatorType /\ Untouched /\ Reached /\ Lonely /\ SnapshotsArePast /\ RowIsCurrent

-----------------------------------------------------------------------------
(* What post_data does to a row only adds to it. *)

(* 0 stands for no height.                                                 *)
LEMMA HeightsAreNat == 0 \in Nat /\ \A h \in Heights : h \in Nat /\ h # 0
  BY HeightsAssumption

(* An updated row is a row.                                                *)
LEMMA UpdateType ==
  ASSUME NEW entry \in Entries \cup {None}, NEW event \in Events, NEW id \in Nat
  PROVE  Update(entry, event, id) \in Entries
  BY DEF Update, GlobalEvent, AppendEvent, Entries, Events

(* An update only adds to a row.                                           *)
LEMMA UpdateGrows ==
  ASSUME NEW entry \in Entries, NEW event \in Events, NEW id \in Nat
  PROVE  LET new == Update(entry, event, id) IN
         /\ new.received = entry.received
         /\ new.node_id = entry.node_id
         /\ entry.sent # None => new.sent = entry.sent
  BY NoneAssumption DEF Update, AppendEvent, Entries, Events

(* A row is a former state of itself.                                      *)
LEMMA GrownSelf == \A v \in Values : Grown(v, v)
  BY DEF Grown

(* A former state stays one when the row is updated.                       *)
LEMMA GrownUpdate ==
  ASSUME NEW v \in Values, NEW u \in Values, Grown(u, v), NEW i \in Rows,
         NEW event \in Events, NEW id \in Nat
  PROVE  Grown(u, [v EXCEPT ![i] = Update(v[i], event, id)])
  <1> DEFINE new == [v EXCEPT ![i] = Update(v[i], event, id)]
  <1> SUFFICES ASSUME NEW j \in Rows, u[j] # None
               PROVE  /\ new[j] # None
                      /\ new[j].received = u[j].received
                      /\ new[j].node_id = u[j].node_id
                      /\ u[j].sent # None => new[j].sent = u[j].sent
    BY DEF Grown
  <1>1. /\ v[j] \in Entries
        /\ v[j].received = u[j].received
        /\ v[j].node_id = u[j].node_id
        /\ u[j].sent # None => v[j].sent = u[j].sent
    BY DEF Grown, Values
  <1>2. CASE j # i
    <2>1. new[j] = v[j]
      BY <1>2 DEF Values
    <2>2. new[j] # None
      BY <1>1, <2>1, NoneAssumption
    <2>3. QED
      BY <1>1, <2>1, <2>2
  <1>3. CASE j = i
    <2>1. new[j] = Update(v[j], event, id)
      BY <1>3 DEF Values
    <2>2. new[j] \in Entries
      BY <1>1, <2>1, UpdateType
    <2>3. new[j] # None
      BY <2>2, NoneAssumption
    <2> HIDE DEF new
    <2>4. QED
      BY <1>1, <2>1, <2>3, UpdateGrows
  <1>4. QED
    BY <1>2, <1>3

-----------------------------------------------------------------------------
(* Each action keeps the invariant. *)

(* post_data up to the release of the lock; `new` is the state it leaves   *)
(* and the copy it takes.                                                  *)
LEMMA PostDataKeeps ==
  ASSUME AggregatorInv, NEW w \in Workers, NEW key \in Keys, NEW event \in Events,
         PostData(w, key, event)
  PROVE  AggregatorInv'
  <1>1. CASE event.height < height
    BY <1>1 DEF PostData, aggregatorVars, AggregatorInv, AggregatorType, Untouched, Reached, Lonely,
                SnapshotsArePast, RowIsCurrent, Latest, ByHeight, Grown
  <1>2. CASE ~(event.height < height)
    <2> DEFINE id == IF ids[key.node] = None THEN counter ELSE ids[key.node]
               kept == IF event.height > height THEN Empty ELSE last
               i == <<event.hash, key>>
               new == [kept EXCEPT ![i] = Update(kept[i], event, id)]
               h == event.height
    <2>1. /\ handler[w] = None
          /\ height' = h
          /\ ids' = [ids EXCEPT ![key.node] = id]
          /\ counter' = IF ids[key.node] = None THEN counter + 1 ELSE counter
          /\ last' = new
          /\ handler' = [handler EXCEPT ![w] = [height |-> h, value |-> new]]
          /\ peak' = [peak EXCEPT ![h] = new]
          /\ crowded' = IF Busy(h) THEN crowded \cup {h} ELSE crowded
          /\ table' = table /\ mine' = mine
      BY <1>2 DEF PostData
    <2>2. /\ h \in Heights /\ h \in Nat /\ h # 0 /\ height \in Nat /\ h >= height
          /\ i \in Rows /\ key.node \in Addrs
      <3>1. event.height \in Heights /\ event.hash \in Hashes
        BY DEF Events
      <3>2. event.height \in Nat /\ event.height # 0 /\ height \in Nat
        <4>1. height \in Heights \cup {0}
          BY DEF AggregatorInv, AggregatorType
        <4>2. QED
          BY <3>1, <4>1, HeightsAreNat, Zenon
      <3>3. event.height >= height
        BY <1>2, <3>2
      <3>4. <<event.hash, key>> \in Rows
        BY <3>1 DEF Rows
      <3>5. key.node \in Addrs
        BY DEF Addrs
      <3>6. QED
        BY <3>1, <3>2, <3>3, <3>4, <3>5
    <2>3. id \in Nat
      BY <2>2 DEF AggregatorInv, AggregatorType
    <2>4. kept \in Values
      BY DEF AggregatorInv, AggregatorType, Values, Empty
    <2>5. kept[i] \in Entries \cup {None}
      BY <2>2, <2>4 DEF Values
    <2>6. Update(kept[i], event, id) \in Entries
      BY <2>3, <2>5, UpdateType
    <2>7. new \in Values
      BY <2>2, <2>4, <2>6 DEF Values
    <2>8. new # None
      BY <2>7, NoneAssumption
    (* What was known of the height is a former state of new. *)
    <2>9. \A u \in Values : Grown(u, peak[h]) /\ peak[h] # None => Grown(u, new)
      <3> SUFFICES ASSUME NEW u \in Values, Grown(u, peak[h]), peak[h] # None
                   PROVE  Grown(u, new)
        OBVIOUS
      <3>1. ~(h > height)
        BY <2>2 DEF AggregatorInv, Untouched
      <3>2. kept = peak[h]
        BY <3>1, <2>2 DEF AggregatorInv, SnapshotsArePast, Latest
      <3> HIDE DEF kept, id, i
      <3>3. QED
        BY <2>2, <2>3, <2>4, <3>2, GrownUpdate
    <2>10. [height |-> h, value |-> new] \in Writes
      BY <2>2, <2>7 DEF Writes
    <2> HIDE DEF new, kept, id, i, h
    <2>11. AggregatorType'
      <3>1. last' \in Values /\ height' \in Heights \cup {0}
        BY <2>1, <2>2, <2>7
      <3>2. ids' \in [Addrs -> Nat \cup {None}] /\ counter' \in Nat
        BY <2>1, <2>2, <2>3 DEF AggregatorInv, AggregatorType
      <3>3. handler' \in [Workers -> Writes \cup {None}]
        BY <2>1, <2>10 DEF AggregatorInv, AggregatorType
      <3>4. peak' \in [Heights -> Values \cup {None}]
        BY <2>1, <2>2, <2>7 DEF AggregatorInv, AggregatorType
      <3>5. table' \in [Heights -> Values \cup {None}] /\ crowded' \subseteq Heights /\ mine' \subseteq Heights
        BY <2>1, <2>2 DEF AggregatorInv, AggregatorType
      <3>6. QED
        BY <3>1, <3>2, <3>3, <3>4, <3>5 DEF AggregatorType
    <2>12. \A g \in Heights : g # h => peak'[g] = peak[g]
      BY <2>1 DEF AggregatorInv, AggregatorType
    <2>13. peak'[h] = new
      BY <2>1, <2>2 DEF AggregatorInv, AggregatorType
    <2>14. handler'[w] = [height |-> h, value |-> new]
           /\ \A x \in Workers : x # w => handler'[x] = handler[x]
      BY <2>1 DEF AggregatorInv, AggregatorType
    <2>15. Untouched'
      <3> SUFFICES ASSUME NEW g \in Heights, g > h PROVE peak'[g] = None
        BY <2>1 DEF Untouched
      <3>1. g \in Nat /\ g > height /\ g # h
        BY <2>2, HeightsAssumption
      <3>2. QED
        BY <3>1, <2>12 DEF AggregatorInv, Untouched
    <2>16. Reached'
      BY <2>1, <2>8, <2>12, <2>13 DEF Reached, AggregatorInv, AggregatorType
    <2>17. Lonely'
      <3> SUFFICES ASSUME NEW x \in Workers, handler'[x] # None, handler'[x].height \notin crowded'
                   PROVE  handler'[x].value = peak'[handler'[x].height]
        BY DEF Lonely
      <3>1. CASE x = w
        BY <3>1, <2>13, <2>14
      <3>2. CASE x # w
        <4>1. handler'[x] = handler[x] /\ handler[x] \in Writes /\ handler[x].height \notin crowded
          BY <3>2, <2>14, <2>1 DEF AggregatorInv, AggregatorType
        <4>2. handler[x].height # h
          BY <4>1, <2>1 DEF Busy
        <4>3. handler[x].value = peak[handler[x].height]
          BY <4>1 DEF AggregatorInv, Lonely
        <4>4. QED
          BY <4>1, <4>2, <4>3, <2>12 DEF Writes
      <3>3. QED
        BY <3>1, <3>2
    <2>18. SnapshotsArePast'
      <3>1. ASSUME NEW x \in Workers, handler'[x] # None
            PROVE  /\ peak'[handler'[x].height] # None
                   /\ Grown(handler'[x].value, peak'[handler'[x].height])
        <4>1. CASE x = w
          BY <4>1, <2>7, <2>8, <2>13, <2>14, GrownSelf
        <4>2. CASE x # w
          <5>1. handler'[x] = handler[x] /\ handler[x] \in Writes
            BY <3>1, <4>2, <2>14 DEF AggregatorInv, AggregatorType
          <5>2. peak[handler[x].height] # None /\ Grown(handler[x].value, peak[handler[x].height])
            BY <3>1, <5>1 DEF AggregatorInv, SnapshotsArePast
          <5>3. CASE handler[x].height = h
            BY <5>1, <5>2, <5>3, <2>8, <2>9, <2>13 DEF Writes
          <5>4. CASE handler[x].height # h
            BY <5>1, <5>2, <5>4, <2>12 DEF Writes
          <5>5. QED
            BY <5>3, <5>4
        <4>3. QED
          BY <4>1, <4>2
      <3>2. ASSUME NEW g \in mine' PROVE Grown(ByHeight(g)', peak'[g])
        <4>1. /\ g \in mine /\ g \in Heights /\ peak[g] # None
              /\ table[g] \in Values /\ Grown(table[g], peak[g]) /\ ByHeight(g)' = table[g]
          BY <3>2, <2>1 DEF AggregatorInv, AggregatorType, Reached, SnapshotsArePast, ByHeight
        <4>2. CASE g = h
          BY <4>1, <4>2, <2>9, <2>13
        <4>3. CASE g # h
          BY <4>1, <4>3, <2>12
        <4>4. QED
          BY <4>2, <4>3
      <3>3. Latest' = <<height', peak'[height']>>
        BY <2>1, <2>13 DEF Latest
      <3>4. QED
        BY <3>1, <3>2, <3>3 DEF SnapshotsArePast
    <2>19. RowIsCurrent'
      <3> SUFFICES ASSUME NEW g \in Heights, peak'[g] # None, g \notin crowded'
                   PROVE  \/ ByHeight(g)' = peak'[g]
                          \/ \E x \in Workers : handler'[x] = [height |-> g, value |-> peak'[g]]
        BY DEF RowIsCurrent
      <3>1. CASE g = h
        BY <3>1, <2>13, <2>14
      <3>2. CASE g # h
        <4>1. peak'[g] = peak[g] /\ g \notin crowded /\ ByHeight(g)' = ByHeight(g)
          BY <3>2, <2>1, <2>12 DEF ByHeight
        <4>2. \/ ByHeight(g) = peak[g]
              \/ \E x \in Workers : handler[x] = [height |-> g, value |-> peak[g]]
          BY <4>1 DEF AggregatorInv, RowIsCurrent
        <4>3. ASSUME NEW x \in Workers, handler[x] = [height |-> g, value |-> peak[g]]
              PROVE  handler'[x] = [height |-> g, value |-> peak'[g]]
          <5>1. peak[g] \in Values
            BY <4>1 DEF AggregatorInv, AggregatorType
          <5>2. handler[x] \in Writes
            BY <4>3, <5>1 DEF Writes
          <5>3. x # w
            BY <5>2, <2>1, NoneAssumption
          <5>4. QED
            BY <5>3, <4>1, <4>3, <2>14
        <4>4. QED
          BY <4>1, <4>2, <4>3
      <3>3. QED
        BY <3>1, <3>2
    <2>20. QED
      BY <2>11, <2>15, <2>16, <2>17, <2>18, <2>19 DEF AggregatorInv
  <1>3. QED
    BY SMTT(30), <1>1, <1>2

(* put_block, the end of post_data *)
LEMMA PutBlockKeeps ==
  ASSUME AggregatorInv, NEW w \in Workers, PutBlock(w)
  PROVE  AggregatorInv'
  <1> DEFINE h == handler[w].height
             v == handler[w].value
  <1>1. /\ handler[w] # None
        /\ table' = [table EXCEPT ![h] = v]
        /\ handler' = [handler EXCEPT ![w] = None]
        /\ mine' = mine \cup {h}
        /\ UNCHANGED <<height, last, ids, counter, peak, crowded>>
    BY DEF PutBlock
  <1>2. h \in Heights /\ v \in Values
    BY <1>1 DEF AggregatorInv, AggregatorType, Writes
  <1>3. v # None /\ peak[h] # None /\ Grown(v, peak[h])
    BY <1>1, <1>2, NoneAssumption DEF AggregatorInv, SnapshotsArePast
  <1>4. h \notin crowded => v = peak[h]
    BY <1>1 DEF AggregatorInv, Lonely
  <1> HIDE DEF h, v
  <1>5. table'[h] = v /\ \A g \in Heights : g # h => table'[g] = table[g]
    BY <1>1, <1>2 DEF AggregatorInv, AggregatorType
  <1>6. handler'[w] = None /\ \A x \in Workers : x # w => handler'[x] = handler[x]
    BY <1>1 DEF AggregatorInv, AggregatorType
  <1>7. AggregatorType'
    BY <1>1, <1>2 DEF AggregatorInv, AggregatorType
  <1>8. Untouched'
    BY <1>1 DEF AggregatorInv, Untouched
  <1>9. Reached'
    BY <1>1, <1>2, <1>3, <1>5 DEF AggregatorInv, AggregatorType, Reached
  <1>10. Lonely'
    BY <1>1, <1>6 DEF AggregatorInv, Lonely
  <1>11. SnapshotsArePast'
    <2>1. ASSUME NEW x \in Workers, handler'[x] # None
          PROVE  /\ peak'[handler'[x].height] # None
                 /\ Grown(handler'[x].value, peak'[handler'[x].height])
      BY <2>1, <1>1, <1>6 DEF AggregatorInv, SnapshotsArePast
    <2>2. ASSUME NEW g \in mine' PROVE Grown(ByHeight(g)', peak'[g])
      <3>1. CASE g = h
        BY <3>1, <1>1, <1>3, <1>5 DEF ByHeight
      <3>2. CASE g # h
        <4>1. g \in mine /\ g \in Heights
          BY <2>2, <3>2, <1>1 DEF AggregatorInv, AggregatorType
        <4>2. Grown(table[g], peak[g])
          BY <4>1 DEF AggregatorInv, SnapshotsArePast, ByHeight
        <4>3. QED
          BY <3>2, <4>1, <4>2, <1>1, <1>5 DEF ByHeight
      <3>3. QED
        BY <3>1, <3>2
    <2>3. height' # 0 => Latest' = <<height', peak'[height']>>
      BY <1>1 DEF AggregatorInv, SnapshotsArePast, Latest
    <2>4. QED
      BY <2>1, <2>2, <2>3 DEF SnapshotsArePast
  <1>12. RowIsCurrent'
    <2> SUFFICES ASSUME NEW g \in Heights, peak'[g] # None, g \notin crowded'
                 PROVE  \/ ByHeight(g)' = peak'[g]
                        \/ \E x \in Workers : handler'[x] = [height |-> g, value |-> peak'[g]]
      BY DEF RowIsCurrent
    <2>1. peak' = peak /\ crowded' = crowded
      BY <1>1
    <2>2. CASE g = h
      BY <2>1, <2>2, <1>4, <1>5 DEF ByHeight
    <2>3. CASE g # h
      <3>1. \/ table[g] = peak[g]
            \/ \E x \in Workers : handler[x] = [height |-> g, value |-> peak[g]]
        BY <2>1 DEF AggregatorInv, RowIsCurrent, ByHeight
      <3>2. ASSUME NEW x \in Workers, handler[x] = [height |-> g, value |-> peak[g]]
            PROVE  handler'[x] = [height |-> g, value |-> peak[g]]
        <4>1. x # w
          BY <3>2, <2>3 DEF h
        <4>2. QED
          BY <4>1, <3>2, <1>6
      <3>3. QED
        BY <2>1, <2>3, <3>1, <3>2, <1>5 DEF ByHeight
    <2>4. QED
      BY <2>2, <2>3
  <1>13. QED
    BY <1>7, <1>8, <1>9, <1>10, <1>11, <1>12 DEF AggregatorInv

(* put_block fails *)
LEMMA PutBlockFailsKeeps ==
  ASSUME AggregatorInv, NEW w \in Workers, PutBlockFails(w)
  PROVE  AggregatorInv'
  <1> DEFINE h == handler[w].height
  <1>1. /\ handler[w] # None
        /\ crowded' = crowded \cup {h}
        /\ handler' = [handler EXCEPT ![w] = None]
        /\ UNCHANGED <<height, last, ids, counter, table, peak, mine>>
    BY DEF PutBlockFails
  <1>2. h \in Heights
    BY <1>1 DEF AggregatorInv, AggregatorType, Writes
  <1> HIDE DEF h
  <1>3. handler'[w] = None /\ \A x \in Workers : x # w => handler'[x] = handler[x]
    BY <1>1 DEF AggregatorInv, AggregatorType
  <1>4. AggregatorType'
    BY <1>1, <1>2 DEF AggregatorInv, AggregatorType
  <1>5. Untouched' /\ Reached'
    BY <1>1 DEF AggregatorInv, Untouched, Reached
  <1>6. Lonely'
    BY <1>1, <1>3 DEF AggregatorInv, Lonely
  <1>7. SnapshotsArePast'
    <2>1. ASSUME NEW x \in Workers, handler'[x] # None
          PROVE  /\ peak'[handler'[x].height] # None
                 /\ Grown(handler'[x].value, peak'[handler'[x].height])
      BY <2>1, <1>1, <1>3 DEF AggregatorInv, SnapshotsArePast
    <2>2. ASSUME NEW g \in mine' PROVE Grown(ByHeight(g)', peak'[g])
      BY <2>2, <1>1 DEF AggregatorInv, SnapshotsArePast, ByHeight
    <2>3. height' # 0 => Latest' = <<height', peak'[height']>>
      BY <1>1 DEF AggregatorInv, SnapshotsArePast, Latest
    <2>4. QED
      BY <2>1, <2>2, <2>3 DEF SnapshotsArePast
  <1>8. RowIsCurrent'
    <2> SUFFICES ASSUME NEW g \in Heights, peak'[g] # None, g \notin crowded'
                 PROVE  \/ ByHeight(g)' = peak'[g]
                        \/ \E x \in Workers : handler'[x] = [height |-> g, value |-> peak'[g]]
      BY DEF RowIsCurrent
    <2>1. peak' = peak /\ table' = table /\ g \notin crowded /\ g # h
      BY <1>1
    <2>2. \/ table[g] = peak[g]
          \/ \E x \in Workers : handler[x] = [height |-> g, value |-> peak[g]]
      BY <2>1 DEF AggregatorInv, RowIsCurrent, ByHeight
    <2>3. ASSUME NEW x \in Workers, handler[x] = [height |-> g, value |-> peak[g]]
          PROVE  handler'[x] = [height |-> g, value |-> peak[g]]
      <3>1. x # w
        BY <2>3, <2>1 DEF h
      <3>2. QED
        BY <3>1, <2>3, <1>3
    <2>4. QED
      BY <2>1, <2>2, <2>3 DEF ByHeight
  <1>9. QED
    BY <1>4, <1>5, <1>6, <1>7, <1>8 DEF AggregatorInv

(* The state of a process that has just started. *)
LEMMA FreshInv ==
  ASSUME height = 0, last = Empty, ids = [n \in Addrs |-> None], counter = 0,
         handler = [w \in Workers |-> None], peak = [h \in Heights |-> None],
         table \in [Heights -> Values \cup {None}], crowded = {}, mine = {}
  PROVE  AggregatorInv
  <1>1. AggregatorType
    <2>1. Empty \in Values
      BY DEF Empty, Values
    <2>2. QED
      BY <2>1 DEF AggregatorType
  <1>2. Untouched /\ Reached /\ Lonely /\ RowIsCurrent
    BY DEF Untouched, Reached, Lonely, RowIsCurrent
  <1>3. SnapshotsArePast
    BY DEF SnapshotsArePast
  <1>4. QED
    BY <1>1, <1>2, <1>3 DEF AggregatorInv

(* A restart forgets everything but the table.                             *)
LEMMA OpenKeeps ==
  ASSUME AggregatorInv, OpenAggregator
  PROVE  AggregatorInv'
  <1>1. /\ height' = 0 /\ last' = Empty /\ ids' = [n \in Addrs |-> None] /\ counter' = 0
        /\ handler' = [w \in Workers |-> None] /\ peak' = [h \in Heights |-> None]
        /\ table' \in [Heights -> Values \cup {None}] /\ crowded' = {} /\ mine' = {}
    BY DEF OpenAggregator, AggregatorInv, AggregatorType
  <1>2. AggregatorType'
    <2>1. Empty \in Values
      BY DEF Empty, Values
    <2>2. QED
      BY <1>1, <2>1 DEF AggregatorType
  <1>3. Untouched' /\ Reached' /\ Lonely' /\ RowIsCurrent'
    BY <1>1 DEF Untouched, Reached, Lonely, RowIsCurrent
  <1>4. SnapshotsArePast'
    BY <1>1 DEF SnapshotsArePast
  <1>5. QED
    BY <1>2, <1>3, <1>4 DEF AggregatorInv

(* The inductive invariant always holds.                                   *)
LEMMA AggregatorInduction == AggregatorSpec => []AggregatorInv
  <1>1. AggregatorInit => AggregatorInv
    <2>1. [h \in Heights |-> None] \in [Heights -> Values \cup {None}]
      OBVIOUS
    <2>2. QED
      BY <2>1, FreshInv DEF AggregatorInit
  <1>2. AggregatorInv /\ [AggregatorNext]_aggregatorVars => AggregatorInv'
    <2> SUFFICES ASSUME AggregatorInv, [AggregatorNext]_aggregatorVars PROVE AggregatorInv'
      OBVIOUS
    <2>1. ASSUME NEW w \in Workers, NEW key \in Keys, NEW event \in Events, PostData(w, key, event)
          PROVE  AggregatorInv'
      BY <2>1, PostDataKeeps
    <2>2. ASSUME NEW w \in Workers, PutBlock(w) PROVE AggregatorInv'
      BY <2>2, PutBlockKeeps
    <2>3. ASSUME NEW w \in Workers, PutBlockFails(w) PROVE AggregatorInv'
      BY SMTT(30), <2>3, PutBlockFailsKeeps
    <2>4. CASE OpenAggregator
      BY <2>4, OpenKeeps
    <2>5. CASE UNCHANGED aggregatorVars
      BY <2>5 DEF aggregatorVars, AggregatorInv, AggregatorType, Untouched, Reached, Lonely,
                  SnapshotsArePast, RowIsCurrent, Latest, ByHeight, Grown
    <2>6. QED
      BY <2>1, <2>2, <2>3, <2>4, <2>5 DEF AggregatorNext
  <1>3. QED
    BY <1>1, <1>2, PTL DEF AggregatorSpec

-----------------------------------------------------------------------------
(* A copy of the state on its way to the database, and a row written in    *)
(* this life of the aggregator, are former states of what post_data keeps  *)
(* for that height, whatever workers do in between.                        *)
THEOREM AggregatorSnapshots == AggregatorSpec => []SnapshotsArePast
  <1>1. AggregatorInv => SnapshotsArePast
    BY DEF AggregatorInv
  <1>2. QED
    BY <1>1, AggregatorInduction, PTL

(* The row of a height is what post_data last knew of it, or is being      *)
(* written, unless two posts of the height overlapped or a write failed.   *)
THEOREM AggregatorRowIsCurrent == AggregatorSpec => []RowIsCurrent
  <1>1. AggregatorInv => RowIsCurrent
    BY DEF AggregatorInv
  <1>2. QED
    BY <1>1, AggregatorInduction, PTL
=============================================================================
