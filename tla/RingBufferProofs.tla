-------------------------- MODULE RingBufferProofs --------------------------
(***************************************************************************)
(* Proofs that the cursors stay ordered, that the reader only ever sees    *)
(* intact records and that it hands every event on once, in order, for     *)
(* every buffer size and every set of record lengths; and that the ring    *)
(* implements the ordered log.                                             *)
(***************************************************************************)
EXTENDS RingBuffer, TLAPS

-----------------------------------------------------------------------------
(* The inductive invariant. *)

Starts == DOMAIN records
End(p) == p + records[p].len
Boundaries == Starts \cup {producer_pos}

(* The reservations tile the positions from 0 to producer_pos. *)
Tiling ==
    /\ \A p \in Starts : End(p) <= producer_pos
    /\ \A p, q \in Starts : p < q => End(p) <= q
    /\ \A p \in Starts : End(p) \in Boundaries

(* What the kernel may not overwrite is in memory as it was written. *)
LiveIntact ==
    \A p \in Starts : p >= consumer_pos =>
        /\ data[Slot(p)] = [at |-> p, len |-> records[p].len,
                            flag |-> records[p].st, kind |-> records[p].kind]
        /\ \A k \in p .. End(p) - 1 : data[Slot(k)].at = k

Cursors ==
    /\ consumer_pos <= consumer_pos_value
    /\ consumer_pos_value <= producer_pos
    /\ producer_pos < consumer_pos + Size
    /\ consumer_pos_value \in Boundaries
    /\ pr_pos <= producer_pos
    /\ reader = "loaded" => consumer_pos_value <= pr_pos /\ pr_pos \in Boundaries
    /\ reader # "failed"

(* The slice being parsed is the last record stepped over. *)
SliceIsLive ==
    reader = "slice" =>
        /\ current.pos \in Starts
        /\ current.len = records[current.pos].len
        /\ consumer_pos_value = End(current.pos)
        /\ consumer_pos <= current.pos
        /\ records[current.pos].st = "ready"

NoBusyBehind == \A p \in Starts : p < consumer_pos_value => records[p].st # "busy"

IInv ==
    /\ TypeOK
    /\ Tiling
    /\ LiveIntact
    /\ Cursors
    /\ SliceIsLive
    /\ NoBusyBehind
    /\ OnceInOrder

-----------------------------------------------------------------------------
(* Arithmetic of the slots. *)

(* A position has a cell. *)
LEMMA SlotType == ASSUME NEW p \in Nat PROVE Slot(p) \in Cells
  BY SizeAssumption DEF Slot, Cells

(* Positions less than a buffer apart have different cells (the mask of read_slice). *)
LEMMA SlotInjective ==
  ASSUME NEW p \in Nat, NEW q \in Nat, p < q, q < p + Size
  PROVE  Slot(p) # Slot(q)
  <1> DEFINE a == p \div Size
             b == q \div Size
  <1> SUFFICES ASSUME p % Size = q % Size PROVE FALSE
    BY DEF Slot
  <1>1. a \in Int /\ b \in Int /\ p = Size * a + (p % Size) /\ q = Size * b + (q % Size)
    BY SizeAssumption
  <1>2. q - p = Size * (b - a)
    <2> HIDE DEF a, b
    <2> QED BY <1>1, SizeAssumption
  <1>3. b - a >= 1 \/ b - a <= 0
    <2> HIDE DEF a, b
    <2> QED BY <1>1
  <1>4. CASE b - a >= 1
    <2> DEFINE k == b - a
    <2>1. k \in Int /\ k >= 1 /\ q - p = Size * k
      <3> HIDE DEF a, b
      <3> QED BY <1>1, <1>2, <1>4
    <2> HIDE DEF k
    <2>2. Size * k >= Size
      BY <2>1, SizeAssumption
    <2> QED BY <2>1, <2>2, SizeAssumption
  <1>5. CASE b - a <= 0
    <2> DEFINE k == b - a
    <2>1. k \in Int /\ k <= 0 /\ q - p = Size * k
      <3> HIDE DEF a, b
      <3> QED BY <1>1, <1>2, <1>5
    <2> HIDE DEF k
    <2>2. Size * k <= 0
      BY <2>1, SizeAssumption
    <2> QED BY <2>1, <2>2, SizeAssumption
  <1> QED BY <1>3, <1>4, <1>5

(* Every record has a positive length. *)
LEMMA LensType == Lens \subseteq Nat \ {0}
  BY LensAssumption DEF Lens

-----------------------------------------------------------------------------
(* What a reservation does to the memory. *)

(* The cells of a reservation are those of its positions. *)
LEMMA CoversIff ==
  ASSUME NEW p \in Nat, NEW len \in Nat, NEW c
  PROVE  Covers(p, len, c) <=> \E k \in p .. p + len - 1 : c = Slot(k)
  <1>1. ASSUME NEW k \in 0 .. len - 1, c = Slot(p + k)
        PROVE  \E j \in p .. p + len - 1 : c = Slot(j)
    <2> WITNESS p + k \in p .. p + len - 1
    <2> QED BY <1>1
  <1>2. ASSUME NEW j \in p .. p + len - 1, c = Slot(j)
        PROVE  \E k \in 0 .. len - 1 : c = Slot(p + k)
    <2>1. j - p \in 0 .. len - 1 /\ p + (j - p) = j
      OBVIOUS
    <2> QED BY <1>2, <2>1
  <1> QED BY <1>1, <1>2 DEF Covers

(* The cells of a new record name the positions they now stand for. *)
LEMMA ReservedCell ==
  ASSUME IInv, NEW len \in Lens, NEW kind \in Kinds, Reserve(len, kind),
         NEW k \in producer_pos .. producer_pos + len - 1
  PROVE  /\ k = producer_pos =>
              data'[Slot(k)] = [at |-> k, len |-> len, flag |-> "busy", kind |-> kind]
         /\ k # producer_pos =>
              data'[Slot(k)] = [at |-> k, len |-> 0, flag |-> "body", kind |-> kind]
  <1> DEFINE P == producer_pos
  <1>1. P \in Nat /\ consumer_pos \in Nat /\ len \in Nat /\ len < Size /\ k \in Nat
    <2>1. P \in Nat /\ consumer_pos \in Nat /\ len \in Nat /\ consumer_pos <= P
      BY LensType DEF IInv, TypeOK, Cursors
    <2>2. k \in Nat
      BY <2>1
    <2> QED BY <2>1, <2>2, SizeAssumption DEF Reserve, Fits
  <1>2. Covers(P, len, Slot(k))
    BY <1>1, CoversIff
  <1>3. Slot(k) \in Cells
    BY <1>1, SlotType
  <1>4. \A j \in P .. P + len - 1 : Slot(j) = Slot(k) => j = k
    <2> SUFFICES ASSUME NEW j \in P .. P + len - 1, j # k PROVE Slot(j) # Slot(k)
      OBVIOUS
    <2>1. j \in Nat /\ ((j < k /\ k < j + Size) \/ (k < j /\ j < k + Size))
      BY <1>1, SizeAssumption
    <2> QED BY <1>1, <2>1, SlotInjective
  <1>5. (CHOOSE j \in P .. P + len - 1 : Slot(j) = Slot(k)) = k
    <2> DEFINE c == CHOOSE j \in P .. P + len - 1 : Slot(j) = Slot(k)
    <2>1. \E j \in P .. P + len - 1 : Slot(j) = Slot(k)
      OBVIOUS
    <2>2. c \in P .. P + len - 1 /\ Slot(c) = Slot(k)
      BY <2>1, Zenon
    <2> QED BY <1>4, <2>2
  <1>6. Slot(k) = Slot(P) <=> k = P
    BY <1>1, <1>4
  <1>7. data'[Slot(k)] =
          IF Slot(k) = Slot(P)
          THEN [at |-> P, len |-> len, flag |-> "busy", kind |-> kind]
          ELSE [at |-> CHOOSE j \in P .. P + len - 1 : Slot(j) = Slot(k),
                len |-> 0, flag |-> "body", kind |-> kind]
    BY <1>2, <1>3, Zenon DEF Reserve
  <1> QED BY <1>5, <1>6, <1>7, Zenon

(* The words the reader has not given back stay as they are. *)
LEMMA UntouchedCell ==
  ASSUME IInv, NEW len \in Lens, NEW kind \in Kinds, Reserve(len, kind),
         NEW k \in consumer_pos .. producer_pos - 1
  PROVE  data'[Slot(k)] = data[Slot(k)]
  <1>1. /\ producer_pos \in Nat /\ consumer_pos \in Nat /\ len \in Nat /\ k \in Nat
        /\ producer_pos + len < consumer_pos + Size
    <2>1. /\ producer_pos \in Nat /\ consumer_pos \in Nat /\ len \in Nat
          /\ consumer_pos <= producer_pos
      BY LensType DEF IInv, TypeOK, Cursors
    <2>2. k \in Nat
      BY <2>1
    <2> QED BY <2>1, <2>2, SizeAssumption DEF Reserve, Fits
  <1>2. ASSUME NEW j \in producer_pos .. producer_pos + len - 1 PROVE Slot(k) # Slot(j)
    <2>1. j \in Nat /\ k < j /\ j < k + Size
      BY <1>1, SizeAssumption
    <2> QED BY <1>1, <2>1, SlotInjective
  <1>3. ~Covers(producer_pos, len, Slot(k))
    BY <1>1, <1>2, CoversIff
  <1>4. Slot(k) \in Cells
    BY <1>1, SlotType
  <1> QED BY <1>3, <1>4, Zenon DEF Reserve

(* A reservation keeps the types. *)
LEMMA ReserveType ==
  ASSUME IInv, NEW len \in Lens, NEW kind \in Kinds, Reserve(len, kind)
  PROVE  TypeOK'
  <1> DEFINE P == producer_pos
  <1>1. P \in Nat /\ len \in Nat
    BY LensType DEF IInv, TypeOK
  <1>2. data' \in [Cells -> Cell]
    <2>1. ASSUME NEW c \in Cells PROVE data'[c] \in Cell
      <3>1. CASE Covers(P, len, c)
        <4>1. PICK k \in P .. P + len - 1 : c = Slot(k)
          BY <1>1, <3>1, CoversIff
        <4>2. k \in Nat
          BY <1>1
        <4>3. CASE k = P
          <5>1. data'[c] = [at |-> k, len |-> len, flag |-> "busy", kind |-> kind]
            BY <4>1, <4>3, ReservedCell, Zenon
          <5> QED BY <1>1, <4>2, <5>1 DEF Cell
        <4>4. CASE k # P
          <5>1. data'[c] = [at |-> k, len |-> 0, flag |-> "body", kind |-> kind]
            BY <4>1, <4>4, ReservedCell, Zenon
          <5> QED BY <1>1, <4>2, <5>1 DEF Cell
        <4> QED BY <4>3, <4>4
      <3>2. CASE ~Covers(P, len, c)
        <4>1. data'[c] = data[c]
          BY <3>2, Zenon DEF Reserve
        <4> QED BY <4>1 DEF IInv, TypeOK
      <3> QED BY <3>1, <3>2
    <2>2. data' = [c \in Cells |-> data'[c]]
      BY Zenon DEF Reserve
    <2> QED BY <2>1, <2>2
  <1>3. DOMAIN records' = DOMAIN records \cup {P}
    BY DEF Reserve
  <1>4. records' \in [DOMAIN records' -> [len : Lens, kind : Kinds, st : {"busy", "ready", "discard"}]]
    BY <1>3 DEF Reserve, IInv, TypeOK
  <1> QED BY <1>1, <1>2, <1>3, <1>4 DEF Reserve, readerVars, IInv, TypeOK

-----------------------------------------------------------------------------
(* Every action preserves the invariant. *)

(* bpf_ringbuf_reserve keeps the invariant. *)
LEMMA ReserveInv ==
  ASSUME IInv, NEW len \in Lens, NEW kind \in Kinds, Reserve(len, kind)
  PROVE  IInv'
  <1>0. PICK P : P = producer_pos
    OBVIOUS
  <1>1. TypeOK'
    BY ReserveType
  <1>2. /\ P \in Nat /\ consumer_pos \in Nat /\ consumer_pos_value \in Nat
        /\ len \in Nat \ {0} /\ Starts \subseteq Nat
        /\ \A p \in Starts : records[p].len \in Nat \ {0}
    BY <1>0, LensType DEF IInv, TypeOK, Starts
  <1>3. /\ Starts' = Starts \cup {P}
        /\ records'[P] = [len |-> len, kind |-> kind, st |-> "busy"]
        /\ producer_pos' = P + len
    BY <1>0 DEF Reserve, Starts
  <1>4. \A p \in Starts : p < P /\ p \in Starts' /\ records'[p] = records[p] /\ End(p)' = End(p)
    BY <1>0, <1>2, <1>3 DEF Reserve, Starts, End, IInv, Tiling
  <1>5. End(P)' = P + len /\ P \notin Starts
    BY <1>0, <1>2, <1>3, <1>4 DEF End
  <1>6. Tiling'
    <2>1. \A p \in Starts' : End(p)' <= producer_pos'
      BY <1>0, <1>2, <1>3, <1>4, <1>5 DEF IInv, Tiling, End
    <2>2. \A p, q \in Starts' : p < q => End(p)' <= q
      BY <1>0, <1>2, <1>3, <1>4, <1>5 DEF IInv, Tiling, End
    <2>3. \A p \in Starts' : End(p)' \in Boundaries'
      BY <1>0, <1>2, <1>3, <1>4, <1>5 DEF IInv, Tiling, Boundaries
    <2> QED BY <2>1, <2>2, <2>3 DEF Tiling
  <1>7. LiveIntact'
    <2>1. ASSUME NEW p \in Starts, p >= consumer_pos
          PROVE  /\ data'[Slot(p)] = [at |-> p, len |-> records'[p].len,
                                      flag |-> records'[p].st, kind |-> records'[p].kind]
                 /\ \A k \in p .. End(p)' - 1 : data'[Slot(k)].at = k
      <3>1. \A k \in p .. End(p) - 1 : k \in consumer_pos .. P - 1
        BY <1>0, <1>2, <2>1 DEF IInv, Tiling, End
      <3>2. \A k \in p .. End(p) - 1 : data'[Slot(k)] = data[Slot(k)]
        BY <1>0, <3>1, UntouchedCell
      <3>3. p \in p .. End(p) - 1
        BY <1>2 DEF End
      <3> QED BY <1>4, <2>1, <3>2, <3>3 DEF IInv, LiveIntact
    <2>2. /\ data'[Slot(P)] = [at |-> P, len |-> records'[P].len,
                               flag |-> records'[P].st, kind |-> records'[P].kind]
          /\ \A k \in P .. P + len - 1 : data'[Slot(k)].at = k
      <3>1. P \in P .. P + len - 1
        BY <1>2
      <3>2. data'[Slot(P)] = [at |-> P, len |-> len, flag |-> "busy", kind |-> kind]
        BY <1>0, <3>1, ReservedCell, Zenon
      <3>3. ASSUME NEW k \in P .. P + len - 1 PROVE data'[Slot(k)].at = k
        <4>1. CASE k = P
          BY <4>1, <3>2
        <4>2. CASE k # P
          <5>1. data'[Slot(k)] = [at |-> k, len |-> 0, flag |-> "body", kind |-> kind]
            BY <1>0, <4>2, ReservedCell, Zenon
          <5> QED BY <5>1
        <4> QED BY <4>1, <4>2
      <3>4. /\ records'[P].len = len /\ records'[P].st = "busy"
            /\ records'[P].kind = kind
        BY <1>3
      <3> QED BY <3>2, <3>3, <3>4
    <2>3. consumer_pos' = consumer_pos
      BY DEF Reserve, readerVars
    <2>4. SUFFICES ASSUME NEW p \in Starts', p >= consumer_pos
          PROVE  /\ data'[Slot(p)] = [at |-> p, len |-> records'[p].len,
                                      flag |-> records'[p].st, kind |-> records'[p].kind]
                 /\ \A k \in p .. End(p)' - 1 : data'[Slot(k)].at = k
      BY <2>3 DEF LiveIntact
    <2>5. CASE p = P
      <3>1. End(p)' = P + len
        BY <1>3, <2>5 DEF End
      <3>2. \A k \in p .. End(p)' - 1 : data'[Slot(k)].at = k
        BY <1>2, <2>2, <2>5, <3>1
      <3> QED BY <2>2, <2>5, <3>2
    <2> QED BY <1>3, <2>1, <2>4, <2>5
  <1>8. Cursors'
    BY <1>0, <1>2, <1>3, SizeAssumption DEF IInv, Cursors, Reserve, Fits, readerVars, Boundaries, TypeOK
  <1>9. SliceIsLive'
    BY <1>3, <1>4, Zenon DEF IInv, SliceIsLive, Reserve, readerVars
  <1>10. NoBusyBehind'
    <2>1. consumer_pos_value' = consumer_pos_value /\ ~(P < consumer_pos_value)
      BY <1>0, <1>2 DEF IInv, Cursors, Reserve, readerVars
    <2> QED BY <1>3, <1>4, <2>1 DEF IInv, NoBusyBehind
  <1>11. OnceInOrder'
    <2>1. UNCHANGED <<reader, current, consumer_pos_value, channel>>
      BY DEF Reserve, readerVars
    <2>2. {p \in Passed : records[p].kind = "event" /\ records[p].st = "ready"}'
            = {p \in Passed : records[p].kind = "event" /\ records[p].st = "ready"}
      BY <1>3, <1>4, <2>1 DEF Passed, Starts
    <2> QED BY <2>1, <2>2 DEF IInv, OnceInOrder
  <1> QED BY <1>1, <1>6, <1>7, <1>8, <1>9, <1>10, <1>11 DEF IInv

(* submit and discard keep the invariant. *)
LEMMA CommitInv ==
  ASSUME IInv, NEW p \in DOMAIN records, Commit(p)
  PROVE  IInv'
  <1>0. PICK st \in {"ready", "discard"} :
          /\ records' = [records EXCEPT ![p].st = st]
          /\ data' = [data EXCEPT ![Slot(p)].flag = st]
    BY Zenon DEF Commit
  <1>1. /\ producer_pos \in Nat /\ consumer_pos \in Nat /\ consumer_pos_value \in Nat
        /\ p \in Starts /\ Starts \subseteq Nat /\ Slot(p) \in Cells
        /\ \A q \in Starts : records[q].len \in Nat \ {0}
    BY LensType, SlotType DEF IInv, TypeOK, Starts
  <1>2. p >= consumer_pos_value /\ p >= consumer_pos
    BY <1>1 DEF IInv, NoBusyBehind, Cursors, Commit
  <1>3. /\ Starts' = Starts
        /\ records'[p] = [len |-> records[p].len, kind |-> records[p].kind, st |-> st]
        /\ \A q \in Starts : q # p => records'[q] = records[q]
    <2>1. records \in [Starts -> [len : Lens, kind : Kinds, st : {"busy", "ready", "discard"}]]
      BY DEF IInv, TypeOK, Starts
    <2>2. Starts' = Starts
      BY <1>0, <2>1 DEF Starts
    <2> QED BY <1>0, <1>1, <2>1, <2>2
  <1>4. \A q \in Starts : End(q)' = End(q) /\ records'[q].kind = records[q].kind
    BY <1>3 DEF End
  <1>5. TypeOK'
    <2>1. data' \in [Cells -> Cell]
      <3>1. [data[Slot(p)] EXCEPT !.flag = st] \in Cell
        <4>1. data[Slot(p)] \in Cell
          BY <1>1 DEF IInv, TypeOK
        <4> QED BY <4>1 DEF Cell
      <3> QED BY <1>0, <1>1, <3>1 DEF IInv, TypeOK
    <2>2. /\ DOMAIN records' = DOMAIN records
          /\ records' \in [DOMAIN records -> [len : Lens, kind : Kinds, st : {"busy", "ready", "discard"}]]
      BY <1>0, Zenon DEF IInv, TypeOK
    <2> QED BY <2>1, <2>2 DEF Commit, readerVars, IInv, TypeOK
  <1>6. Tiling' /\ Cursors'
    BY <1>3, <1>4 DEF IInv, Tiling, Cursors, Boundaries, Commit, readerVars
  <1>7. LiveIntact'
    <2>1. \A c \in Cells : data'[c].at = data[c].at
      BY <1>0, <1>1 DEF IInv, TypeOK, Cell
    <2>2. ASSUME NEW q \in Starts, q >= consumer_pos
          PROVE  \A k \in q .. End(q) - 1 : data'[Slot(k)].at = k
      <3> SUFFICES ASSUME NEW k \in q .. End(q) - 1 PROVE data'[Slot(k)].at = k
        OBVIOUS
      <3>1. Slot(k) \in Cells
        BY <1>1, SlotType DEF End
      <3> QED BY <2>1, <2>2, <3>1, Zenon DEF IInv, LiveIntact
    <2>3. ASSUME NEW q \in Starts, q >= consumer_pos
          PROVE  data'[Slot(q)] = [at |-> q, len |-> records'[q].len,
                                   flag |-> records'[q].st, kind |-> records'[q].kind]
      <3>1. CASE q = p
        <4>1. data[Slot(p)] = [at |-> p, len |-> records[p].len,
                               flag |-> records[p].st, kind |-> records[p].kind]
          BY <1>2, <1>1 DEF IInv, LiveIntact
        <4>2. data'[Slot(p)] = [data[Slot(p)] EXCEPT !.flag = st]
          BY <1>0, <1>1 DEF IInv, TypeOK
        <4> QED BY <1>3, <3>1, <4>1, <4>2
      <3>2. CASE q # p
        <4>1. /\ q \in Nat /\ p \in Nat
              /\ (q < p /\ p < q + Size) \/ (p < q /\ q < p + Size)
          BY <1>1, <1>2, <2>3, <3>2, SizeAssumption DEF IInv, Tiling, Cursors, End
        <4>2. Slot(q) # Slot(p) /\ Slot(q) \in Cells
          BY <4>1, SlotInjective, SlotType
        <4>3. data'[Slot(q)] = data[Slot(q)]
          BY <1>0, <4>2 DEF IInv, TypeOK
        <4> QED BY <1>3, <2>3, <3>2, <4>3 DEF IInv, LiveIntact
      <3> QED BY <3>1, <3>2
    <2>4. consumer_pos' = consumer_pos
      BY DEF Commit, readerVars
    <2> QED BY <1>3, <1>4, <2>2, <2>3, <2>4 DEF LiveIntact
  <1>8. SliceIsLive'
    <2>1. reader = "slice" => current.pos # p
      BY DEF IInv, SliceIsLive, Commit
    <2> QED BY <1>3, <1>4, <2>1 DEF IInv, SliceIsLive, Commit, readerVars
  <1>9. NoBusyBehind'
    BY <1>0, <1>3 DEF IInv, NoBusyBehind, Commit, readerVars
  <1>10. OnceInOrder'
    <2>1. UNCHANGED <<reader, current, consumer_pos_value, channel>>
      BY DEF Commit, readerVars
    <2>2. p \notin Passed
      BY <1>1, <1>2 DEF Passed, IInv, SliceIsLive, End
    <2>3. Passed' = Passed
      BY <1>3, <2>1 DEF Passed, Starts
    <2>4. \A q \in Passed : records'[q] = records[q]
      BY <1>3, <2>2 DEF Passed, Starts
    <2> QED BY <2>1, <2>3, <2>4 DEF IInv, OnceInOrder
  <1> QED BY <1>5, <1>6, <1>7, <1>8, <1>9, <1>10 DEF IInv

(* Nothing starts inside a record. *)
LEMMA NextStart ==
  ASSUME TypeOK, Tiling, NEW c \in Starts
  PROVE  /\ End(c) \in Nat /\ c < End(c)
         /\ \A q \in Starts : q < End(c) => q < c \/ q = c
         /\ {q \in Starts : q < End(c)} = {q \in Starts : q < c} \cup {c}
  <1>1. Starts \subseteq Nat /\ \A q \in Starts : records[q].len \in Nat \ {0}
    BY LensType DEF TypeOK, Starts
  <1>2. ASSUME NEW q \in Starts PROVE End(q) \in Nat /\ q < End(q)
    <2>1. q \in Nat /\ records[q].len \in Nat \ {0}
      BY <1>1
    <2> QED BY <2>1 DEF End
  <1>3. ASSUME NEW q \in Starts, q < End(c) PROVE q < c \/ q = c
    <2>1. CASE c < q
      <3>1. End(c) <= q
        BY <2>1 DEF Tiling
      <3> QED BY <1>1, <1>2, <1>3, <3>1
    <2> QED BY <1>1, <2>1
  <1>4. ASSUME NEW q \in Starts, q < c PROVE q < End(c)
    BY <1>1, <1>2, <1>4
  <1> QED BY <1>2, <1>3, <1>4

(* read_slice keeps the invariant. *)
LEMMA ReadSliceInv ==
  ASSUME IInv, ReadSlice
  PROVE  IInv'
  <1> DEFINE c == consumer_pos_value
  <1>1. /\ producer_pos \in Nat /\ consumer_pos \in Nat /\ c \in Nat /\ pr_pos \in Nat
        /\ Starts \subseteq Nat
        /\ \A q \in Starts : records[q].len \in Nat \ {0}
    BY LensType DEF IInv, TypeOK, Starts
  <1>2. c < pr_pos /\ pr_pos <= producer_pos /\ consumer_pos <= c /\ reader = "loaded"
    BY <1>1 DEF ReadSlice, WouldBlock, IInv, Cursors
  <1>3. c \in Starts
    BY <1>1, <1>2 DEF IInv, Cursors, Boundaries
  <1>4. ~Overflown
    BY <1>1, <1>2, SizeAssumption DEF Overflown, IInv, Cursors
  <1>5. Header = [at |-> c, len |-> records[c].len, flag |-> records[c].st, kind |-> records[c].kind]
    BY <1>1, <1>2, <1>3 DEF Header, IInv, LiveIntact
  <1>6. /\ consumer_pos_value' = End(c)
        /\ records[c].st # "busy"
        /\ pr_pos' = 0
        /\ UNCHANGED <<producer_pos, consumer_pos, data, records, channel, lost, terminating>>
    BY <1>4, <1>5 DEF ReadSlice, WouldBlock, End
  <1>7. \/ records[c].st = "discard" /\ reader' = "idle" /\ current' = current
        \/ records[c].st = "ready" /\ reader' = "slice" /\ current' = [pos |-> c, len |-> records[c].len]
    <2>1. records[c].st \in {"busy", "ready", "discard"}
      BY <1>3 DEF IInv, TypeOK, Starts
    <2> QED BY <2>1, <1>4, <1>5, <1>6 DEF ReadSlice
  <1>8. End(c) \in Nat /\ c < End(c) /\ End(c) <= producer_pos /\ End(c) \in Boundaries
    BY <1>1, <1>3 DEF End, IInv, Tiling
  <1>9. \A q \in Starts : q < End(c) => q < c \/ q = c
    BY <1>3, NextStart DEF IInv
  <1>10. TypeOK'
    <2>1. current' \in [pos : Nat, len : Nat]
      BY <1>1, <1>3, <1>7 DEF IInv, TypeOK
    <2> QED BY <1>6, <1>7, <1>8, <2>1 DEF IInv, TypeOK
  <1>11. Starts' = Starts /\ Boundaries' = Boundaries /\ \A q \in Starts : End(q)' = End(q)
    BY <1>6 DEF Starts, Boundaries, End
  <1>12. Tiling'
    BY <1>6, <1>11 DEF IInv, Tiling
  <1>13. LiveIntact'
    BY <1>6, <1>11 DEF IInv, LiveIntact
  <1>14. Cursors'
    BY <1>1, <1>2, <1>6, <1>7, <1>8, <1>11 DEF IInv, Cursors
  <1>15. SliceIsLive'
    <2> SUFFICES ASSUME reader' = "slice" PROVE SliceIsLive'
      BY DEF SliceIsLive
    <2>1. current'.pos = c /\ current'.len = records[c].len /\ records[c].st = "ready"
      BY <1>7
    <2>2. (End(current.pos))' = End(c)
      BY <1>6, <2>1 DEF End
    <2> QED BY <1>2, <1>3, <1>6, <1>11, <2>1, <2>2 DEF SliceIsLive
  <1>16. NoBusyBehind'
    BY <1>6, <1>9, <1>11 DEF IInv, NoBusyBehind
  <1>17. OnceInOrder'
    <2>1. Passed = {q \in Starts : q < c}
      BY <1>2 DEF Passed, Starts
    <2>2. CASE reader' = "slice"
      <3>1. Passed' = {q \in Starts : q < c}
        BY <1>6, <1>7, <2>2 DEF Passed, Starts
      <3> QED BY <1>6, <2>1, <3>1 DEF IInv, OnceInOrder
    <2>3. CASE reader' # "slice"
      <3>1. Passed' = {q \in Starts : q < End(c)}
        BY <1>6, <2>3 DEF Passed, Starts
      <3>2. Passed' = Passed \cup {c}
        BY <1>3, <2>1, <3>1, NextStart DEF IInv
      <3>3. records[c].st # "ready"
        BY <1>7, <2>3
      <3> QED BY <1>6, <3>2, <3>3 DEF IInv, OnceInOrder
    <2> QED BY <2>2, <2>3
  <1> QED BY <1>10, <1>12, <1>13, <1>14, <1>15, <1>16, <1>17 DEF IInv

(* read_finish keeps the invariant. *)
LEMMA ReadFinishInv ==
  ASSUME IInv, ReadFinish
  PROVE  IInv'
  <1>0. PICK c : c = current.pos
    OBVIOUS
  <1>1. /\ producer_pos \in Nat /\ consumer_pos \in Nat /\ consumer_pos_value \in Nat
        /\ Starts \subseteq Nat /\ c \in Nat /\ channel \in Seq(Nat)
        /\ \A q \in Starts : records[q].len \in Nat \ {0}
    BY <1>0, LensType DEF IInv, TypeOK, Starts
  <1>2. /\ reader = "slice" /\ c \in Starts /\ consumer_pos_value = End(c)
        /\ consumer_pos <= c /\ records[c].st = "ready"
    BY <1>0 DEF ReadFinish, IInv, SliceIsLive
  <1>3. data[Slot(c)] = [at |-> c, len |-> records[c].len, flag |-> records[c].st, kind |-> records[c].kind]
    BY <1>1, <1>2 DEF IInv, LiveIntact
  <1>4. \/ /\ records[c].kind = "event"
           /\ consumer_pos' = consumer_pos_value
           /\ channel' = Append(channel, c)
        \/ records[c].kind # "event" /\ UNCHANGED <<consumer_pos, channel>>
    BY <1>0, <1>3 DEF ReadFinish
  <1>5. /\ reader' = "idle" /\ current' = NoSlice
        /\ UNCHANGED <<producer_pos, consumer_pos_value, data, records, pr_pos, lost, terminating>>
    BY DEF ReadFinish
  <1>6. TypeOK'
    <2>1. Append(channel, c) \in Seq(Nat)
      BY <1>1
    <2>2. channel' \in Seq(Nat) /\ consumer_pos' \in Nat
      BY <1>1, <1>4, <2>1, Zenon
    <2> QED BY <1>5, <2>2 DEF IInv, TypeOK, NoSlice
  <1>7. Starts' = Starts /\ Boundaries' = Boundaries /\ \A q \in Starts : End(q)' = End(q)
    BY <1>5 DEF Starts, Boundaries, End
  <1>8. consumer_pos <= consumer_pos' /\ consumer_pos' <= consumer_pos_value /\ consumer_pos' \in Nat
    BY <1>1, <1>4 DEF IInv, Cursors
  <1>9. Tiling'
    BY <1>5, <1>7 DEF IInv, Tiling
  <1>10. LiveIntact'
    <2> SUFFICES ASSUME NEW p \in Starts, p >= consumer_pos'
                 PROVE  p >= consumer_pos
      BY <1>5, <1>7 DEF IInv, LiveIntact
    <2> QED BY <1>1, <1>8
  <1>11. Cursors'
    BY <1>1, <1>5, <1>7, <1>8, SizeAssumption DEF IInv, Cursors
  <1>12. SliceIsLive' /\ NoBusyBehind'
    BY <1>5, <1>7 DEF IInv, SliceIsLive, NoBusyBehind
  <1>13. OnceInOrder'
    <2> DEFINE Handed(S) == {p \in S : records[p].kind = "event" /\ records[p].st = "ready"}
    <2>1. Passed = {q \in Starts : q < c}
      BY <1>0, <1>2 DEF Passed, Starts
    <2>2. Passed' = {q \in Starts : q < End(c)}
      BY <1>2, <1>5 DEF Passed, Starts
    <2>4. Passed' = Passed \cup {c}
      BY <1>2, <2>1, <2>2, NextStart DEF IInv
    <2>5. CASE records[c].kind # "event"
      BY <1>4, <1>5, <2>4, <2>5 DEF IInv, OnceInOrder
    <2>6. CASE records[c].kind = "event"
      <3>1. channel' = Append(channel, c)
        BY <1>4, <2>6
      <3>2. /\ DOMAIN channel' = DOMAIN channel \cup {Len(channel) + 1}
            /\ channel'[Len(channel) + 1] = c
            /\ \A i \in DOMAIN channel : channel'[i] = channel[i] /\ i \in Nat /\ i <= Len(channel)
            /\ Len(channel) \in Nat
        BY <1>1, <3>1
      <3>3. \A i \in DOMAIN channel : channel[i] < c
        BY <1>1, <2>1 DEF IInv, OnceInOrder
      <3>4. \A i, j \in DOMAIN channel' : i < j => channel'[i] < channel'[j]
        BY <1>1, <3>2, <3>3 DEF IInv, OnceInOrder
      <3>5. {channel'[i] : i \in DOMAIN channel'} = {channel[i] : i \in DOMAIN channel} \cup {c}
        BY <3>2
      <3>6. Handed(Passed') = Handed(Passed) \cup {c}
        BY <1>2, <2>4, <2>6
      <3>7. {channel[i] : i \in DOMAIN channel} = Handed(Passed)
        BY DEF IInv, OnceInOrder
      <3>8. {p \in Passed : records[p].kind = "event" /\ records[p].st = "ready"}' = Handed(Passed')
        BY <1>5
      <3> HIDE DEF Handed
      <3> QED BY <3>4, <3>5, <3>6, <3>7, <3>8 DEF OnceInOrder
    <2> QED BY <2>5, <2>6
  <1> QED BY <1>6, <1>9, <1>10, <1>11, <1>12, <1>13 DEF IInv

(* The steps that move neither data, records nor the reader's positions, *)
(* stuttering among them.                                                *)
LEMMA QuietInv ==
  ASSUME IInv,
         SendFails \/ LoadProducerPos \/ ReadBlocks \/ WaitEpoll \/ Terminate \/ UNCHANGED vars
  PROVE  IInv'
  <1>1. UNCHANGED <<producer_pos, consumer_pos, consumer_pos_value, data, records, current, channel>>
    BY DEF SendFails, LoadProducerPos, ReadBlocks, WaitEpoll, Terminate, readerVars, vars
  <1>2. /\ reader' = "slice" <=> reader = "slice"
        /\ reader' = "loaded" => pr_pos' = producer_pos \/ (reader = "loaded" /\ pr_pos' = pr_pos)
        /\ reader' # "failed"
        /\ reader' \in {"idle", "loaded", "slice", "wait", "stopped"}
        /\ pr_pos' \in {0, producer_pos, pr_pos}
    <2>1. reader \in {"idle", "loaded", "slice", "wait", "stopped"}
      BY DEF IInv, Cursors, TypeOK
    <2>2. CASE SendFails \/ Terminate \/ UNCHANGED vars
      BY <2>1, <2>2 DEF SendFails, Terminate, readerVars, vars
    <2>3. CASE LoadProducerPos \/ ReadBlocks \/ WaitEpoll
      <3>1. CASE LoadProducerPos
        BY <3>1 DEF LoadProducerPos
      <3>2. CASE ReadBlocks
        BY <3>2 DEF ReadBlocks
      <3>3. CASE WaitEpoll
        BY <3>3 DEF WaitEpoll
      <3> QED BY <2>3, <3>1, <3>2, <3>3
    <2> QED BY <2>2, <2>3
  <1>3. lost' \in BOOLEAN /\ terminating' \in BOOLEAN
    BY Zenon DEF SendFails, LoadProducerPos, ReadBlocks, WaitEpoll, Terminate, vars, IInv, TypeOK
  <1>4. TypeOK'
    BY SMTT(30), <1>1, <1>2, <1>3 DEF IInv, TypeOK
  <1>5. Tiling' /\ LiveIntact' /\ NoBusyBehind' /\ SliceIsLive'
    BY <1>1, <1>2 DEF IInv, Tiling, LiveIntact, NoBusyBehind, SliceIsLive, Starts, End, Boundaries
  <1>6. Cursors'
    BY <1>1, <1>2 DEF IInv, Cursors, TypeOK, Boundaries, Starts
  <1>7. OnceInOrder'
    BY <1>1, <1>2 DEF IInv, OnceInOrder, Passed
  <1> QED BY <1>4, <1>5, <1>6, <1>7 DEF IInv

-----------------------------------------------------------------------------
(* The theorems. *)

(* The invariant holds of a new buffer (RingBuffer::new). *)
LEMMA InitInv == Init => IInv
  <1> SUFFICES ASSUME Init PROVE IInv
    OBVIOUS
  <1>1. TypeOK
    <2>1. data \in [Cells -> Cell]
      BY SizeAssumption DEF Init, Cells, Cell, Kinds
    <2>2. DOMAIN records = {}
      BY DEF Init
    <2>3. records \in [DOMAIN records ->
                         [len : Lens, kind : Kinds, st : {"busy", "ready", "discard"}]]
      BY <2>2 DEF Init
    <2>4. /\ current \in [pos : Nat, len : Nat] /\ channel \in Seq(Nat)
          /\ reader \in {"idle", "loaded", "slice", "wait", "stopped", "failed"}
      BY DEF Init, NoSlice
    <2>5. DOMAIN records \subseteq Nat
      BY <2>2
    <2>6. producer_pos \in Nat /\ consumer_pos \in Nat /\ consumer_pos_value \in Nat
          /\ pr_pos \in Nat /\ lost \in BOOLEAN /\ terminating \in BOOLEAN
      BY Zenon DEF Init
    <2> QED BY <2>1, <2>3, <2>4, <2>5, <2>6 DEF TypeOK
  <1>2. Starts = {}
    BY DEF Init, Starts
  <1>3. Tiling /\ LiveIntact /\ Cursors /\ SliceIsLive /\ NoBusyBehind
    BY <1>2, SizeAssumption DEF Init, Tiling, LiveIntact, Cursors, SliceIsLive, NoBusyBehind, Boundaries
  <1>4. Passed = {} /\ DOMAIN channel = {}
    BY <1>2 DEF Init, Passed, Starts
  <1>5. OnceInOrder
    BY <1>4 DEF OnceInOrder
  <1> QED BY <1>1, <1>3, <1>5 DEF IInv

(* Every step keeps the invariant. *)
LEMMA NextInv == IInv /\ [Next]_vars => IInv'
  <1> SUFFICES ASSUME IInv, [Next]_vars PROVE IInv'
    OBVIOUS
  <1>1. CASE ReserveScratch
    BY <1>1, ReserveInv DEF ReserveScratch, Lens, Kinds
  <1>2. CASE SendData
    BY <1>2, ReserveInv DEF SendData, Lens, Kinds
  <1>3. CASE SendHeader
    BY <1>3, ReserveInv DEF SendHeader, Lens, Kinds
  <1>4. CASE CommitAny
    BY <1>4, CommitInv DEF CommitAny
  <1>5. CASE ReadSlice
    BY <1>5, ReadSliceInv
  <1>6. CASE ReadFinish
    BY <1>6, ReadFinishInv
  <1>7. CASE SendFails \/ LoadProducerPos \/ ReadBlocks \/ WaitEpoll \/ Terminate
    BY <1>7, QuietInv
  <1>8. CASE UNCHANGED vars
    BY <1>8, QuietInv
  <1> QED BY <1>1, <1>2, <1>3, <1>4, <1>5, <1>6, <1>7, <1>8 DEF Next

(* The invariant gives the properties the runs check. *)
LEMMA InvImplies == IInv => TypeOK /\ CursorsOrdered /\ ReadsIntact /\ OnceInOrder
  <1> SUFFICES ASSUME IInv PROVE CursorsOrdered /\ ReadsIntact
    BY DEF IInv
  <1> DEFINE c == consumer_pos_value
  <1>1. c \in Nat /\ pr_pos \in Nat /\ producer_pos \in Nat /\ consumer_pos \in Nat
        /\ Starts \subseteq Nat
    BY DEF IInv, TypeOK, Starts
  <1>2. ASSUME reader = "loaded", ~WouldBlock
        PROVE  /\ c \in Starts
               /\ Header = [at |-> c, len |-> records[c].len, flag |-> records[c].st, kind |-> records[c].kind]
               /\ c + Header.len <= pr_pos
    <2>1. c < pr_pos /\ pr_pos <= producer_pos /\ consumer_pos <= c
      BY <1>1, <1>2 DEF WouldBlock, IInv, Cursors
    <2>2. c \in Starts
      BY <1>1, <2>1 DEF IInv, Cursors, Boundaries
    <2>3. Header = [at |-> c, len |-> records[c].len, flag |-> records[c].st, kind |-> records[c].kind]
      BY <1>1, <2>1, <2>2 DEF Header, IInv, LiveIntact
    <2>4. End(c) <= pr_pos
      <3>1. pr_pos \in Starts \/ pr_pos = producer_pos
        BY <1>2 DEF IInv, Cursors, Boundaries
      <3> QED BY <2>1, <2>2, <3>1 DEF IInv, Tiling
    <2> QED BY <2>2, <2>3, <2>4 DEF End
  <1>3. CursorsOrdered
    BY <1>2 DEF CursorsOrdered, IInv, Cursors
  <1>4. reader = "slice" =>
          \A p \in current.pos .. current.pos + current.len - 1 : data[Slot(p)].at = p
    <2> SUFFICES ASSUME reader = "slice"
                 PROVE  \A p \in current.pos .. current.pos + current.len - 1 : data[Slot(p)].at = p
      OBVIOUS
    <2>1. /\ current.pos \in Starts /\ current.pos >= consumer_pos
          /\ current.pos + current.len = End(current.pos)
      BY <1>1 DEF IInv, SliceIsLive, End
    <2>2. PICK a, n : a = current.pos /\ n = current.len
      OBVIOUS
    <2>3. a \in Starts /\ a >= consumer_pos /\ End(a) = a + n /\ n \in Nat /\ a \in Nat
      BY <2>1, <2>2 DEF IInv, TypeOK
    <2>4. \A p \in a .. a + n - 1 : data[Slot(p)].at = p
      <3>1. \A p \in a .. End(a) - 1 : data[Slot(p)].at = p
        BY <2>3, Zenon DEF IInv, LiveIntact
      <3> QED BY <2>3, <3>1
    <2> QED BY <2>2, <2>4
  <1> QED BY <1>2, <1>3, <1>4 DEF ReadsIntact, Starts

(* The invariant holds always. *)
LEMMA AlwaysInv == Spec => []IInv
  BY InitInv, NextInv, PTL DEF Spec

(* What was handed on is still on record, ahead of the producer. *)
LEMMA LastEventType ==
  ASSUME IInv, channel # <<>>
  PROVE  /\ Len(channel) \in DOMAIN channel
         /\ LastEvent \in Starts /\ LastEvent < producer_pos
  <1>1. Len(channel) \in DOMAIN channel
    BY DEF IInv, TypeOK
  <1>2. LastEvent \in Starts
    BY <1>1 DEF IInv, OnceInOrder, LastEvent, Passed, Starts
  <1>3. /\ Starts \subseteq Nat /\ producer_pos \in Nat
        /\ \A q \in Starts : records[q].len \in Nat \ {0}
    BY LensType DEF IInv, TypeOK, Starts
  <1>4. End(LastEvent) <= producer_pos
    BY <1>2 DEF IInv, Tiling
  <1> QED BY <1>1, <1>2, <1>3, <1>4 DEF End

(* Every step keeps the room that was given back at the end of the last    *)
(* event.                                                                  *)
LEMMA RoomNext == IInv /\ RoomHeldBack /\ [Next]_vars => RoomHeldBack'
  <1> SUFFICES ASSUME IInv, RoomHeldBack, [Next]_vars PROVE RoomHeldBack'
    OBVIOUS
  <1>1. ASSUME UNCHANGED <<consumer_pos, channel>>,
               \A p \in Starts : p < producer_pos => records'[p].len = records[p].len
        PROVE  RoomHeldBack'
    BY <1>1, LastEventType DEF RoomHeldBack, LastEvent
  <1>2. ASSUME NEW len, NEW kind, Reserve(len, kind) PROVE RoomHeldBack'
    <2>1. UNCHANGED <<consumer_pos, channel>>
      BY <1>2 DEF Reserve, readerVars
    <2>2. \A p \in Starts : p < producer_pos => records'[p] = records[p]
      BY <1>2 DEF Reserve, Starts, IInv, TypeOK
    <2> QED BY <1>1, <2>1, <2>2
  <1>3. ASSUME NEW p \in DOMAIN records, Commit(p) PROVE RoomHeldBack'
    <2>1. UNCHANGED <<consumer_pos, channel>>
      BY <1>3 DEF Commit, readerVars
    <2>2. \A q \in Starts : records'[q].len = records[q].len
      BY <1>3 DEF Commit, Starts, IInv, TypeOK
    <2> QED BY <1>1, <2>1, <2>2
  <1>4. CASE ReadFinish
    <2>1. PICK c : c = current.pos
      OBVIOUS
    <2>2. c \in Starts /\ consumer_pos_value = c + records[c].len /\ c >= consumer_pos
      BY <1>4, <2>1 DEF ReadFinish, IInv, SliceIsLive, End, TypeOK
    <2>3. data[Slot(c)].at = c
      <3>1. data[Slot(c)] = [at |-> c, len |-> records[c].len,
                             flag |-> records[c].st, kind |-> records[c].kind]
        BY <2>2, Zenon DEF IInv, LiveIntact
      <3> QED BY <3>1
    <2>4. UNCHANGED records
      BY <1>4 DEF ReadFinish
    <2>5. CASE UNCHANGED <<consumer_pos, channel>>
      BY <1>1, <2>4, <2>5
    <2>6. CASE consumer_pos' = consumer_pos_value /\ channel' = Append(channel, c)
      <3>1. channel' # <<>> /\ LastEvent' = c
        BY <2>2, <2>6 DEF LastEvent, IInv, TypeOK, Starts
      <3> QED BY <2>2, <2>4, <2>6, <3>1 DEF RoomHeldBack
    <2> QED BY <1>4, <2>1, <2>3, <2>5, <2>6 DEF ReadFinish
  <1>5. CASE ReadSlice \/ SendFails \/ LoadProducerPos \/ ReadBlocks \/ WaitEpoll
             \/ Terminate \/ UNCHANGED vars
    <2>1. UNCHANGED <<consumer_pos, channel, records>>
      BY <1>5 DEF ReadSlice, SendFails, LoadProducerPos, ReadBlocks, WaitEpoll, Terminate,
                  readerVars, vars
    <2> QED BY <1>1, <2>1
  <1> QED BY <1>2, <1>3, <1>4, <1>5 DEF Next, ReserveScratch, SendData, SendHeader, CommitAny

(* The variables keep their types (the reader's counters and the memory of *)
(* bpf-ring-buffer/src/lib.rs).                                            *)
THEOREM RingTypeCorrect == Spec => []TypeOK
  BY AlwaysInv, InvImplies, PTL

(* Whatever the buffer size and the record lengths, the two shared         *)
(* positions and the reader's own never cross and read_slice never reports *)
(* an overflow.                                                            *)
THEOREM RingCursorsOrdered == Spec => []CursorsOrdered
  BY AlwaysInv, InvImplies, PTL

(* read_slice never takes anything for a header but a header, and the      *)
(* slice it returns is not overwritten before read_finish gives it back,   *)
(* although the reader's position runs ahead of the published one.         *)
THEOREM RingReadsIntact == Spec => []ReadsIntact
  BY AlwaysInv, InvImplies, PTL

(* The consumer thread's channel holds exactly the submitted events the    *)
(* reader has passed, once each, in the order of their reservation.        *)
THEOREM RingOnceInOrder == Spec => []OnceInOrder
  BY AlwaysInv, InvImplies, PTL

(* The kernel's room is always measured from the end of the last event the *)
(* consumer thread got: what read_value passes over without an event is    *)
(* never given back by itself, in a buffer of any size.                    *)
THEOREM RingRoomHeldBack == Spec => []RoomHeldBack
  <1>1. Init => RoomHeldBack
    BY DEF Init, RoomHeldBack
  <1> QED BY <1>1, AlwaysInv, RoomNext, PTL DEF Spec

-----------------------------------------------------------------------------
(***************************************************************************)
(* The ring buffer of any size, with records of any lengths, implements    *)
(* the ordered log: a reservation takes a ticket, submit and discard       *)
(* complete it, and the reader passes a ticket when it steps over a        *)
(* discarded record or is done with a slice.  All other steps change       *)
(* nothing the log knows of.                                               *)
(***************************************************************************)

(* What the mapping makes of the ring. *)
LogOf == [p \in DOMAIN records |-> [kind |-> records[p].kind, st |-> records[p].st]]
HeadOf == IF reader = "slice" THEN current.pos ELSE consumer_pos_value

(* Positions are tickets of the bounded model. *)
Bounded == producer_pos <= MaxPos

(* A probe reserves only below the bound. *)
LEMMA BoundedNext == IInv /\ Bounded /\ [Next]_vars => Bounded'
  BY DEF Next, Bounded, ReserveScratch, SendData, SendHeader, Reserve, SendFails, CommitAny, Commit,
         LoadProducerPos, ReadSlice, ReadFinish, ReadBlocks, WaitEpoll, Terminate, vars

(* Where the log's head is, and what is below the producer. *)
LEMMA HeadType ==
  ASSUME IInv
  PROVE  /\ HeadOf \in Nat /\ HeadOf <= producer_pos /\ producer_pos \in Nat
         /\ Starts \subseteq Nat
         /\ \A p \in Starts : p < producer_pos /\ records[p].len \in Nat \ {0}
  <1>1. /\ producer_pos \in Nat /\ consumer_pos_value \in Nat /\ Starts \subseteq Nat
        /\ consumer_pos_value <= producer_pos
    BY DEF IInv, TypeOK, Cursors, Starts
  <1>2. \A p \in Starts : records[p].len \in Nat \ {0}
    BY LensType DEF IInv, TypeOK, Starts
  <1>3. \A p \in Starts : p < producer_pos
    <2> SUFFICES ASSUME NEW p \in Starts PROVE p < producer_pos
      OBVIOUS
    <2>1. p + records[p].len <= producer_pos
      BY DEF IInv, Tiling, End
    <2>2. p \in Nat /\ records[p].len \in Nat \ {0} /\ producer_pos \in Nat
      BY <1>1, <1>2
    <2> QED BY <2>1, <2>2
  <1>4. HeadOf = consumer_pos_value \/ HeadOf \in Starts
    BY DEF IInv, SliceIsLive, HeadOf
  <1>5. HeadOf \in Nat /\ HeadOf <= producer_pos
    <2>1. CASE HeadOf = consumer_pos_value
      <3>1. consumer_pos_value \in Nat /\ consumer_pos_value <= producer_pos
        BY <1>1
      <3> QED BY <2>1, <3>1
    <2>2. CASE HeadOf \in Starts
      <3>1. HeadOf \in Nat /\ HeadOf < producer_pos
        BY SMTT(30), <2>2, <1>1, <1>3
      <3> QED BY <3>1, <1>1
    <2> QED BY <1>4, <2>1, <2>2
  <1> QED BY <1>1, <1>2, <1>3, <1>5

(* bpf_ringbuf_reserve takes the next ticket. *)
LEMMA ReserveTakes ==
  ASSUME IInv, NEW len \in Lens, NEW kind \in Kinds, Reserve(len, kind)
  PROVE  Abstract!TakeTicket
  <1> DEFINE P == producer_pos
  <1>1. P \in 0 .. MaxPos
    <2>1. len \in Nat /\ P \in Nat /\ P + len <= MaxPos
      BY LensType, HeadType DEF Reserve
    <2> QED BY <2>1, MaxPosAssumption
  <1>2. P >= HeadOf /\ \A u \in DOMAIN LogOf : u < P
    BY HeadType DEF LogOf, Starts
  <1>3. LogOf' = [u \in DOMAIN LogOf \cup {P} |->
                    IF u = P THEN [kind |-> kind, st |-> "busy"] ELSE LogOf[u]]
    BY DEF Reserve, LogOf
  <1>4. UNCHANGED <<HeadOf, channel>>
    BY SMTT(30) DEF Reserve, readerVars, HeadOf
  <1> QED BY Zenon, <1>1, <1>2, <1>3, <1>4 DEF Abstract!TakeTicket, Abstract!Tickets, LogOf, HeadOf

(* bpf_ringbuf_submit and bpf_ringbuf_discard complete a ticket. *)
LEMMA CommitCompletes ==
  ASSUME IInv, NEW p \in DOMAIN records, Commit(p)
  PROVE  Abstract!Complete
  <1>1. PICK st \in {"ready", "discard"} : records' = [records EXCEPT ![p].st = st]
    BY Zenon DEF Commit
  <1>2. p \in DOMAIN LogOf /\ LogOf[p].st = "busy"
    BY DEF LogOf, Commit
  <1>3. LogOf' = [LogOf EXCEPT ![p].st = st]
    BY Zenon, <1>1 DEF LogOf, IInv, TypeOK
  <1>4. UNCHANGED <<HeadOf, channel>>
    BY DEF Commit, readerVars, HeadOf
  <1> QED BY Zenon, <1>1, <1>2, <1>3, <1>4 DEF Abstract!Complete, Abstract!Tickets, LogOf, HeadOf

(* Moving the head from the start of a completed record to its end passes  *)
(* the first ticket.                                                       *)
LEMMA Passes ==
  ASSUME IInv, Bounded, NEW c \in Starts, HeadOf = c, HeadOf' = End(c),
         End(c) <= producer_pos,
         records[c].st # "busy", UNCHANGED records,
         channel' = IF records[c].st = "ready" /\ records[c].kind = "event"
                    THEN Append(channel, c) ELSE channel
  PROVE  Abstract!PassFirst
  <1>1. End(c) \in Nat /\ c < End(c)
    BY NextStart DEF IInv
  <1>2. End(c) \in 0 .. MaxPos
    BY <1>1, HeadType, MaxPosAssumption DEF Bounded
  <1>3. \A u \in Starts : c < u => End(c) <= u
    BY DEF IInv, Tiling
  <1>4. c \in DOMAIN LogOf /\ DOMAIN LogOf = Starts
    BY DEF LogOf, Starts
  <1>5. LogOf[c].st = records[c].st /\ LogOf[c].kind = records[c].kind
    BY <1>4 DEF LogOf
  <1>6. UNCHANGED LogOf
    BY DEF LogOf
  <1>7. HeadOf <= c
    BY HeadType
  <1> QED
    BY <1>1, <1>2, <1>3, <1>4, <1>5, <1>6, <1>7
    DEF Abstract!PassFirst, Abstract!Tickets, LogOf, HeadOf

(* read_slice passes a discarded record; a slice it returns is passed      *)
(* later.                                                                  *)
LEMMA ReadSlicePasses ==
  ASSUME IInv, Bounded, ReadSlice
  PROVE  Abstract!PassFirst \/ UNCHANGED <<LogOf, HeadOf, channel>>
  <1> DEFINE c == consumer_pos_value
  <1>1. reader = "loaded" /\ ~WouldBlock /\ HeadOf = c
    BY DEF ReadSlice, HeadOf
  <1>2. ReadsIntact /\ CursorsOrdered
    BY InvImplies
  <1>3. c \in Starts /\ Header.len = records[c].len /\ Header.flag = records[c].st
    BY <1>1, <1>2 DEF ReadsIntact, Starts
  <1>4. UNCHANGED <<records, channel>> /\ ~Overflown
    <2>1. UNCHANGED <<records, channel>>
      BY DEF ReadSlice
    <2>2. reader' # "failed"
      BY NextInv DEF Next, IInv, Cursors
    <2> QED BY <2>1, <2>2 DEF ReadSlice
  <1>5. consumer_pos_value' = End(c)
    BY <1>3, <1>4 DEF ReadSlice, End
  <1>6. UNCHANGED LogOf
    BY <1>4 DEF LogOf
  <1>7. CASE Header.flag = "discard"
    <2>1. HeadOf' = End(c)
      BY <1>4, <1>5, <1>7 DEF ReadSlice, HeadOf
    <2>2. End(c) <= producer_pos
      BY <1>3 DEF IInv, Tiling
    <2> QED BY Zenon, <1>1, <1>3, <1>4, <1>7, <2>1, <2>2, Passes
  <1>8. CASE Header.flag # "discard"
    <2>1. HeadOf' = c
      BY <1>4, <1>8 DEF ReadSlice, HeadOf
    <2> QED BY <1>1, <1>4, <1>6, <2>1
  <1> QED BY <1>7, <1>8

(* read_value is done with a slice: its record is passed, and handed on if *)
(* it is an event.                                                         *)
LEMMA ReadFinishPasses ==
  ASSUME IInv, Bounded, ReadFinish
  PROVE  Abstract!PassFirst
  <1>0. PICK c : c = current.pos
    OBVIOUS
  <1>1. /\ c \in Starts /\ consumer_pos_value = End(c) /\ c >= consumer_pos
        /\ records[c].st = "ready" /\ HeadOf = c
    BY <1>0, HeadType DEF ReadFinish, IInv, SliceIsLive, HeadOf, TypeOK
  <1>2. data[Slot(c)].at = c /\ data[Slot(c)].kind = records[c].kind
    <2>1. data[Slot(c)] = [at |-> c, len |-> records[c].len,
                           flag |-> records[c].st, kind |-> records[c].kind]
      BY <1>1, Zenon DEF IInv, LiveIntact
    <2> QED BY <2>1
  <1>3. HeadOf' = End(c) /\ UNCHANGED records
    BY <1>1 DEF ReadFinish, HeadOf
  <1>4. channel' = IF records[c].kind = "event" THEN Append(channel, c) ELSE channel
    BY <1>0, <1>2 DEF ReadFinish
  <1>5. End(c) <= producer_pos
    BY <1>1 DEF IInv, Tiling
  <1> QED BY <1>1, <1>3, <1>4, <1>5, Passes

(* Every step of the ring is a step of the log or changes nothing of it. *)
LEMMA NextImplements == IInv /\ Bounded /\ [Next]_vars => [Abstract!Next]_(Abstract!vars)
  <1> SUFFICES ASSUME IInv, Bounded, [Next]_vars PROVE [Abstract!Next]_(Abstract!vars)
    OBVIOUS
  <1>0. UNCHANGED <<LogOf, HeadOf, channel>> => UNCHANGED Abstract!vars
    BY DEF LogOf, HeadOf, Abstract!vars
  <1>1. CASE ReserveScratch \/ SendData \/ SendHeader
    BY <1>1, ReserveTakes DEF ReserveScratch, SendData, SendHeader, Lens, Kinds, Abstract!Next
  <1>2. CASE CommitAny
    BY <1>2, CommitCompletes DEF CommitAny, Abstract!Next
  <1>3. CASE ReadSlice
    BY <1>0, <1>3, ReadSlicePasses DEF Abstract!Next
  <1>4. CASE ReadFinish
    BY <1>4, ReadFinishPasses DEF Abstract!Next
  <1>5. CASE SendFails \/ LoadProducerPos \/ ReadBlocks \/ WaitEpoll \/ Terminate \/ UNCHANGED vars
    <2>1. UNCHANGED <<LogOf, HeadOf, channel>>
      BY <1>5 DEF SendFails, LoadProducerPos, ReadBlocks, WaitEpoll, Terminate, readerVars, vars,
                  LogOf, HeadOf
    <2> QED BY <1>0, <2>1
  <1> QED BY <1>1, <1>2, <1>3, <1>4, <1>5 DEF Next

(* The empty ring is the empty log. *)
LEMMA InitImplements == Init => Bounded /\ Abstract!Init
  BY MaxPosAssumption DEF Init, Bounded, Abstract!Init

(* Whatever the size of the buffer and the lengths of the records, what    *)
(* the probes and the recorder see of the ring is an ordered log: tickets  *)
(* in the order of reservation, each passed once and in that order, and    *)
(* every submitted event handed on when it is passed.                      *)
THEOREM RingImplementsOrderedLog == Spec => ImplementsOrderedLog
  <1>1. Spec => []Bounded
    BY InitImplements, AlwaysInv, BoundedNext, PTL DEF Spec
  <1> QED
    BY <1>1, InitImplements, AlwaysInv, NextImplements, PTL
    DEF Spec, ImplementsOrderedLog, Abstract!Spec
=============================================================================
