--------------------------- MODULE DatabaseProofs ---------------------------
(***************************************************************************)
(* The store for any number of connections, blobs, messages and restarts,  *)
(* killed between any two puts and with any puts failing: references       *)
(* resolve, a message keeps its blob, and ids that come again overwrite    *)
(* nothing but the last messages.                                          *)
(***************************************************************************)
EXTENDS Database, FiniteSetTheorems, TLAPS

Groups == [cn : Nat, addr : Addrs]
Keys == Nat \X Nat

OpType ==
    \/ op = Idle
    \/ op \in [pc : {"cn_total"}, cn : Nat, addr : Addrs]
    \/ op \in [pc : {"parse", "put_message"}, g : Groups, offset : Nat, content : Nat]
    \/ op \in [pc : {"addr_index", "cn_index", "msg_total"}, g : Groups, id : Nat]

DatabaseType ==
    /\ DOMAIN connections \subseteq Nat
    /\ DOMAIN msgs \subseteq Nat
    /\ \A id \in DOMAIN msgs : msgs[id] \in [cn : Nat, offset : Nat, content : Nat]
    /\ DOMAIN blobs \subseteq Keys
    /\ addr_index \subseteq Addrs \X Nat
    /\ cn_index \subseteq Nat \X Nat
    /\ total \in [cns : Nat, messages : Nat]
    /\ up \in BOOLEAN
    /\ failed \in BOOLEAN
    /\ cns \in Nat /\ messages \in Nat
    /\ DOMAIN cache \subseteq Nat
    /\ \A cn \in DOMAIN cache : cache[cn] \in Nat \ {0}
    /\ groups \subseteq Groups
    /\ payload \in Nat
    /\ OpType

(* A process that is down has nothing in memory. *)
Down == ~up => groups = {} /\ op = Idle /\ cache = Empty

(* The connections a group, or the call under way, writes for. *)
GroupsResolve ==
    /\ \A g \in groups : g.cn \in DOMAIN connections
    /\ op.pc = "cn_total" => op.cn \in DOMAIN connections
    /\ op.pc \in {"parse", "put_message"} => op.g.cn \in DOMAIN connections

(* The blob of the message that is going to be put. *)
BlobWaits ==
    op.pc \in {"parse", "put_message"} =>
        /\ <<op.g.cn, op.offset>> \in DOMAIN blobs
        /\ blobs[<<op.g.cn, op.offset>>] = op.content

(* The message whose indexes are going to be put. *)
MessageWaits ==
    op.pc \in {"addr_index", "cn_index", "msg_total"} => op.id \in DOMAIN msgs

(* Every connection with blobs has a last one, and a cached offset is      *)
(* behind it.                                                              *)
Last(cn, o) ==
    /\ <<cn, o>> \in DOMAIN blobs
    /\ \A k \in DOMAIN blobs : k[1] = cn => k[2] <= o
LastExists == \A k \in DOMAIN blobs : \E o \in Nat : Last(k[1], o)
CacheIsBehind == \A k \in DOMAIN blobs : k[1] \in DOMAIN cache => k[2] < cache[k[1]]

(* The counter of messages and the persisted total. *)
Counting ==
    /\ up => total.messages <= messages
    /\ op.pc \in {"addr_index", "cn_index", "msg_total"} =>
         total.messages <= op.id /\ messages = op.id + 1
    /\ ~failed =>
         /\ \A id \in DOMAIN msgs : id <= total.messages + 1
         /\ op.pc \in {"addr_index", "cn_index", "msg_total"} => op.id <= total.messages + 1
         /\ op.pc \notin {"addr_index", "cn_index", "msg_total"} => messages <= total.messages + 1

IInv ==
    /\ DatabaseType /\ Down /\ GroupsResolve /\ BlobWaits /\ MessageWaits
    /\ LastExists /\ CacheIsBehind /\ Counting
    /\ ReferencesResolve /\ MessageHasItsBlob

(* The offset put_blob takes, cached or not, is behind all blobs of the    *)
(* connection.                                                             *)
LEMMA OffsetIsFresh ==
  ASSUME IInv, NEW cn \in Nat
  PROVE  /\ Offset(cn) \in Nat
         /\ \A k \in DOMAIN blobs : k[1] = cn => k[2] < Offset(cn)
  <1> DEFINE used == {k[2] : k \in {b \in DOMAIN blobs : b[1] = cn}}
  <1>1. CASE cn \in DOMAIN cache
    <2>1. Offset(cn) = cache[cn] /\ cache[cn] \in Nat
      BY <1>1 DEF Offset, Position, IInv, DatabaseType
    <2> QED BY <1>1, <2>1 DEF IInv, CacheIsBehind
  <1>2. CASE cn \notin DOMAIN cache
    <2>1. Offset(cn) = LastOffset(cn)
      BY <1>2 DEF Offset, Position
    <2>2. CASE used = {}
      <3>1. \A k \in DOMAIN blobs : k[1] # cn
        BY <2>2
      <3> QED BY <2>1, <2>2, <3>1 DEF LastOffset
    <2>3. CASE used # {}
      <3>1. used \subseteq Nat
        BY DEF IInv, DatabaseType, Keys
      <3>2. \E o \in used : \A p \in used : p <= o
        <4>1. PICK k \in DOMAIN blobs : k[1] = cn
          BY <2>3
        <4>2. PICK o \in Nat : Last(cn, o)
          BY <4>1 DEF IInv, LastExists
        <4>3. o \in used /\ \A p \in used : p <= o
          BY <4>2 DEF Last
        <4> QED BY <4>3
      <3> DEFINE last == CHOOSE o \in used : \A p \in used : p <= o
      <3>3. last \in used /\ \A p \in used : p <= last
        BY <3>2
      <3>4. LastOffset(cn) = 1 + last
        BY <2>3 DEF LastOffset
      <3>5. \A k \in DOMAIN blobs : k[1] = cn => k[2] \in used
        OBVIOUS
      <3> HIDE DEF last, used
      <3>6. last \in Nat /\ Offset(cn) = 1 + last
        BY <2>1, <3>1, <3>3, <3>4
      <3>7. \A k \in DOMAIN blobs : k[1] = cn => k[2] \in Nat /\ k[2] <= last
        BY Zenon, <3>1, <3>3, <3>5
      <3> QED BY <3>6, <3>7
    <2> QED BY <2>2, <2>3
  <1> QED BY <1>1, <1>2

-----------------------------------------------------------------------------
(* The steps. *)

(* Opening reads the counters from the disk.                               *)
LEMMA OpenInv == IInv /\ Open => IInv'
  <1> SUFFICES ASSUME IInv, Open PROVE IInv'
    OBVIOUS
  <1> USE DEF IInv, Open, Idle, Empty, disk
  <1>1. DatabaseType' /\ Down' /\ GroupsResolve' /\ BlobWaits' /\ MessageWaits'
    BY DEF DatabaseType, OpType, Down, GroupsResolve, BlobWaits, MessageWaits
  <1>2. LastExists' /\ CacheIsBehind' /\ ReferencesResolve' /\ MessageHasItsBlob'
    BY DEF LastExists, Last, CacheIsBehind, ReferencesResolve, MessageHasItsBlob
  <1>3. Counting'
    BY DEF DatabaseType, Down, Counting
  <1> QED BY <1>1, <1>2, <1>3

(* A crash forgets the counters and keeps what is stored.                  *)
LEMMA CrashInv == IInv /\ Crash => IInv'
  <1> SUFFICES ASSUME IInv, Crash PROVE IInv'
    OBVIOUS
  <1> USE DEF IInv, Crash, Idle, Empty, disk
  <1>1. DatabaseType' /\ Down' /\ GroupsResolve' /\ BlobWaits' /\ MessageWaits'
    BY Zenon DEF DatabaseType, OpType, Down, GroupsResolve, BlobWaits, MessageWaits
  <1>2. LastExists' /\ CacheIsBehind' /\ ReferencesResolve' /\ MessageHasItsBlob'
    BY DEF LastExists, Last, CacheIsBehind, ReferencesResolve, MessageHasItsBlob
  <1>3. Counting'
    BY DEF DatabaseType, Counting
  <1> QED BY <1>1, <1>2, <1>3

(* Puts that fail leave the disk as it was. *)
LEMMA FailsInv == IInv /\ (PutFails \/ PutCnFails) => IInv'
  <1> SUFFICES ASSUME IInv, PutFails \/ PutCnFails PROVE IInv'
    OBVIOUS
  <1> USE DEF IInv, PutFails, PutCnFails, Idle, Empty, disk
  <1>1. DatabaseType' /\ Down'
    <2>1. messages' \in Nat /\ cns' \in Nat /\ OpType'
      BY DEF DatabaseType, OpType
    <2> QED BY Zenon, <2>1 DEF DatabaseType, Down
  <1>2. GroupsResolve' /\ BlobWaits' /\ MessageWaits'
    BY DEF GroupsResolve, BlobWaits, MessageWaits
  <1>3. LastExists' /\ CacheIsBehind' /\ ReferencesResolve' /\ MessageHasItsBlob'
    BY DEF LastExists, Last, CacheIsBehind, ReferencesResolve, MessageHasItsBlob
  <1>4. Counting'
    BY DEF DatabaseType, OpType, Counting
  <1> QED BY <1>1, <1>2, <1>3, <1>4

(* A failed put of a blob stores nothing, but moves the cached offset on.  *)
LEMMA AddRawFailsInv == IInv /\ AddRawFails => IInv'
  <1> SUFFICES ASSUME IInv, AddRawFails PROVE IInv'
    OBVIOUS
  <1> USE DEF Idle, Empty, disk
  <1>1. PICK g \in groups : cache' = Put(cache, g.cn, Offset(g.cn) + BlobLen)
    BY DEF AddRawFails
  <1>2. g.cn \in Nat
    BY DEF IInv, DatabaseType, Groups
  <1>3. /\ Offset(g.cn) \in Nat
        /\ \A k \in DOMAIN blobs : k[1] = g.cn => k[2] < Offset(g.cn)
    BY <1>2, OffsetIsFresh
  <1>4. UNCHANGED <<disk, up, epoch, cns, messages, groups, op>> /\ payload' = payload + 1 /\ failed'
        /\ up
    BY DEF AddRawFails
  <1>5. DOMAIN cache' \subseteq Nat /\ \A cn \in DOMAIN cache' : cache'[cn] \in Nat \ {0}
    BY <1>1, <1>2, <1>3 DEF Put, IInv, DatabaseType, BlobLen
  <1>6. DatabaseType' /\ Down'
    BY <1>4, <1>5 DEF IInv, DatabaseType, OpType, Down
  <1>7. CacheIsBehind'
    BY <1>1, <1>3, <1>4 DEF Put, IInv, DatabaseType, Keys, CacheIsBehind, BlobLen
  <1>8. GroupsResolve' /\ BlobWaits' /\ MessageWaits' /\ Counting'
    BY <1>4 DEF IInv, GroupsResolve, BlobWaits, MessageWaits, Counting
  <1>9. LastExists' /\ ReferencesResolve' /\ MessageHasItsBlob'
    BY <1>4 DEF IInv, LastExists, Last, ReferencesResolve, MessageHasItsBlob
  <1> QED BY <1>6, <1>7, <1>8, <1>9 DEF IInv

(* The record of a connection is put before anything refers to it. *)
LEMMA PutCnInv == IInv /\ PutCn => IInv'
  <1> SUFFICES ASSUME IInv, PutCn PROVE IInv'
    OBVIOUS
  <1>1. PICK addr \in Addrs :
          /\ connections' = Put(connections, cns, [addr |-> addr])
          /\ op' = [pc |-> "cn_total", cn |-> cns, addr |-> addr]
    BY DEF PutCn
  <1>2. /\ up /\ op.pc = "idle" /\ cns' = cns + 1 /\ cns \in Nat
        /\ UNCHANGED <<msgs, blobs, addr_index, cn_index, total, up, messages, cache, groups, payload, failed>>
    BY DEF PutCn, IInv, DatabaseType
  <1>3. DOMAIN connections' = DOMAIN connections \cup {cns}
    BY <1>1 DEF Put
  <1>4. DatabaseType' /\ Down'
    BY <1>1, <1>2, <1>3 DEF IInv, DatabaseType, OpType, Down
  <1>5. GroupsResolve' /\ BlobWaits' /\ MessageWaits' /\ ReferencesResolve'
    BY <1>1, <1>2, <1>3 DEF IInv, GroupsResolve, BlobWaits, MessageWaits, ReferencesResolve
  <1>6. LastExists' /\ CacheIsBehind' /\ MessageHasItsBlob'
    BY <1>2 DEF IInv, LastExists, Last, CacheIsBehind, MessageHasItsBlob
  <1>7. Counting'
    BY <1>1, <1>2 DEF IInv, Counting
  <1> QED BY <1>4, <1>5, <1>6, <1>7 DEF IInv

(* The stored number of connections catches up, and the group begins.      *)
LEMMA SetCnTotalInv == IInv /\ SetCnTotal => IInv'
  <1> SUFFICES ASSUME IInv, SetCnTotal PROVE IInv'
    OBVIOUS
  <1> USE DEF IInv, SetCnTotal, Idle
  <1>1. DatabaseType' /\ Down'
    BY DEF DatabaseType, OpType, Groups, Down
  <1>2. GroupsResolve' /\ BlobWaits' /\ MessageWaits' /\ ReferencesResolve'
    BY DEF GroupsResolve, BlobWaits, MessageWaits, ReferencesResolve
  <1>3. LastExists' /\ CacheIsBehind' /\ MessageHasItsBlob'
    BY DEF LastExists, Last, CacheIsBehind, MessageHasItsBlob
  <1>4. Counting'
    BY DEF DatabaseType, Counting
  <1> QED BY <1>1, <1>2, <1>3, <1>4

(* The group of a closed connection is dropped.                            *)
LEMMA DropGroupInv == IInv /\ DropGroup => IInv'
  <1> SUFFICES ASSUME IInv, DropGroup PROVE IInv'
    OBVIOUS
  <1> USE DEF IInv, DropGroup, disk
  <1>1. DatabaseType' /\ Down'
    BY DEF DatabaseType, OpType, Down
  <1>2. GroupsResolve' /\ BlobWaits' /\ MessageWaits' /\ ReferencesResolve'
    BY DEF GroupsResolve, BlobWaits, MessageWaits, ReferencesResolve
  <1>3. LastExists' /\ CacheIsBehind' /\ MessageHasItsBlob' /\ Counting'
    BY DEF LastExists, Last, CacheIsBehind, MessageHasItsBlob, Counting
  <1> QED BY <1>1, <1>2, <1>3

(* The new blob has a key of its own, also when the connection's id was    *)
(* given away before.                                                      *)
LEMMA AddRawInv == IInv /\ AddRaw => IInv'
  <1> SUFFICES ASSUME IInv, AddRaw PROVE IInv'
    OBVIOUS
  <1>1. PICK g \in groups, next \in {"idle", "parse"} :
          /\ cache' = Put(cache, g.cn, Offset(g.cn) + BlobLen)
          /\ blobs' = Put(blobs, <<g.cn, Offset(g.cn)>>, payload)
          /\ op' = IF next = "idle" THEN Idle
                   ELSE [pc |-> "parse", g |-> g, offset |-> Offset(g.cn), content |-> payload]
    BY Zenon DEF AddRaw
  <1>2. g \in Groups /\ g.cn \in Nat /\ g.cn \in DOMAIN connections /\ payload \in Nat
    BY DEF IInv, DatabaseType, Groups, GroupsResolve
  <1>3. PICK o \in Nat : o = Offset(g.cn)
    BY <1>2, OffsetIsFresh
  <1>4. \A k \in DOMAIN blobs : k[1] = g.cn => k[2] < o
    BY <1>2, <1>3, OffsetIsFresh
  <1>5. /\ up /\ op.pc = "idle" /\ payload' = payload + 1
        /\ UNCHANGED <<connections, msgs, addr_index, cn_index, total, up, cns, messages, groups, failed>>
    BY DEF AddRaw
  <1>6. /\ <<g.cn, o>> \notin DOMAIN blobs
        /\ DOMAIN blobs' = DOMAIN blobs \cup {<<g.cn, o>>}
        /\ blobs'[<<g.cn, o>>] = payload
        /\ \A k \in DOMAIN blobs : blobs'[k] = blobs[k]
    BY <1>1, <1>3, <1>4 DEF Put
  <1>7. /\ DOMAIN cache' = DOMAIN cache \cup {g.cn}
        /\ cache'[g.cn] = o + 2
        /\ \A cn \in DOMAIN cache : cn # g.cn => cache'[cn] = cache[cn]
    BY <1>1, <1>3 DEF Put, BlobLen
  <1>8. op' = Idle \/ op' = [pc |-> "parse", g |-> g, offset |-> o, content |-> payload]
    BY <1>1, <1>3
  <1>9. DatabaseType'
    <2>1. OpType'
      BY <1>2, <1>3, <1>8 DEF OpType
    <2>2. DOMAIN blobs' \subseteq Keys
      BY <1>2, <1>3, <1>6 DEF IInv, DatabaseType, Keys
    <2>3. DOMAIN cache' \subseteq Nat /\ \A cn \in DOMAIN cache' : cache'[cn] \in Nat \ {0}
      BY <1>2, <1>3, <1>7 DEF IInv, DatabaseType
    <2> QED BY <1>2, <1>5, <2>1, <2>2, <2>3 DEF IInv, DatabaseType
  <1>10. Down' /\ GroupsResolve' /\ MessageWaits'
    BY <1>2, <1>5, <1>8 DEF IInv, Down, GroupsResolve, MessageWaits, Idle
  <1>11. BlobWaits'
    BY <1>6, <1>8 DEF BlobWaits, Idle
  <1>12. LastExists'
    <2> SUFFICES ASSUME NEW k \in DOMAIN blobs' PROVE \E p \in Nat : Last(k[1], p)'
      BY DEF LastExists
    <2>1. CASE k[1] = g.cn
      <3>1. Last(g.cn, o)'
        BY <1>3, <1>4, <1>6 DEF Last, IInv, DatabaseType, Keys
      <3> QED BY <1>3, <2>1, <3>1
    <2>2. CASE k[1] # g.cn
      <3>1. k \in DOMAIN blobs
        BY <1>6, <2>2
      <3>2. PICK p \in Nat : Last(k[1], p)
        BY <3>1 DEF IInv, LastExists
      <3>3. Last(k[1], p)'
        BY <1>6, <2>2, <3>2 DEF Last
      <3> QED BY <3>3
    <2> QED BY <2>1, <2>2
  <1>13. CacheIsBehind'
    BY <1>3, <1>4, <1>6, <1>7 DEF IInv, DatabaseType, Keys, CacheIsBehind
  <1>14. Counting'
    BY SMTT(30), <1>5, <1>8 DEF IInv, Counting, Idle
  <1>15. ReferencesResolve' /\ MessageHasItsBlob'
    BY <1>5, <1>6 DEF IInv, ReferencesResolve, MessageHasItsBlob
  <1> QED BY <1>9, <1>10, <1>11, <1>12, <1>13, <1>14, <1>15 DEF IInv

(* A blob becomes a message, or has none.                                  *)
LEMMA ParseTypesInv == IInv /\ ParseTypes => IInv'
  <1> SUFFICES ASSUME IInv, ParseTypes PROVE IInv'
    OBVIOUS
  <1> USE DEF IInv, ParseTypes, Idle, disk, mem
  <1>1. DatabaseType' /\ Down'
    BY DEF DatabaseType, OpType, Down
  <1>2. GroupsResolve' /\ BlobWaits' /\ MessageWaits' /\ ReferencesResolve'
    BY DEF DatabaseType, OpType, GroupsResolve, BlobWaits, MessageWaits, ReferencesResolve
  <1>3. LastExists' /\ CacheIsBehind' /\ MessageHasItsBlob'
    BY DEF LastExists, Last, CacheIsBehind, MessageHasItsBlob
  <1>4. Counting'
    BY DEF DatabaseType, OpType, Counting
  <1> QED BY <1>1, <1>2, <1>3, <1>4

(* The record of a message is put before its indexes, and points to the    *)
(* blob that was put before it.                                            *)
LEMMA PutMessageInv == IInv /\ PutMessage => IInv'
  <1> SUFFICES ASSUME IInv, PutMessage PROVE IInv'
    OBVIOUS
  <1> DEFINE row == [cn |-> op.g.cn, offset |-> op.offset, content |-> op.content]
  <1>1. /\ op.pc = "put_message"
        /\ op.g \in Groups /\ op.g.cn \in Nat /\ op.offset \in Nat /\ op.content \in Nat
        /\ up /\ messages \in Nat /\ total.messages \in Nat
    BY DEF PutMessage, IInv, DatabaseType, OpType, Idle, Groups, Down
  <1>2. /\ DOMAIN msgs' = DOMAIN msgs \cup {messages}
        /\ msgs'[messages] = row
        /\ \A id \in DOMAIN msgs : id # messages => msgs'[id] = msgs[id]
    BY DEF Put, PutMessage
  <1>3. /\ op' = [pc |-> "addr_index", g |-> op.g, id |-> messages]
        /\ messages' = messages + 1
        /\ UNCHANGED <<connections, blobs, addr_index, cn_index, total, up, cns, cache, groups, payload, failed>>
    BY DEF PutMessage
  <1>4. DatabaseType'
    <2>1. OpType'
      BY <1>1, <1>3 DEF OpType
    <2>2. DOMAIN msgs' \subseteq Nat /\ \A id \in DOMAIN msgs' : msgs'[id] \in [cn : Nat, offset : Nat, content : Nat]
      BY <1>1, <1>2 DEF IInv, DatabaseType
    <2> QED BY <1>1, <1>3, <2>1, <2>2 DEF IInv, DatabaseType
  <1>5. Down' /\ GroupsResolve' /\ BlobWaits' /\ MessageWaits'
    BY SMTT(30), <1>1, <1>2, <1>3 DEF IInv, Down, GroupsResolve, BlobWaits, MessageWaits
  <1>6. LastExists' /\ CacheIsBehind'
    BY <1>3 DEF IInv, LastExists, Last, CacheIsBehind
  <1>7. Counting'
    BY <1>1, <1>2, <1>3 DEF IInv, Counting
  <1>8. ReferencesResolve'
    BY <1>1, <1>2, <1>3 DEF IInv, ReferencesResolve, GroupsResolve
  <1>9. MessageHasItsBlob'
    BY <1>1, <1>2, <1>3 DEF IInv, MessageHasItsBlob, BlobWaits
  <1> QED BY <1>4, <1>5, <1>6, <1>7, <1>8, <1>9 DEF IInv

(* The indexes name a message that is there. *)
LEMMA PutIndexInv == IInv /\ (PutAddrIndex \/ PutCnIndex) => IInv'
  <1> SUFFICES ASSUME IInv, PutAddrIndex \/ PutCnIndex PROVE IInv'
    OBVIOUS
  <1>1. PICK pc \in {"cn_index", "msg_total"} : op' = [op EXCEPT !.pc = pc]
    BY DEF PutAddrIndex, PutCnIndex
  <1>2. /\ op \in [pc : {"addr_index", "cn_index"}, g : Groups, id : Nat]
        /\ op.id \in DOMAIN msgs /\ op.g \in Groups /\ op.g.cn \in Nat /\ op.g.addr \in Addrs
    BY DEF PutAddrIndex, PutCnIndex, IInv, DatabaseType, OpType, Idle, MessageWaits, Groups
  <1>3. op' = [pc |-> pc, g |-> op.g, id |-> op.id]
    BY <1>1, <1>2
  <1>4. /\ addr_index' \subseteq addr_index \cup {<<op.g.addr, op.id>>}
        /\ cn_index' \subseteq cn_index \cup {<<op.g.cn, op.id>>}
        /\ UNCHANGED <<connections, msgs, blobs, total, up, cns, messages, cache, groups, payload, failed>>
    BY DEF PutAddrIndex, PutCnIndex, mem
  <1>5. DatabaseType' /\ Down'
    <2>1. OpType'
      BY <1>2, <1>3 DEF OpType
    <2>2. up
      BY <1>2 DEF IInv, Down, Idle
    <2> QED BY <1>2, <1>4, <2>1, <2>2 DEF IInv, DatabaseType, Down
  <1>6. GroupsResolve' /\ BlobWaits' /\ MessageWaits'
    BY <1>2, <1>3, <1>4 DEF IInv, GroupsResolve, BlobWaits, MessageWaits
  <1>7. LastExists' /\ CacheIsBehind' /\ MessageHasItsBlob'
    BY <1>4 DEF IInv, LastExists, Last, CacheIsBehind, MessageHasItsBlob
  <1>8. Counting'
    BY SMTT(30), <1>2, <1>3, <1>4 DEF IInv, Counting
  <1>9. ReferencesResolve'
    BY <1>2, <1>4 DEF IInv, ReferencesResolve
  <1> QED BY <1>5, <1>6, <1>7, <1>8, <1>9 DEF IInv

(* The stored number of messages catches up.                               *)
LEMMA SetMsgTotalInv == IInv /\ SetMsgTotal => IInv'
  <1> SUFFICES ASSUME IInv, SetMsgTotal PROVE IInv'
    OBVIOUS
  <1> USE DEF IInv, SetMsgTotal, Idle, mem
  <1>1. DatabaseType' /\ Down'
    BY DEF DatabaseType, OpType, Down
  <1>2. GroupsResolve' /\ BlobWaits' /\ MessageWaits' /\ ReferencesResolve'
    BY DEF GroupsResolve, BlobWaits, MessageWaits, ReferencesResolve
  <1>3. LastExists' /\ CacheIsBehind' /\ MessageHasItsBlob'
    BY DEF LastExists, Last, CacheIsBehind, MessageHasItsBlob
  <1>4. Counting'
    BY DEF DatabaseType, OpType, Counting
  <1> QED BY <1>1, <1>2, <1>3, <1>4

-----------------------------------------------------------------------------
(* The results. *)

(* The database starts empty and closed.                                   *)
LEMMA InitInv == Init => IInv
  <1> SUFFICES ASSUME Init PROVE IInv
    OBVIOUS
  <1> USE DEF Init, Idle, Empty
  <1>1. DatabaseType
    BY Zenon DEF DatabaseType, OpType
  <1>2. Down /\ GroupsResolve /\ BlobWaits /\ MessageWaits /\ Counting
    BY DEF Down, GroupsResolve, BlobWaits, MessageWaits, Counting
  <1>3. LastExists /\ CacheIsBehind /\ ReferencesResolve /\ MessageHasItsBlob
    BY DEF LastExists, CacheIsBehind, ReferencesResolve, MessageHasItsBlob
  <1> QED BY <1>1, <1>2, <1>3 DEF IInv

(* Every step keeps the inductive invariant.                               *)
LEMMA NextInv == IInv /\ [Next]_vars => IInv'
  <1> SUFFICES ASSUME IInv, [Next]_vars PROVE IInv'
    OBVIOUS
  <1>1. CASE UNCHANGED vars
    BY <1>1 DEF vars, disk, mem, IInv, DatabaseType, OpType, Down, GroupsResolve, BlobWaits,
               MessageWaits, LastExists, Last, CacheIsBehind, Counting, ReferencesResolve,
               MessageHasItsBlob
  <1> QED
    BY <1>1, OpenInv, CrashInv, FailsInv, AddRawFailsInv, PutCnInv, SetCnTotalInv, DropGroupInv,
       AddRawInv, ParseTypesInv, PutMessageInv, PutIndexInv, SetMsgTotalInv
    DEF Next

(* The inductive invariant always holds.                                   *)
LEMMA AlwaysInv == Spec => []IInv
  BY InitInv, NextInv, PTL DEF Spec

(* Whatever is killed or fails, and however often ids are given away again *)
(* after a restart, indexes name messages that are there and messages name *)
(* connections that are there: put_message and add put records first.      *)
THEOREM DatabaseReferencesResolve == Spec => []ReferencesResolve
  BY AlwaysInv, PTL DEF IInv

(* A message's blob is the one recorded with it, for ever: put_blob never  *)
(* takes an offset twice, although it forgets its offsets at a restart and *)
(* the id of a connection may come again.                                  *)
THEOREM DatabaseMessageHasItsBlob == Spec => []MessageHasItsBlob
  BY AlwaysInv, PTL DEF IInv

(* What a put of put_message may overwrite. *)
LEMMA OverwritesLast ==
  ASSUME IInv, [Next]_vars, NEW id \in DOMAIN msgs, msgs'[id] # msgs[id]
  PROVE  /\ id >= total.messages
         /\ ~failed => id + 2 >= Cardinality(DOMAIN msgs)
  <1>1. PutMessage
    BY SMTT(30) DEF Next, vars, disk, mem, Open, Crash, PutFails, PutCnFails, AddRawFails, PutCn, SetCnTotal,
           DropGroup, AddRaw, ParseTypes, PutAddrIndex, PutCnIndex, SetMsgTotal
  <1>2. id = messages
    BY Zenon, <1>1 DEF Put, PutMessage
  <1>3. up /\ total.messages <= messages /\ messages \in Nat /\ total.messages \in Nat
    BY <1>1 DEF PutMessage, IInv, Down, Idle, Counting, DatabaseType
  <1>4. ASSUME ~failed PROVE id + 2 >= Cardinality(DOMAIN msgs)
    <2>1. /\ DOMAIN msgs \in SUBSET Nat /\ total.messages + 1 \in Nat
          /\ \A i \in DOMAIN msgs : i <= total.messages + 1
      BY <1>3, <1>4 DEF IInv, DatabaseType, Counting
    <2>2. IsFiniteSet(DOMAIN msgs) /\ Cardinality(DOMAIN msgs) <= (total.messages + 1) + 1
      BY <2>1, FS_BoundedSetOfNaturals
    <2>3. Cardinality(DOMAIN msgs) \in Nat
      BY <2>2, FS_CardinalityType
    <2> QED BY <1>2, <1>3, <2>2, <2>3
  <1> QED BY <1>2, <1>3, <1>4

(* However often the process is killed and started again, only messages at *)
(* or above the persisted total are overwritten, and while no put fails    *)
(* only the last two.                                                      *)
THEOREM DatabaseOnlyLastLost == Spec => OnlyLastLost
  <1>1. IInv /\ [Next]_vars =>
          [\A id \in DOMAIN msgs :
             msgs'[id] # msgs[id] =>
                /\ id >= total.messages
                /\ ~failed => id + 2 >= Cardinality(DOMAIN msgs)]_vars
    BY OverwritesLast
  <1> QED BY <1>1, AlwaysInv, PTL DEF Spec, OnlyLastLost
=============================================================================
