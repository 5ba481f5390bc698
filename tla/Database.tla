------------------------------ MODULE Database ------------------------------
(***************************************************************************)
(* The recorder's store, mina-recorder/src/database/rocksdb.rs over        *)
(* core.rs: ids handed out by counters in memory, records, blobs and       *)
(* indexes put one by one into RocksDB, and the counters' persisted        *)
(* totals, from which the next process starts.  The process may be killed  *)
(* between any two puts; RocksDB keeps every put that returned.            *)
(***************************************************************************)
EXTENDS Integers, Sequences, FiniteSets

CONSTANTS
    Addrs,      \* remote addresses
    MaxCns,     \* bound of the model: connections added
    MaxPayload, \* bound of the model: blobs written
    MaxEpoch    \* bound of the model: times the database is opened

VARIABLES
    connections, msgs, blobs,   \* column families
    addr_index, cn_index,       \* sets of <<key, message id>>
    total,                      \* the persisted counters
    up,                         \* a process has the database open
    epoch,                      \* history: how often it was opened
    cns, messages,              \* AtomicU64 counters of DbFacade
    cache,                      \* DbCore::cache: connection -> next offset
    groups,                     \* DbGroups alive: [cn, addr]
    op,                         \* the write under way
    payload,                    \* history: blobs written, each with a content of its own
    added,                      \* history: connections added
    failed                      \* history: has a put returned an error?

disk == <<connections, msgs, blobs, addr_index, cn_index, total>>
mem == <<up, epoch, cns, messages, cache, groups>>
vars == <<disk, mem, op, payload, added, failed>>

Idle == [pc |-> "idle"]
Put(f, k, v) == [x \in DOMAIN f \cup {k} |-> IF x = k THEN v ELSE f[x]]
Empty == [x \in {} |-> 0]

Init ==
    /\ connections = Empty /\ msgs = Empty /\ blobs = Empty
    /\ addr_index = {} /\ cn_index = {}
    /\ total = [cns |-> 0, messages |-> 0]
    /\ up = FALSE /\ epoch = 0
    /\ cns = 0 /\ messages = 0
    /\ cache = Empty
    /\ groups = {}
    /\ op = Idle
    /\ payload = 0 /\ added = 0 /\ failed = FALSE

-----------------------------------------------------------------------------
(* Mutant of Open: the counters start at zero. *)
OpenFromZero ==
    /\ ~up /\ epoch < MaxEpoch
    /\ up' = TRUE /\ epoch' = epoch + 1
    /\ cns' = 0 /\ messages' = 0
    /\ cache' = Empty
    /\ UNCHANGED <<disk, groups, op, payload, added, failed>>

(* DbFacade::open starts the counters where the totals say. *)
Open ==
    /\ ~up /\ epoch < MaxEpoch
    /\ up' = TRUE /\ epoch' = epoch + 1
    /\ cns' = total.cns /\ messages' = total.messages
    /\ cache' = Empty
    /\ UNCHANGED <<disk, groups, op, payload, added, failed>>

(* The process ends, whatever it was doing. *)
Crash ==
    /\ up
    /\ up' = FALSE
    /\ groups' = {} /\ cache' = Empty /\ cns' = 0 /\ messages' = 0
    /\ op' = Idle
    /\ UNCHANGED <<disk, epoch, payload, added, failed>>

(* A put returns an error and the whole call gives up; the id it took is   *)
(* not given back.                                                         *)
PutFails ==
    /\ op.pc \notin {"idle", "parse"}
    /\ op' = Idle
    /\ messages' = IF op.pc = "put_message" THEN messages + 1 ELSE messages
    /\ failed' = TRUE
    /\ UNCHANGED <<disk, up, epoch, cns, cache, groups, payload, added>>

PutCnFails ==
    /\ up /\ op.pc = "idle" /\ added < MaxCns
    /\ cns' = cns + 1
    /\ added' = added + 1
    /\ failed' = TRUE
    /\ UNCHANGED <<disk, up, epoch, messages, cache, groups, op, payload>>

-----------------------------------------------------------------------------
(* DbFacade::add *)
PutCn ==
    /\ up /\ op.pc = "idle" /\ added < MaxCns
    /\ \E addr \in Addrs :
         /\ cns' = cns + 1
         /\ connections' = Put(connections, cns, [addr |-> addr])
         /\ op' = [pc |-> "cn_total", cn |-> cns, addr |-> addr]
    /\ added' = added + 1
    /\ UNCHANGED <<msgs, blobs, addr_index, cn_index, total, up, epoch, messages, cache, groups, payload, failed>>

(* The total is the id just used. *)
SetCnTotal ==
    /\ op.pc = "cn_total"
    /\ total' = [total EXCEPT !.cns = op.cn]
    /\ groups' = groups \cup {[cn |-> op.cn, addr |-> op.addr]}
    /\ op' = Idle
    /\ UNCHANGED <<connections, msgs, blobs, addr_index, cn_index, up, epoch, cns, messages, cache, payload, added, failed>>

(* on_disconnect drops the group. *)
DropGroup ==
    /\ op.pc = "idle"
    /\ \E g \in groups : groups' = groups \ {g}
    /\ UNCHANGED <<disk, up, epoch, cns, messages, cache, op, payload, added, failed>>

-----------------------------------------------------------------------------
(* DbCore::put_blob: the offset is cached; without one, behind the last     *)
(* blob of the connection.  Lengths count one per blob and one for its      *)
(* header.                                                                  *)
BlobLen == 2
(* Mutant of LastOffset: a new process starts at offset 0. *)
LastOffsetZero(cn) == 0

LastOffset(cn) ==
    LET used == {k[2] : k \in {b \in DOMAIN blobs : b[1] = cn}}
    IN  IF used = {} THEN 0 ELSE 1 + CHOOSE o \in used : \A p \in used : p <= o
Position(cn) == IF cn \in DOMAIN cache THEN cache[cn] ELSE 0
Offset(cn) == IF Position(cn) = 0 THEN LastOffset(cn) ELSE Position(cn)

(* DbGroup::add_raw, by itself (encrypted data) or as the first part of     *)
(* DbStream::add.                                                           *)
AddRaw ==
    /\ up /\ op.pc = "idle" /\ payload < MaxPayload
    /\ \E g \in groups, next \in {"idle", "parse"} :
         LET offset == Offset(g.cn)
         IN  /\ cache' = Put(cache, g.cn, offset + BlobLen)
             /\ blobs' = Put(blobs, <<g.cn, offset>>, payload)
             /\ op' = IF next = "idle" THEN Idle
                      ELSE [pc |-> "parse", g |-> g, offset |-> offset, content |-> payload]
    /\ payload' = payload + 1
    /\ UNCHANGED <<connections, msgs, addr_index, cn_index, total, up, epoch, cns, messages, groups, added, failed>>

AddRawFails ==
    /\ up /\ op.pc = "idle" /\ payload < MaxPayload
    /\ \E g \in groups : cache' = Put(cache, g.cn, Offset(g.cn) + BlobLen)
    /\ payload' = payload + 1
    /\ failed' = TRUE
    /\ UNCHANGED <<disk, up, epoch, cns, messages, groups, op, added>>

(* parse_types: on an error there is no message. *)
ParseTypes ==
    /\ op.pc = "parse"
    /\ \/ op' = Idle
       \/ op' = [op EXCEPT !.pc = "put_message"]
    /\ UNCHANGED <<disk, mem, payload, added, failed>>

(* Mutant of PutMessage: an index is put before the record. *)
PutMessageIndexFirst ==
    /\ op.pc = "put_message"
    /\ messages' = messages + 1
    /\ addr_index' = addr_index \cup {<<op.g.addr, messages>>}
    /\ op' = [pc |-> "cn_index", g |-> op.g, id |-> messages]
    /\ UNCHANGED <<connections, msgs, blobs, cn_index, total, up, epoch, cns, cache, groups, payload, added, failed>>

(* The id, and the first put of put_message. *)
PutMessage ==
    /\ op.pc = "put_message"
    /\ messages' = messages + 1
    /\ msgs' = Put(msgs, messages, [cn |-> op.g.cn, offset |-> op.offset, content |-> op.content])
    /\ op' = [pc |-> "addr_index", g |-> op.g, id |-> messages]
    /\ UNCHANGED <<connections, blobs, addr_index, cn_index, total, up, epoch, cns, cache, groups, payload, added, failed>>

PutAddrIndex ==
    /\ op.pc = "addr_index"
    /\ addr_index' = addr_index \cup {<<op.g.addr, op.id>>}
    /\ op' = [op EXCEPT !.pc = "cn_index"]
    /\ UNCHANGED <<connections, msgs, blobs, cn_index, total, mem, payload, added, failed>>

(* The connection's index stands for those of streams, kinds and hashes    *)
(* too, which follow it in the same way.                                   *)
PutCnIndex ==
    /\ op.pc = "cn_index"
    /\ cn_index' = cn_index \cup {<<op.g.cn, op.id>>}
    /\ op' = [op EXCEPT !.pc = "msg_total"]
    /\ UNCHANGED <<connections, msgs, blobs, addr_index, total, mem, payload, added, failed>>

SetMsgTotal ==
    /\ op.pc = "msg_total"
    /\ total' = [total EXCEPT !.messages = op.id]
    /\ op' = Idle
    /\ UNCHANGED <<connections, msgs, blobs, addr_index, cn_index, mem, payload, added, failed>>

Next ==
    \/ Open \/ Crash \/ PutFails \/ PutCnFails \/ AddRawFails
    \/ PutCn \/ SetCnTotal \/ DropGroup
    \/ AddRaw \/ ParseTypes \/ PutMessage \/ PutAddrIndex \/ PutCnIndex \/ SetMsgTotal

Spec == Init /\ [][Next]_vars

-----------------------------------------------------------------------------
(* Properties *)

(* A reader that follows any index finds the message, and from there the   *)
(* connection, at every moment and after every crash: put_message puts the *)
(* record before its indexes, add puts the connection before any message.  *)
ReferencesResolve ==
    /\ \A e \in addr_index \cup cn_index : e[2] \in DOMAIN msgs
    /\ \A id \in DOMAIN msgs : msgs[id].cn \in DOMAIN connections

(* fetch_blob of a message gives the bytes recorded with it, although ids   *)
(* of connections come again after a restart.                               *)
MessageHasItsBlob ==
    \A id \in DOMAIN msgs :
        LET k == <<msgs[id].cn, msgs[id].offset>>
        IN  k \in DOMAIN blobs /\ blobs[k] = msgs[id].content

(* A restart makes the ids from the persisted total on come again: put     *)
(* writes over the last message recorded, or the last two when the process *)
(* was killed before the total was set, and over no earlier one.           *)
OnlyLastLost ==
    [][\A id \in DOMAIN msgs :
         msgs'[id] # msgs[id] =>
            /\ id >= total.messages
            /\ ~failed => id + 2 >= Cardinality(DOMAIN msgs)]_vars

(* README.md:288: clicking on a remote address "will take you back to the  *)
(* Messages tab and filter out all messages from that peer".               *)
AddrFilterIsExact ==
    op.pc = "idle" =>
        \A id \in DOMAIN msgs, addr \in Addrs :
            <<addr, id>> \in addr_index => connections[msgs[id].cn].addr = addr
=============================================================================
