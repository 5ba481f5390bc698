----------------------------- MODULE RingBuffer -----------------------------
(***************************************************************************)
(* The queue between the eBPF programs and the recorder: a BPF ring buffer *)
(* read by bpf-ring-buffer/src/lib.rs, filled by the probes through        *)
(* bpf-recorder/src/send.rs and the scratch reservations of main.rs.       *)
(*                                                                         *)
(* Positions and lengths count 8-byte words, the unit the code aligns      *)
(* everything to.  A length includes the record's header word.  The        *)
(* kernel's half (reserve, submit, discard, poll) is not in the            *)
(* repository: it is modelled from how the probes and the reader use it.   *)
(***************************************************************************)
EXTENDS Integers, Sequences, FiniteSets

CONSTANTS
    Size,          \* words in the buffer, the code's mask + 1
    HeaderLen,     \* length of an event without payload
    DataLens,      \* lengths of events with a payload
    ScratchLens,   \* lengths of reservations that are always discarded
    MaxPos         \* bound of the model: no reservation ends beyond it

ASSUME SizeAssumption == Size \in Nat \ {0}
ASSUME LensAssumption ==
    /\ HeaderLen \in Nat \ {0}
    /\ DataLens \subseteq Nat \ {0}
    /\ ScratchLens \subseteq Nat \ {0}
ASSUME MaxPosAssumption == MaxPos \in Nat

VARIABLES
    producer_pos,        \* producer's page: end of the last reservation
    consumer_pos,        \* consumer's page: what the kernel takes as read
    consumer_pos_value,  \* the reader's own position
    data,                \* the memory: one cell per word
    records,             \* history: start -> [len, kind, st]
    reader,              \* where the reading thread is
    pr_pos,              \* the reader's last load of producer_pos
    current,             \* the slice being parsed: [pos, len]
    channel,             \* starts of the records handed to the consumer thread
    lost,                \* history: some event found no room
    terminating

vars == <<producer_pos, consumer_pos, consumer_pos_value, data, records,
          reader, pr_pos, current, channel, lost, terminating>>
readerVars == <<consumer_pos, consumer_pos_value, reader, pr_pos, current, channel>>

Kinds == {"event", "silent", "scratch"}
Lens == {HeaderLen} \cup DataLens \cup ScratchLens
Slot(p) == p % Size
Cells == 0 .. Size - 1
NoSlice == [pos |-> 0, len |-> 0]

(* A cell remembers the absolute position last written through it and, when *)
(* a record starts there, the header's length and flag bits and what the    *)
(* bytes behind the header will say.                                        *)
Cell == [at : Nat, len : Nat, flag : {"busy", "ready", "discard", "body"}, kind : Kinds]

Init ==
    /\ producer_pos = 0
    /\ consumer_pos = 0
    /\ consumer_pos_value = 0
    /\ data = [c \in Cells |-> [at |-> c, len |-> 0, flag |-> "body", kind |-> "event"]]
    /\ records = [p \in {} |-> [len |-> 0, kind |-> "event", st |-> "busy"]]
    /\ reader = "idle"
    /\ pr_pos = 0
    /\ current = NoSlice
    /\ channel = <<>>
    /\ lost = FALSE
    /\ terminating = FALSE

-----------------------------------------------------------------------------
(* The kernel's half. *)

(* bpf_ringbuf_reserve gives room only while the end of the new record is  *)
(* less than Size words ahead of the position the consumer published.      *)
Fits(len) == producer_pos + len - consumer_pos < Size

Covers(p, len, c) == \E k \in 0 .. len - 1 : c = Slot(p + k)

Reserve(len, kind) ==
    /\ producer_pos + len <= MaxPos
    /\ Fits(len)
    /\ producer_pos' = producer_pos + len
    /\ records' = [p \in DOMAIN records \cup {producer_pos} |->
                     IF p = producer_pos
                     THEN [len |-> len, kind |-> kind, st |-> "busy"]
                     ELSE records[p]]
    /\ data' = [c \in Cells |->
                  IF Covers(producer_pos, len, c)
                  THEN IF c = Slot(producer_pos)
                       THEN [at |-> producer_pos, len |-> len, flag |-> "busy", kind |-> kind]
                       ELSE [at |-> CHOOSE p \in producer_pos .. producer_pos + len - 1 : Slot(p) = c,
                             len |-> 0, flag |-> "body", kind |-> kind]
                  ELSE data[c]]
    /\ UNCHANGED <<lost, terminating>>
    /\ UNCHANGED readerVars

(* submit and discard clear the busy bit of the record's header. *)
Commit(p) ==
    /\ records[p].st = "busy"
    /\ LET st == IF records[p].kind = "scratch" THEN "discard" ELSE "ready"
       IN  /\ records' = [records EXCEPT ![p].st = st]
           /\ data' = [data EXCEPT ![Slot(p)].flag = st]
    /\ UNCHANGED <<producer_pos, lost, terminating>>
    /\ UNCHANGED readerVars

-----------------------------------------------------------------------------
(* The probes.  Several CPUs may be between reserve and submit at once. *)

(* check_env_entry, check_env_flag, check_arg_entry: room for a string of  *)
(* the process being executed, given back whatever the string is.          *)
ReserveScratch == \E len \in ScratchLens : Reserve(len, "scratch")

(* send::sized with a payload that fits its class. *)
SendData == \E len \in DataLens, kind \in {"event", "silent"} : Reserve(len, kind)

(* send::sized without payload, or falling back to -EMSGSIZE because the   *)
(* payload found no room.                                                  *)
SendHeader == Reserve(HeaderLen, "event")

(* send::sized gives up: not even the header finds room. *)
SendFails ==
    /\ producer_pos + HeaderLen <= MaxPos
    /\ ~Fits(HeaderLen)
    /\ lost' = TRUE
    /\ UNCHANGED <<producer_pos, data, records, terminating>>
    /\ UNCHANGED readerVars

CommitAny == \E p \in DOMAIN records : Commit(p)

-----------------------------------------------------------------------------
(* The reading thread: read_blocking in a loop, main.rs main_thread. *)

(* read_slice loads producer_pos. *)
LoadProducerPos ==
    /\ reader = "idle"
    /\ pr_pos' = producer_pos
    /\ reader' = "loaded"
    /\ UNCHANGED <<producer_pos, consumer_pos, consumer_pos_value, data, records,
                   current, channel, lost, terminating>>

(* Mutant of Header: the position masked with a mask one too small. *)
HeaderOffMask == data[consumer_pos_value % (Size - 1)]
Header == data[Slot(consumer_pos_value)]

Overflown ==
    /\ consumer_pos_value < pr_pos
    /\ pr_pos - consumer_pos_value > Size

(* Mutant of WouldBlock: the busy bit is ignored. *)
WouldBlockEmptyOnly == pr_pos <= consumer_pos_value

WouldBlock ==
    \/ pr_pos <= consumer_pos_value
    \/ ~Overflown /\ Header.flag = "busy"

(* read_slice steps over the record at the reader's position.  A discarded *)
(* record, or one from_rb_slice makes nothing of, ends the call with None. *)
(* pr_pos and current are locals of the call: they die with it.            *)
ReadSlice ==
    /\ reader = "loaded"
    /\ ~WouldBlock
    /\ IF Overflown
       THEN reader' = "failed" /\ UNCHANGED <<consumer_pos_value, current>>
       ELSE /\ consumer_pos_value' = consumer_pos_value + Header.len
            /\ IF Header.flag = "discard"
               THEN reader' = "idle" /\ UNCHANGED current
               ELSE reader' = "slice" /\ current' = [pos |-> consumer_pos_value, len |-> Header.len]
    /\ pr_pos' = 0
    /\ UNCHANGED <<producer_pos, consumer_pos, data, records, channel, lost, terminating>>

(* Mutant of ReadFinish: publishes where the event begins, not its end. *)
ReadFinishStart ==
    /\ reader = "slice"
    /\ LET cell == data[Slot(current.pos)]
       IN  IF cell.kind = "event"
           THEN /\ consumer_pos' = current.pos
                /\ channel' = Append(channel, cell.at)
           ELSE UNCHANGED <<consumer_pos, channel>>
    /\ reader' = "idle"
    /\ current' = NoSlice
    /\ UNCHANGED <<producer_pos, consumer_pos_value, data, records, pr_pos,
                   lost, terminating>>

(* from_rb_slice looks at the bytes; read_value publishes the position     *)
(* (read_finish) only when that made a value, and main_thread sends it on. *)
ReadFinish ==
    /\ reader = "slice"
    /\ LET cell == data[Slot(current.pos)]
       IN  IF cell.kind = "event"
           THEN /\ consumer_pos' = consumer_pos_value
                /\ channel' = Append(channel, cell.at)
           ELSE UNCHANGED <<consumer_pos, channel>>
    /\ reader' = "idle"
    /\ current' = NoSlice
    /\ UNCHANGED <<producer_pos, consumer_pos_value, data, records, pr_pos,
                   lost, terminating>>

ReadBlocks ==
    /\ reader = "loaded"
    /\ WouldBlock
    /\ reader' = "wait"
    /\ pr_pos' = 0
    /\ UNCHANGED <<producer_pos, consumer_pos, consumer_pos_value, data, records,
                   current, channel, lost, terminating>>

(* The kernel reports EPOLLIN while the two shared positions differ. *)
EpollIn == producer_pos # consumer_pos

(* Mutant of WaitEpoll: EPOLLIN does not end the wait. *)
WaitEpollDeaf ==
    /\ reader = "wait"
    /\ terminating
    /\ reader' = "stopped"
    /\ UNCHANGED <<producer_pos, consumer_pos, consumer_pos_value, data, records,
                   pr_pos, current, channel, lost, terminating>>

(* wait_epoll returns on EPOLLIN or when terminating; a timeout goes round. *)
WaitEpoll ==
    /\ reader = "wait"
    /\ EpollIn \/ terminating
    /\ reader' = IF terminating THEN "stopped" ELSE "idle"
    /\ UNCHANGED <<producer_pos, consumer_pos, consumer_pos_value, data, records,
                   pr_pos, current, channel, lost, terminating>>

(* Any other thread of the recorder may ask for the end. *)
Terminate ==
    /\ ~terminating
    /\ terminating' = TRUE
    /\ UNCHANGED <<producer_pos, data, records, lost>>
    /\ UNCHANGED readerVars

ReaderStep == LoadProducerPos \/ ReadSlice \/ ReadFinish \/ ReadBlocks \/ WaitEpoll

Next ==
    \/ ReserveScratch \/ SendData \/ SendHeader \/ SendFails \/ CommitAny
    \/ LoadProducerPos \/ ReadSlice \/ ReadFinish \/ ReadBlocks \/ WaitEpoll
    \/ Terminate

Spec == Init /\ [][Next]_vars

(* A probe runs to its end, so every reservation is completed; the reading *)
(* thread is scheduled.  Nothing forces a probe to run or a stop to come.  *)
FairSpec ==
    /\ Spec
    /\ \A p \in 0 .. MaxPos : WF_vars(p \in DOMAIN records /\ Commit(p))
    /\ WF_vars(ReaderStep)

-----------------------------------------------------------------------------
(* Properties *)

(* The variables have the types the code gives them. *)
TypeOK ==
    /\ producer_pos \in Nat /\ consumer_pos \in Nat /\ consumer_pos_value \in Nat
    /\ data \in [Cells -> Cell]
    /\ DOMAIN records \subseteq Nat
    /\ records \in [DOMAIN records ->
                       [len : Lens, kind : Kinds, st : {"busy", "ready", "discard"}]]
    /\ reader \in {"idle", "loaded", "slice", "wait", "stopped", "failed"}
    /\ pr_pos \in Nat
    /\ current \in [pos : Nat, len : Nat]
    /\ channel \in Seq(Nat)
    /\ lost \in BOOLEAN /\ terminating \in BOOLEAN

(* The published position never passes the reader's, the reader never      *)
(* passes the producer_pos it loaded (so `pr_pos - consumer_pos_value` of  *)
(* read_slice cannot wrap), and the producer is never a whole buffer ahead *)
(* of what was published: read_blocking never ends with "overflow".        *)
CursorsOrdered ==
    /\ consumer_pos <= consumer_pos_value
    /\ consumer_pos_value <= producer_pos
    /\ reader = "loaded" /\ ~WouldBlock => consumer_pos_value + Header.len <= pr_pos
    /\ pr_pos <= producer_pos
    /\ producer_pos < consumer_pos + Size
    /\ reader # "failed"

(* Whatever read_slice takes for a header is the header of the record the  *)
(* kernel placed at that position, and no word of the slice being parsed   *)
(* is overwritten by a later reservation before read_finish.               *)
ReadsIntact ==
    /\ reader = "loaded" /\ ~WouldBlock =>
         /\ consumer_pos_value \in DOMAIN records
         /\ Header.at = consumer_pos_value
         /\ Header.len = records[consumer_pos_value].len
         /\ Header.flag = records[consumer_pos_value].st
         /\ Header.kind = records[consumer_pos_value].kind
    /\ reader = "slice" =>
         \A p \in current.pos .. current.pos + current.len - 1 : data[Slot(p)].at = p

(* The records the reader is done with. *)
Passed == {p \in DOMAIN records :
             p < (IF reader = "slice" THEN current.pos ELSE consumer_pos_value)}

(* main_thread hands on every submitted event it has passed exactly once,  *)
(* in the order of reservation, and nothing that was discarded.            *)
OnceInOrder ==
    /\ \A i, j \in DOMAIN channel : i < j => channel[i] < channel[j]
    /\ {channel[i] : i \in DOMAIN channel} =
         {p \in Passed : records[p].kind = "event" /\ records[p].st = "ready"}

(* The ring buffer is an OrderedLog whose tickets are start positions. *)
Abstract == INSTANCE OrderedLog WITH
    Ticket <- 0 .. MaxPos,
    log <- [p \in DOMAIN records |-> [kind |-> records[p].kind, st |-> records[p].st]],
    head <- IF reader = "slice" THEN current.pos ELSE consumer_pos_value,
    out <- channel
ImplementsOrderedLog == Abstract!Spec

(* A submitted event reaches the consumer thread unless the recorder is    *)
(* told to stop: a poll that follows the published position, not the       *)
(* reader's, loses no wakeup.                                              *)
SubmittedIsDelivered ==
    \A p \in 0 .. MaxPos :
        (p \in DOMAIN records /\ records[p].kind = "event" /\ records[p].st = "ready")
            ~> (reader = "stopped" \/ \E i \in DOMAIN channel : channel[i] = p)

(* The room the reader has given back (read_finish) ends with the last     *)
(* event it handed on, whatever it has passed since: records that make no  *)
(* value, scratch strings of execve among them, keep theirs until the next *)
(* event.                                                                  *)
LastEvent == channel[Len(channel)]
RoomHeldBack ==
    consumer_pos = IF channel = <<>> THEN 0 ELSE LastEvent + records[LastEvent].len
=============================================================================
