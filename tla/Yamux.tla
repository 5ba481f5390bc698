------------------------------- MODULE Yamux --------------------------------
(***************************************************************************)
(* The yamux decoder, mina-recorder/src/connection/yamux.rs.  Like Mplex   *)
(* it first applies every frame of a chunk to the table of streams and     *)
(* only then hands the data on; unlike Mplex it opens a stream for data it *)
(* has no stream for, unless the stream is one of the last ones reset.     *)
(***************************************************************************)
EXTENDS Integers, Sequences, FiniteSets, SequencesExt

CONSTANTS
    Odd, Even,      \* stream ids of the client and of the server
    ResetCap,       \* recent_reset keeps this many streams (512 in the code)
    MaxFrames,      \* bound of the model: frames sent
    MaxChunk        \* bound of the model: pieces of frames in a chunk

VARIABLES
    sent,           \* [dir][stream] -> what this end has done on the stream
    frames,         \* frames sent so far
    wire,           \* [dir] -> pieces of frames not yet seen by the recorder
    acc,            \* [dir] -> acc::State: the beginning of a frame
    inners,         \* stream -> status
    recent_reset,
    given,          \* history: the data frames given to a decoder, in order
    seen            \* history: frames processed, with the number of the chunk

vars == <<sent, frames, wire, acc, inners, recent_reset, given, seen>>

Dirs == {"in", "out"}
Streams == Odd \cup Even
Opener(s) == IF s \in Odd THEN "out" ELSE "in"

Init ==
    /\ sent = [d \in Dirs |-> [s \in Streams |-> "none"]]
    /\ frames = 0
    /\ wire = [d \in Dirs |-> <<>>]
    /\ acc = [d \in Dirs |-> <<>>]
    /\ inners = [s \in Streams |-> "absent"]
    /\ recent_reset = <<>>
    /\ given = <<>>
    /\ seen = <<>>

-----------------------------------------------------------------------------
(* The two ends: SYN on the first frame of a stream, FIN on the last one of *)
(* a side, on data or on a window update, RST instead of it.  A window      *)
(* update without a flag, a ping and a go-away touch no stream and are left *)
(* out: the decoder only records their header.                              *)

MayUse(d, s) ==
    \/ Opener(s) = d /\ sent[d][s] = "open"
    \/ /\ Opener(s) # d /\ sent[d][s] # "done"
       /\ \E i \in DOMAIN seen : seen[i].flag = "SYN" /\ seen[i].stream = s

SendFrame(d, s, ty, flag) ==
    /\ frames < MaxFrames
    /\ IF flag = "SYN" THEN Opener(s) = d /\ sent[d][s] = "none" ELSE MayUse(d, s)
    /\ ty = "Data" => flag # "RST"
    /\ ty = "WindowUpdate" => flag # ""
    /\ sent' = [sent EXCEPT ![d][s] = IF flag \in {"FIN", "RST"} THEN "done" ELSE "open"]
    /\ frames' = frames + 1
    /\ LET f == [dir |-> d, ty |-> ty, flag |-> flag, stream |-> s, no |-> frames + 1]
       IN  wire' = [wire EXCEPT ![d] = @ \o <<[frame |-> f, last |-> FALSE], [frame |-> f, last |-> TRUE]>>]
    /\ UNCHANGED <<acc, inners, recent_reset, given, seen>>

-----------------------------------------------------------------------------
(* acc::State::accumulate, called until it is Pending. *)
Whole(pieces) == [i \in DOMAIN SelectSeq(pieces, LAMBDA p : p.last) |->
                     SelectSeq(pieces, LAMBDA p : p.last)[i].frame]
Rest(pieces) == SelectSeq(pieces, LAMBDA p : \A q \in Range(pieces) : q.frame = p.frame => ~q.last)

(* process: FIN closes the sender's half; any FIN on a half closed stream   *)
(* removes it.                                                              *)
OnFin(st, incoming) ==
    IF st = "Duplex" THEN (IF incoming THEN "OutgoingOnly" ELSE "IncomingOnly") ELSE "absent"

Push(queue, s) == Append(IF Len(queue) = ResetCap THEN Tail(queue) ELSE queue, s)

ProcessOne(r, f) ==
    CASE f.flag = "SYN" -> [r EXCEPT !.inners[f.stream] = "Duplex"]
      [] f.flag = "FIN" -> [r EXCEPT !.inners[f.stream] = OnFin(@, f.dir = "in")]
      [] f.flag = "RST" -> [r EXCEPT !.inners[f.stream] = "absent", !.recent_reset = Push(@, f.stream)]
      [] OTHER -> r

Process(batch) == FoldLeft(ProcessOne, [inners |-> inners, recent_reset |-> recent_reset], batch)

(* Mutant of DeliverOne: data without a stream is dropped. *)
DeliverOneDrops(r, f) ==
    IF f.ty # "Data" \/ r.inners[f.stream] = "absent" THEN r
    ELSE [r EXCEPT !.given = Append(@, f)]

(* Mutant of DeliverOne: recent resets are not consulted. *)
DeliverOneRevives(r, f) ==
    IF f.ty # "Data" THEN r
    ELSE [r EXCEPT !.given = Append(@, f),
                   !.inners[f.stream] = IF @ = "absent" THEN "Duplex" ELSE @]

(* on_data, after the whole chunk has been processed. *)
DeliverOne(r, f) ==
    IF f.ty # "Data" \/ (r.inners[f.stream] = "absent" /\ Contains(r.recent_reset, f.stream)) THEN r
    ELSE [r EXCEPT !.given = Append(@, f),
                   !.inners[f.stream] = IF @ = "absent" THEN "Duplex" ELSE @]

Deliver(p, batch) ==
    FoldLeft(DeliverOne, [inners |-> p.inners, recent_reset |-> p.recent_reset, given |-> given], batch)

Chunk == IF seen = <<>> THEN 1 ELSE Last(seen).chunk + 1
Seen(f) == [dir |-> f.dir, ty |-> f.ty, flag |-> f.flag, stream |-> f.stream, no |-> f.no, chunk |-> Chunk]

OnData(d) ==
    /\ \E n \in 1 .. Len(wire[d]) :
         /\ n <= MaxChunk
         /\ LET pieces == acc[d] \o SubSeq(wire[d], 1, n)
                batch == Whole(pieces)
                r == Deliver(Process(batch), batch)
            IN  /\ wire' = [wire EXCEPT ![d] = SubSeq(@, n + 1, Len(@))]
                /\ acc' = [acc EXCEPT ![d] = Rest(pieces)]
                /\ inners' = r.inners
                /\ recent_reset' = r.recent_reset
                /\ given' = r.given
                /\ seen' = seen \o [i \in DOMAIN batch |-> Seen(batch[i])]
    /\ UNCHANGED <<sent, frames>>

Next ==
    \/ \E d \in Dirs, s \in Streams, ty \in {"Data", "WindowUpdate"}, flag \in {"", "SYN", "FIN", "RST"} :
          SendFrame(d, s, ty, flag)
    \/ \E d \in Dirs : OnData(d)

Spec == Init /\ [][Next]_vars

-----------------------------------------------------------------------------
(* Properties *)

(* What the frames seen so far say of a stream. *)
Has(s, flag, d) == \E i \in DOMAIN seen : seen[i].stream = s /\ seen[i].flag = flag /\ seen[i].dir = d
WasReset(s) == \E d \in Dirs : Has(s, "RST", d)
Opened(s) == \E d \in Dirs : Has(s, "SYN", d)
Alive(s) == Opened(s) /\ ~WasReset(s) /\ ~(Has(s, "FIN", "in") /\ Has(s, "FIN", "out"))

(* A stream that is open at least one way is in the table, closed on the    *)
(* side that sent FIN and open on the other, however the frames were cut.   *)
LiveStatusIsRight ==
    \A s \in Streams : Alive(s) =>
        inners[s] = IF Has(s, "FIN", "in") THEN "OutgoingOnly"
                    ELSE IF Has(s, "FIN", "out") THEN "IncomingOnly" ELSE "Duplex"

(* Every data frame of a stream that was not reset is given to a decoder,   *)
(* once and in the order in which it was seen.                              *)
NoDataSkipped ==
    LET data == SelectSeq(seen, LAMBDA f : f.ty = "Data" /\ ~WasReset(f.stream))
        kept == SelectSeq(given, LAMBDA f : ~WasReset(f.stream))
    IN  /\ DOMAIN data = DOMAIN kept
        /\ \A i \in DOMAIN data : data[i].no = kept[i].no

(* A stream that is over stays in the table only in two cases: its last     *)
(* data came in the very chunk that closed it, and so was handled after the *)
(* close, or data was handled after its reset had left recent_reset.        *)
DeadIsGoneExcept ==
    \A s \in Streams : (Opened(s) /\ ~Alive(s) /\ inners[s] # "absent") =>
        \E i, j \in DOMAIN seen :
            /\ seen[i].stream = s /\ seen[i].ty = "Data"
            /\ seen[j].stream = s /\ seen[j].flag \in {"FIN", "RST"}
            /\ \/ seen[j].flag = "FIN" /\ seen[i].chunk = seen[j].chunk
               \/ /\ seen[j].flag = "RST" /\ seen[i].chunk >= seen[j].chunk
                  /\ Cardinality({k \in j + 1 .. Len(seen) : seen[k].flag = "RST"}) >= ResetCap
=============================================================================
