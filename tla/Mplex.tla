------------------------------- MODULE Mplex --------------------------------
(***************************************************************************)
(* The mplex decoder, mina-recorder/src/connection/mplex.rs: it cuts the   *)
(* decrypted chunks of a connection, in each direction, into frames,       *)
(* follows the life of every stream and hands each stream's bytes to the   *)
(* decoder of that stream.  The two ends of the connection are modelled by *)
(* what they may send; where a chunk begins and ends is up to the sender,  *)
(* the network and the cipher, and has nothing to do with frames.          *)
(***************************************************************************)
EXTENDS Integers, Sequences, FiniteSets, SequencesExt

CONSTANTS
    Nums,       \* stream numbers; both ends number their streams from here
    MaxFrames,  \* bound of the model: frames sent
    MaxChunk    \* bound of the model: pieces of frames in a chunk

VARIABLES
    sent,       \* [dir][owner, num] -> what this end has done on the stream
    frames,     \* frames sent so far
    wire,       \* [dir] -> pieces of frames not yet seen by the recorder
    acc,        \* [dir] -> acc::State: the beginning of a frame
    inners,     \* StreamId -> Duplex, IncomingOnly, OutgoingOnly
    delivered,  \* history: StreamId -> frames given to the stream's decoder
    seen,       \* history: frames processed, in order
    panicked    \* the `expect` of on_data failed

vars == <<sent, frames, wire, acc, inners, delivered, seen, panicked>>

Dirs == {"in", "out"}
Other(d) == IF d = "in" THEN "out" ELSE "in"
Streams == Dirs \X Nums            \* who opened it, and its number
StreamIds == {"Forward", "Backward"} \X Nums

Init ==
    /\ sent = [d \in Dirs |-> [s \in Streams |-> "none"]]
    /\ frames = 0
    /\ wire = [d \in Dirs |-> <<>>]
    /\ acc = [d \in Dirs |-> <<>>]
    /\ inners = [k \in StreamIds |-> "absent"]
    /\ delivered = [k \in StreamIds |-> <<>>]
    /\ seen = <<>>
    /\ panicked = FALSE

-----------------------------------------------------------------------------
(* The two ends.  An end opens a stream with a number it never used; it     *)
(* uses a stream of the other end once it knows of it; after its own close  *)
(* or reset it is silent, but it may not know of the other's reset yet.     *)

MayUse(d, s) ==
    /\ sent[d][s] \in {"none", "open"}
    /\ s[1] = d => sent[d][s] = "open"
    /\ s[1] # d => \E i \in DOMAIN seen : seen[i].tag = "New" /\ seen[i].stream = s

SendFrame(d, s, tag) ==
    /\ ~panicked /\ frames < MaxFrames
    /\ IF tag = "New" THEN s[1] = d /\ sent[d][s] = "none" ELSE MayUse(d, s)
    /\ sent' = [sent EXCEPT ![d][s] = IF tag \in {"Close", "Reset"} THEN "done" ELSE "open"]
    /\ frames' = frames + 1
    /\ LET f == [dir |-> d, tag |-> tag, stream |-> s, no |-> frames + 1]
       IN  wire' = [wire EXCEPT ![d] = @ \o <<[frame |-> f, last |-> FALSE], [frame |-> f, last |-> TRUE]>>]
    /\ UNCHANGED <<acc, inners, delivered, seen, panicked>>

-----------------------------------------------------------------------------
(* acc::State::accumulate, called until it is Pending: the frames whose    *)
(* last piece has come, and the pieces of the frame that is not whole yet. *)
Whole(pieces) == [i \in DOMAIN SelectSeq(pieces, LAMBDA p : p.last) |->
                     SelectSeq(pieces, LAMBDA p : p.last)[i].frame]
Rest(pieces) == SelectSeq(pieces, LAMBDA p : \A q \in Range(pieces) : q.frame = p.frame => ~q.last)

(* The header says whether the sender opened the stream; together with the *)
(* direction that makes the StreamId.                                      *)
StreamId(f) ==
    LET initiator == f.stream[1] = f.dir
    IN  <<IF initiator <=> f.dir = "in" THEN "Forward" ELSE "Backward", f.stream[2]>>

(* Mutant of OnClose: the other half is closed. *)
OnCloseSwapped(st, incoming) ==
    IF st = "Duplex" THEN (IF incoming THEN "IncomingOnly" ELSE "OutgoingOnly") ELSE "absent"

(* process: the effect of a frame on the stream's status, and what on_data *)
(* is told of it.                                                          *)
OnClose(st, incoming) ==
    IF st = "Duplex" THEN (IF incoming THEN "OutgoingOnly" ELSE "IncomingOnly") ELSE "absent"

Status(st, f) ==
    CASE f.tag = "New" -> "Duplex"
      [] f.tag = "Msg" -> st
      [] f.tag = "Close" -> OnClose(st, f.dir = "in")
      [] f.tag = "Reset" -> "absent"

BadStream(st, incoming) ==
    ~ (st = "Duplex" \/ (st = "IncomingOnly" /\ incoming) \/ (st = "OutgoingOnly" /\ ~incoming))

ProcessOne(r, f) ==
    LET k == StreamId(f)
    IN  [inners |-> [r.inners EXCEPT ![k] = Status(@, f)],
         output |-> Append(r.output, [frame |-> f, bad |-> BadStream(r.inners[k], f.dir = "in")])]

Process(batch) == FoldLeft(ProcessOne, [inners |-> inners, output |-> <<>>], batch)

(* on_data: only after the whole chunk has been processed are its messages *)
(* handed to the streams' decoders, one by one.                            *)
DeliverOne(state, r, o) ==
    IF r.panicked \/ o.frame.tag # "Msg" \/ o.bad THEN r
    ELSE IF state[StreamId(o.frame)] = "absent" THEN [r EXCEPT !.panicked = TRUE]
    ELSE [r EXCEPT !.delivered[StreamId(o.frame)] = Append(@, o.frame)]

Deliver(output, state) ==
    FoldLeft(LAMBDA r, o : DeliverOne(state, r, o), [delivered |-> delivered, panicked |-> FALSE], output)

OnData(d) ==
    /\ ~panicked
    /\ \E n \in 1 .. Len(wire[d]) :
         /\ n <= MaxChunk
         /\ LET pieces == acc[d] \o SubSeq(wire[d], 1, n)
                batch == Whole(pieces)
                p == Process(batch)
                r == Deliver(p.output, p.inners)
            IN  /\ wire' = [wire EXCEPT ![d] = SubSeq(@, n + 1, Len(@))]
                /\ acc' = [acc EXCEPT ![d] = Rest(pieces)]
                /\ inners' = p.inners
                /\ delivered' = r.delivered
                /\ panicked' = r.panicked
                /\ seen' = seen \o batch
    /\ UNCHANGED <<sent, frames>>

Next ==
    \/ \E d \in Dirs, s \in Streams, tag \in {"New", "Msg", "Close", "Reset"} : SendFrame(d, s, tag)
    \/ \E d \in Dirs : OnData(d)

Spec == Init /\ [][Next]_vars

-----------------------------------------------------------------------------
(* Properties *)

(* What the frames seen so far say of a stream. *)
IdOf(s) == <<IF s[1] = "in" THEN "Forward" ELSE "Backward", s[2]>>
Frames(s, n) == {seen[i] : i \in {j \in 1 .. n : seen[j].stream = s}}
Opened(s, n) == \E f \in Frames(s, n) : f.tag = "New"
WasReset(s, n) == \E f \in Frames(s, n) : f.tag = "Reset"
HasClosed(d, s, n) == \E f \in Frames(s, n) : f.tag = "Close" /\ f.dir = d
Live(s, n) == Opened(s, n) /\ ~WasReset(s, n)

(* However the frames were cut into chunks, the decoder's idea of a stream *)
(* is the peers': open both ways, half closed by the right side, or gone.  *)
StatusIsRight ==
    ~panicked => \A s \in Streams :
        LET n == Len(seen)
        IN  inners[IdOf(s)] =
              IF ~Live(s, n) \/ (HasClosed("in", s, n) /\ HasClosed("out", s, n)) THEN "absent"
              ELSE IF HasClosed("in", s, n) THEN "OutgoingOnly"
              ELSE IF HasClosed("out", s, n) THEN "IncomingOnly"
              ELSE "Duplex"

(* A stream's decoder gets the messages of that stream, all of those seen  *)
(* before its reset, in order, and no other.                               *)
DeliveredInOrder ==
    ~panicked => \A s \in Streams :
        delivered[IdOf(s)] =
            LET I == SelectSeq([i \in 1 .. Len(seen) |-> i],
                               LAMBDA i : seen[i].stream = s /\ seen[i].tag = "Msg" /\ Live(s, i))
            IN  [j \in DOMAIN I |-> seen[I[j]]]

(* mplex.rs:391 says of the stream a message is for: "cannot fail, checked *)
(* upper in stack".                                                        *)
CannotFail == ~panicked
=============================================================================
