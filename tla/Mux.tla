-------------------------------- MODULE Mux ---------------------------------
(***************************************************************************)
(* The multiplexer of a connection, mina-recorder/src/connection/mux.rs:   *)
(* the protocol the peers agreed on decides, once and for all, whether its *)
(* chunks go to the mplex or to the yamux decoder.                         *)
(***************************************************************************)
EXTENDS Integers, Sequences

CONSTANTS
    Nums,           \* mplex: stream numbers
    Odd, Even,      \* yamux: stream ids of the client and of the server
    ResetCap,       \* yamux: capacity of recent_reset
    MplexFrames,    \* bounds of the model: frames sent,
    YamuxFrames,
    MaxChunk        \* and pieces of frames in a chunk

VARIABLES
    protocol,                                   \* the variant of State
    sent, frames, wire, acc, inners, seen,      \* of the decoder in use
    delivered, panicked,                        \* mplex only
    recent_reset, given                         \* yamux only

mplexVars == <<delivered, panicked>>
yamuxVars == <<recent_reset, given>>
vars == <<protocol, sent, frames, wire, acc, inners, seen, mplexVars, yamuxVars>>

M == INSTANCE Mplex WITH MaxFrames <- MplexFrames
Y == INSTANCE Yamux WITH MaxFrames <- YamuxFrames

(* from_name *)
FromName ==
    \/ /\ protocol = "/coda/mplex/1.0.0"
       /\ M!Init
       /\ recent_reset = <<>> /\ given = <<>>
    \/ /\ protocol = "/coda/yamux/1.0.0"
       /\ Y!Init
       /\ delivered = <<>> /\ panicked = FALSE

(* on_data, and what the peers send meanwhile. *)
OnMplex == protocol = "/coda/mplex/1.0.0" /\ M!Next /\ UNCHANGED <<protocol, yamuxVars>>
OnYamux == protocol = "/coda/yamux/1.0.0" /\ Y!Next /\ UNCHANGED <<protocol, mplexVars>>

Next == OnMplex \/ OnYamux

Spec == FromName /\ [][Next]_vars

-----------------------------------------------------------------------------
(* Properties *)

Mplex == protocol = "/coda/mplex/1.0.0"
Yamux == protocol = "/coda/yamux/1.0.0"

(* However frames are cut into chunks, the decoder's idea of a stream is   *)
(* the peers': open both ways, half closed by the right side or, with      *)
(* mplex, gone.                                                            *)
StatusIsRight == (Mplex => M!StatusIsRight) /\ (Yamux => Y!LiveStatusIsRight)

(* A stream's decoder gets the data of that stream, all that was seen and  *)
(* not reset, once, in order, and no other.                                *)
DeliveredInOrder == (Mplex => M!DeliveredInOrder) /\ (Yamux => Y!NoDataSkipped)

(* A yamux stream that is over stays in the table only when its last data  *)
(* came in the very chunk that closed it, or after its reset had left      *)
(* recent_reset.                                                           *)
DeadIsGoneExcept == Yamux => Y!DeadIsGoneExcept
=============================================================================
