----------------------------- MODULE Connection -----------------------------
(***************************************************************************)
(* A recorded connection, mina-recorder/src/connection: the chain of       *)
(* states pnet, multistream-select, noise, the multiplexer, and in each    *)
(* stream multistream-select and an application protocol.  Chunks of both  *)
(* directions go down the chain.                                           *)
(*                                                                         *)
(* The chain is followed in two parts, one of which is chosen: the opening *)
(* of a connection or of a stream up to what the inner state is given      *)
(* (Handshake), or the multiplexer between them (Mux).                     *)
(***************************************************************************)
EXTENDS Integers, Sequences

CONSTANTS
    Modes, MaxData, MaxStream,                                      \* of Handshake
    Nums, Odd, Even, ResetCap, MplexFrames, YamuxFrames, MaxChunk   \* of Mux

VARIABLES
    part,                                                   \* "opening" or "frames"
    mode, said, at, pnet, sel, inner, noise, stream, got,   \* of Handshake
    protocol, sent, frames, wire, acc, inners, seen,        \* of Mux
    delivered, panicked, recent_reset, given

H == INSTANCE Handshake WITH sent <- said
X == INSTANCE Mux

openingVars == <<mode, said, at, pnet, sel, inner, noise, stream, got>>
framesVars == <<protocol, sent, frames, wire, acc, inners, seen, delivered, panicked, recent_reset, given>>
vars == <<part, openingVars, framesVars>>

Nil == <<>>

Init ==
    \/ /\ part = "opening"
       /\ H!Init
       /\ protocol = Nil /\ sent = Nil /\ frames = 0 /\ wire = Nil /\ acc = Nil /\ inners = Nil
       /\ seen = Nil /\ delivered = Nil /\ panicked = FALSE /\ recent_reset = Nil /\ given = Nil
    \/ /\ part = "frames"
       /\ X!FromName
       /\ mode = Nil /\ said = Nil /\ at = Nil /\ pnet = Nil /\ sel = Nil /\ inner = Nil
       /\ noise = Nil /\ stream = Nil /\ got = Nil

Opening == part = "opening" /\ H!Next /\ UNCHANGED <<part, framesVars>>
Frames == part = "frames" /\ X!Next /\ UNCHANGED <<part, openingVars>>

Next == Opening \/ Frames

Spec == Init /\ [][Next]_vars

-----------------------------------------------------------------------------
(* Properties *)

(* Negotiation and payload are told apart however chunks are cut: all of   *)
(* the payload goes to the inner state, in order, but what waits glued to  *)
(* the last token.                                                         *)
PayloadKept == part = "opening" => H!PayloadKept

(* The inner state is created for the protocol the ends agreed on, also    *)
(* after refusals and simultaneous opening.                                *)
InnerIsAgreed == part = "opening" => H!InnerIsAgreed

(* With the keys found, every noise message is decrypted. *)
DecryptsAll == part = "opening" => H!DecryptsAll

(* Messages of a stream are stored once and in order, or are next in the   *)
(* accumulator, unless directions cut into each other's messages; only a   *)
(* query glued to the negotiation lets its response be taken for unasked.  *)
StoredInOrder == part = "opening" => H!StoredInOrder

(* A message is stored with its own direction unless a heartbeat or the    *)
(* like went before it.                                                    *)
DirectionIsRight == part = "opening" => H!DirectionIsRight

(* The decoder's idea of a stream is the peers', however frames are cut    *)
(* into chunks.                                                            *)
StatusIsRight == part = "frames" => X!StatusIsRight

(* A stream's decoder gets the data of that stream, all that was seen and  *)
(* not reset, once, in order, and no other.                                *)
DeliveredInOrder == part = "frames" => X!DeliveredInOrder

(* A yamux stream that is over stays in the table only when its last data  *)
(* came in the chunk that closed it, or after its reset was forgotten.     *)
DeadIsGoneExcept == part = "frames" => X!DeadIsGoneExcept
=============================================================================
