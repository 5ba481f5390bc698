----------------------------- MODULE Handshake ------------------------------
(***************************************************************************)
(* How a recorded connection, and every stream on it, begins: the layers   *)
(* pnet.rs, multistream_select.rs and noise.rs of                          *)
(* mina-recorder/src/connection, one on top of the other, fed with chunks  *)
(* of both directions cut anywhere.  A stream starts with Select alone.    *)
(*                                                                         *)
(* The two ends are go-libp2p and not in the repository.  They are         *)
(* modelled the way the decoder and the captures in its tests have them: a *)
(* dialer that may ask for simultaneous connect and offers protocols one   *)
(* by one, a listener that answers each, both ends dialing at once, and on *)
(* streams a dialer that does not wait for the answer.  An end reacts to   *)
(* what the recorder has seen of the other.                                *)
(***************************************************************************)
EXTENDS Integers, Sequences, SequencesExt, Select, Noise, MinaProtocol

CONSTANTS
    Modes,      \* how the ends open, see Mode
    MaxData,    \* bounds of the model: payload messages of an end
    MaxStream   \* on a connection and on a stream

VARIABLES
    mode,       \* [level, proto, dialer, open, offers, keys, early]
    sent,       \* [dir] -> tokens sent
    at,         \* [dir] -> pieces the recorder has seen
    pnet,       \* pnet::State: [skip, cipher]
    sel,        \* multistream_select::State::hl
    inner,      \* the protocol the inner state was created for
    noise,      \* the inner state of a connection
    stream,     \* the inner state of a stream
    got         \* history: [dir] -> pieces given to the inner state

vars == <<mode, sent, at, pnet, sel, inner, noise, stream, got>>

Bad == "/other"
Good == mode.proto
Tok(kind, val) == [kind |-> kind, val |-> val]
Message(msg, from, no) == Tok("payload", [msg |-> msg, from |-> from, no |-> no, early |-> mode.early])

Init ==
    /\ mode \in Modes
    /\ sent = [d \in Dirs |-> <<>>]
    /\ at = [d \in Dirs |-> 0]
    /\ pnet = [skip |-> FALSE, cipher |-> [d \in Dirs |-> FALSE]]
    /\ sel = SelectInit
    /\ inner = None
    /\ noise = NoiseInit
    /\ stream = MinaInit
    /\ got = [d \in Dirs |-> <<>>]

-----------------------------------------------------------------------------
(* The ends. *)

Seen(d) == SubSeq(sent[d], 1, at[d] \div 2)
Count(s, kind) == Len(SelectSeq(s, LAMBDA t : t.kind = kind))
Has(s, kind) == Count(s, kind) > 0
HasMsg(s, msg) == \E i \in DOMAIN s : s[i].kind = "payload" /\ s[i].val.msg = msg
Simultaneous == mode.open = "simultaneous"
Role(d) == IF d = mode.dialer THEN "i" ELSE "r"

(* What an end says unasked. *)
Opening(d) ==
    LET dials == d = mode.dialer \/ Simultaneous
    IN  (IF mode.level = "connection" THEN <<Tok("nonce", "")>> ELSE <<>>)
        \o <<Tok("ms", "")>>
        \o (IF dials /\ mode.open \in {"sc", "simultaneous"} THEN <<Tok("sc", "")>> ELSE <<>>)
        \o (IF dials THEN <<Tok("name", IF mode.offers = 2 THEN Bad ELSE Good)>> ELSE <<>>)

(* Names and answers that count: those after the tie was broken. *)
Names(s) == Count(s, "name") - (IF Simultaneous THEN 1 ELSE 0)
Refusals(s) == Count(s, "na") - (IF mode.open = "sc" THEN 1 ELSE 0)
Offer(n) == Tok("name", IF n = mode.offers THEN Good ELSE Bad)

(* What has to be answered, in order. *)
Asked(s) == SelectSeq(s, LAMBDA t : t.kind = "name" \/ (t.kind = "sc" /\ ~Simultaneous))
Answered(s) == Count(s, "na") + Count(s, "name")

Data(d) ==
    LET mine == sent[d]
        theirs == Seen(Other(d))
        n == Len(SelectSeq(mine, LAMBDA t : t.kind = "payload" /\ t.val.msg = "data"))
        hello == CASE Role(d) = "i" -> IF ~HasMsg(mine, "first") THEN {"first"}
                                       ELSE IF ~HasMsg(mine, "third")
                                       THEN (IF HasMsg(theirs, "second") THEN {"third"} ELSE {"wait"}) ELSE {}
                   [] OTHER -> IF ~HasMsg(theirs, "first") THEN {"wait"}
                               ELSE IF ~HasMsg(mine, "second") THEN {"second"}
                               ELSE IF ~HasMsg(theirs, "third") THEN {"wait"} ELSE {}
    IN  IF hello # {} THEN {Message(m, Role(d), 0) : m \in hello \ {"wait"}}
        ELSE IF mode.level = "connection" /\ n < MaxData THEN {Message("data", Role(d), n)} ELSE {}

(* On a stream: the dialer's queries, the listener's responses to those it *)
(* knows of, and from both sides heartbeats and the first response; or     *)
(* gossip.                                                                 *)
StreamData(d) ==
    LET mine == SelectSeq(sent[d], LAMBDA t : t.kind = "payload")
        asked == {t \in Range(Seen(Other(d))) : t.kind = "payload" /\ t.val.msg = "query"}
        answered == {t.val.no : t \in {u \in Range(mine) : u.val.msg = "response"}}
    IN  IF Len(mine) >= MaxStream THEN {}
        ELSE IF mode.proto # "/rpc" THEN {Message("gossip", Role(d), Len(mine))}
        ELSE {Message(m, Role(d), Len(mine)) : m \in {"beat", "magic"}}
             \cup (IF Role(d) = "i" THEN {Message("query", "i", Len(mine))}
                   ELSE {Message("response", "r", n) : n \in {t.val.no : t \in asked} \ answered})

Payload(d) == IF mode.level = "stream" THEN StreamData(d) ELSE Data(d)

(* The next tokens an end may send. *)
NextTokens(d) ==
    LET mine == sent[d]
        theirs == Seen(Other(d))
    IN  CASE Len(mine) < Len(Opening(d)) -> {Opening(d)[Len(mine) + 1]}
          [] Len(mine) >= Len(Opening(d)) /\ Simultaneous /\ ~Has(mine, "select") ->
               IF Has(theirs, "sc") THEN {Tok("select", "")} ELSE {}
          [] Len(mine) >= Len(Opening(d)) /\ Simultaneous /\ Has(mine, "select") /\ ~Has(mine, "role") ->
               IF Has(theirs, "select") THEN {Tok("role", Role(d))} ELSE {}
          [] OTHER ->
               IF d = mode.dialer
               THEN CASE Names(theirs) > 0 \/ (mode.open = "lazy" /\ mode.offers = 1) -> Payload(d)
                      [] Names(theirs) <= 0 /\ Names(mine) < mode.offers
                            /\ (Names(mine) = 0 \/ Refusals(theirs) = Names(mine)) -> {Offer(Names(mine) + 1)}
                      [] OTHER -> {}
               ELSE CASE Len(Asked(theirs)) > Answered(mine) ->
                           LET t == Asked(theirs)[Answered(mine) + 1]
                           IN  {IF t.kind = "name" /\ t.val = Good THEN t ELSE Tok("na", "")}
                      [] Len(Asked(theirs)) <= Answered(mine) /\ Names(mine) > 0 -> Payload(d)
                      [] OTHER -> {}

Send(d) ==
    /\ \E t \in NextTokens(d) : sent' = [sent EXCEPT ![d] = Append(@, t)]
    /\ UNCHANGED <<mode, at, pnet, sel, inner, noise, stream, got>>

-----------------------------------------------------------------------------
(* The recorder. *)

Piece(d, k) == [token |-> sent[d][(k + 1) \div 2], last |-> k % 2 = 0]

(* pnet::State::on_data: the first chunk of a direction holds the nonce,   *)
(* or nothing of the connection is decoded, in either direction.           *)
Pnet(d, chunk) ==
    IF mode.level = "stream" \/ (pnet.cipher[d] /\ ~pnet.skip) THEN [pnet |-> pnet, rest |-> chunk]
    ELSE IF pnet.skip THEN [pnet |-> pnet, rest |-> <<>>]
    ELSE IF Len(chunk) < 2 THEN [pnet |-> [pnet EXCEPT !.skip = TRUE], rest |-> <<>>]
    ELSE [pnet |-> [pnet EXCEPT !.cipher[d] = TRUE], rest |-> SubSeq(chunk, 3, Len(chunk))]

(* multistream_select::State::on_data creates the inner state for the name *)
(* of the first side that goes on.                                         *)
OnData(d) ==
    /\ \E n \in 1 .. 2 * Len(sent[d]) - at[d] :
         LET chunk == [k \in 1 .. n |-> Piece(d, at[d] + k)]
             p == Pnet(d, chunk)
             r == Poll(sel, d, p.rest)
         IN  /\ at' = [at EXCEPT ![d] = @ + n]
             /\ pnet' = p.pnet
             /\ IF p.rest = <<>> THEN UNCHANGED <<sel, inner, noise, stream, got>>
                ELSE /\ sel' = r.s
                     /\ inner' = IF inner = None THEN r.agreed ELSE inner
                     /\ got' = [got EXCEPT ![d] = @ \o r.payload]
                     /\ noise' = IF mode.level = "stream" \/ r.agreed = None THEN noise
                                 ELSE NoiseOnData(noise, d, r.payload, mode.keys)
                     /\ stream' = IF mode.level = "connection" \/ r.agreed = None THEN stream
                                  ELSE MinaOnData(stream, d, r.payload)
    /\ UNCHANGED <<mode, sent>>

Next == \E d \in Dirs : Send(d) \/ OnData(d)

Spec == Init /\ [][Next]_vars

-----------------------------------------------------------------------------
(* Properties *)

PayloadSeen(d) ==
    SelectSeq([k \in 1 .. at[d] |-> Piece(d, k)], LAMBDA p : p.token.kind = "payload")

(* However the chunks are cut and interleaved, the negotiation's tokens    *)
(* are read as tokens and everything behind them, and nothing else, goes   *)
(* to the inner state, in order and all of it but what was glued to the    *)
(* last token, which waits for the next chunk.                             *)
PayloadKept ==
    ~pnet.skip =>
        /\ ~sel.misread
        /\ \A d \in Dirs :
              PayloadSeen(d) = got[d] \o SelectSeq(sel.acc[d], LAMBDA p : p.token.kind = "payload")

(* The inner state is created for the protocol the ends agreed on, never   *)
(* for one that was refused or offered before the tie was broken.          *)
InnerIsAgreed == inner \in {None, Good}

(* With the keys found every message is decrypted: the machine meets the   *)
(* three messages of the handshake in their order, knows who sent the      *)
(* first, and uses the right cipher for each direction.                    *)
DecryptsAll ==
    mode.keys = {"ephemeral", "static"} /\ ~pnet.skip /\ mode.level = "connection" =>
        /\ ~noise.error
        /\ noise.decrypted = Len(got["in"]) \div 2 + Len(got["out"]) \div 2

From(t) == IF t.val.from = "i" THEN mode.dialer ELSE Other(mode.dialer)
Worth(tokens, d) == SelectSeq(tokens, LAMBDA t : t.kind = "payload" /\ ~Silent(t) /\ From(t) = d)
Completed(pieces) == [i \in DOMAIN SelectSeq(pieces, LAMBDA p : p.last) |->
                         SelectSeq(pieces, LAMBDA p : p.last)[i].token]

(* Every query, response and gossip message that has come whole is stored, *)
(* once and in the order of its direction, or is next in the accumulator,  *)
(* unless the directions cut into each other's messages.  A response is    *)
(* only taken for one nobody asked for if the dialer did not wait for the  *)
(* end of the negotiation, so that its query may still be glued to it.     *)
StoredInOrder ==
    mode.level = "stream" /\ ~stream.spliced =>
        /\ stream.unasked # {} => mode.open = "lazy"
        /\ \A d \in Dirs :
            SelectSeq(Worth(Completed(got[d]), d), LAMBDA t : t \notin stream.unasked) =
                Worth([i \in DOMAIN stream.stored |-> stream.stored[i].token], d)
                \o Worth(Completed(stream.acc), d)

(* A message is stored with its own direction, unless one that is not      *)
(* stored went before it: then it may wait for a chunk of the other side.  *)
DirectionIsRight ==
    \A s \in Range(stream.stored) :
        \/ s.dir = From(s.token)
        \/ LET mine == sent[From(s.token)] IN
           \E i, j \in DOMAIN mine :
                i < j /\ mine[j] = s.token /\ mine[i].kind = "payload" /\ Silent(mine[i])
=============================================================================
