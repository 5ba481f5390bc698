-------------------------------- MODULE Noise -------------------------------
(***************************************************************************)
(* The decryption of a connection, mina-recorder/src/connection/noise.rs:  *)
(* ChunkState puts length-prefixed messages together, NoiseState follows   *)
(* the three messages of the handshake with the keys found in the          *)
(* randomness of the program, then decrypts each direction with a cipher   *)
(* of its own that counts its messages.                                    *)
(*                                                                         *)
(* A message is the val of a payload token: [msg, from, no, early], with   *)
(* msg one of "first", "second", "third", "data"; from, the end that       *)
(* encrypted it ("i" or "r"); no, how many data messages of that end came  *)
(* before it; early, whether a handshake message carries multiplexer       *)
(* names.                                                                  *)
(***************************************************************************)
EXTENDS Integers, Sequences, SequencesExt

NoiseInit ==
    [acc |-> [d \in {"in", "out"} |-> <<>>],    \* of ChunkState
     machine |-> "none", initiator |-> "none", error |-> FALSE,
     rx |-> [i |-> 0, r |-> 0],                  \* messages each receiver decrypted
     proposed |-> "none",                        \* mux_proposed: the direction it came in
     decrypted |-> 0, failed |-> 0,
     out |-> <<>>]                               \* given to the inner state: [dir, val]

(* on_error; the machine was taken and is not put back. *)
OnError(n) == [n EXCEPT !.error = TRUE, !.machine = "none", !.failed = @ + 1]
OnDecrypted(n, machine) == [n EXCEPT !.machine = machine, !.decrypted = @ + 1]

(* Mutant of Receiver: the receiver is chosen by the direction alone. *)
ReceiverByDirection(n, d) == IF d = "in" THEN "i" ELSE "r"

(* The receiver for a direction. *)
Receiver(n, d) == IF d = n.initiator THEN "i" ELSE "r"

(* The secrets of the recorded program ("out") that the shared secrets of  *)
(* a message take: try_dh finds the secret of either of two public keys.   *)
SecondNeeds(n) == IF n.initiator = "out" THEN {"ephemeral"} ELSE {"ephemeral", "static"}
ThirdNeeds(n) == IF n.initiator = "out" THEN {"static"} ELSE {"ephemeral"}

(* on_data_ and what on_data does with the result. *)
OnFirst(n, d, m) ==
    IF m.msg # "first" THEN OnError([n EXCEPT !.initiator = d])     \* not 34 bytes
    ELSE OnDecrypted([n EXCEPT !.initiator = d], "first")
OnSecond(n, d, m, keys) ==
    IF m.msg # "second" \/ ~(SecondNeeds(n) \subseteq keys) THEN OnError(n)
    ELSE OnDecrypted([n EXCEPT !.proposed = IF m.early THEN d ELSE @], "second")
OnThird(n, d, m, keys) ==
    IF m.msg # "third" \/ ~(ThirdNeeds(n) \subseteq keys) THEN OnError(n)
    ELSE IF m.early /\ n.proposed # "none"
    THEN OnDecrypted([n EXCEPT !.proposed = "none",
                               !.out = @ \o <<[dir |-> n.proposed, val |-> "names"],
                                              [dir |-> d, val |-> "names"]>>], "transport")
    ELSE OnDecrypted(n, "transport")
OnTransport(n, d, m) ==
    LET c == Receiver(n, d)
    IN  IF m.msg # "data" \/ m.from # c \/ m.no # n.rx[c] THEN OnError(n)
        ELSE OnDecrypted([n EXCEPT !.rx[c] = @ + 1,
                                   !.out = Append(@, [dir |-> d, val |-> m.no])], "transport")

NoiseMessage(n, d, m, keys) ==
    CASE n.error -> [n EXCEPT !.failed = @ + 1]
      [] ~n.error /\ n.machine = "none" -> OnFirst(n, d, m)
      [] ~n.error /\ n.machine = "first" -> OnSecond(n, d, m, keys)
      [] ~n.error /\ n.machine = "second" -> OnThird(n, d, m, keys)
      [] ~n.error /\ n.machine = "transport" -> OnTransport(n, d, m)

(* ChunkState::on_data: every whole message, in a loop or at once. *)
NoiseOnData(n, d, pieces, keys) ==
    LET all == n.acc[d] \o pieces
        whole == Len(all) \div 2
        rest == [n EXCEPT !.acc[d] = SubSeq(all, 2 * whole + 1, Len(all))]
    IN  FoldLeft(LAMBDA x, i : NoiseMessage(x, d, all[2 * i].token.val, keys),
                 rest, [i \in 1 .. whole |-> i])
=============================================================================
