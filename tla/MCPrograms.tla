----------------------------- MODULE MCPrograms -----------------------------
(***************************************************************************)
(* Six plans for two pids.  A node alone, with a block, its repeat and a   *)
(* new block of one height; a node whose messages have no height, cannot   *)
(* be decoded, or are no messages; two nodes that use one subscription     *)
(* number for two topics; two nodes one after the other on one pid; snark  *)
(* workers before and after a node; a tool between two nodes.              *)
(***************************************************************************)
EXTENDS Programs, TLC

CONSTANTS p1, p2, a, b

Block(i, h) == [id |-> i, kind |-> "block", height |-> h]
Test(i, h) == [id |-> i, kind |-> "test", height |-> h]
Tx(i) == [id |-> i, kind |-> "tx", height |-> 0]
Junk(i) == [id |-> i, kind |-> "junk", height |-> 0]

In(m) == [incoming |-> TRUE, msg |-> m]
Out(m) == [incoming |-> FALSE, msg |-> m]
Subscribe(i, t) == In([t |-> "subscribe", id |-> i, topic |-> t])
Publish(x, t) == In([t |-> "publish", pay |-> x, topic |-> t])
Gossip(x, i) == Out([t |-> "gossip", pay |-> x, id |-> i])
Other == Out([t |-> "other"])
Bad == Out([t |-> "bad"])

Node(name, script) == [snark |-> FALSE, named |-> TRUE, alias |-> name, script |-> script]
Snark == [snark |-> TRUE, named |-> TRUE, alias |-> b, script |-> <<Other>>]
Tool == [snark |-> FALSE, named |-> FALSE, alias |-> Unknown, script |-> <<Other, Bad>>]
X == Block("x", 1)
Y == Test("y", 1)
Z == Block("z", 2)

On(s1, s2) == (p1 :> s1) @@ (p2 :> s2)
MCPlans == {
    On(<<Node(a, <<Subscribe(1, "tx"), Gossip(X, 1), Gossip(X, 1), Gossip(Y, 2)>>)>>, <<>>),
    On(<<Node(a, <<Publish(Y, "coda"), Gossip(Tx("t"), 1), Gossip(Junk("j"), 1),
                   Gossip(Z, 1), Gossip(X, 1), Bad>>)>>, <<>>),
    On(<<Node(a, <<Subscribe(1, "tx"), Gossip(X, 1)>>)>>,
       <<Node(b, <<Subscribe(1, "block"), Gossip(X, 1), Gossip(X, 1)>>)>>),
    On(<<Node(a, <<Gossip(X, 1), Gossip(X, 1)>>), Node(b, <<Gossip(X, 1), Gossip(Y, 1)>>)>>, <<>>),
    On(<<Snark, Node(a, <<Gossip(X, 1)>>), Snark>>, <<Node(b, <<Gossip(Z, 1)>>)>>),
    On(<<Node(a, <<Gossip(X, 1)>>), Tool, Node(b, <<Gossip(X, 1)>>)>>, <<>>)}

MCPids == {p1, p2}
=============================================================================
