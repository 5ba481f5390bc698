--------------------------- MODULE MCPropagation ----------------------------
(* Two nodes and three blocks, two of them of one height. *)
EXTENDS Propagation, TLC

CONSTANTS n1, n2, d1, d2, h1, h2, h3, t1, t2

MCBlocks ==
    {[hash |-> h1, height |-> 1, txs |-> {t1}],
     [hash |-> h2, height |-> 1, txs |-> {t1, t2}],
     [hash |-> h3, height |-> 2, txs |-> {t2}]}

MCKeys == {[alias |-> d, node |-> n] : d \in {d1, d2}, n \in {n1, n2}}

B(hash) == [kind |-> "block", block |-> CHOOSE b \in MCBlocks : b.hash = hash]
T(t) == [kind |-> "tx", tx |-> t]
C(hash) == [kind |-> "control", hash |-> hash]
Test(h) == [kind |-> "test", height |-> h]

(* One recorder: all kinds of gossip, forks and times out of order. *)
Alone ==
    [host |-> n1 :> d1, aggregator |-> FALSE, limit |-> 4, skew |-> 1, faults |-> 1,
     directions |-> {TRUE},
     msgs |-> {<<B(h1)>>, <<B(h2)>>, <<B(h3)>>, <<T(t1)>>, <<T(t2), B(h2)>>,
               <<B(h2), C(h1)>>, <<C(h1)>>, <<Test(2)>>}]

(* Two nodes of one debugger share its tables. *)
Shared ==
    [host |-> n1 :> d1 @@ n2 :> d1, aggregator |-> FALSE, limit |-> 3, skew |-> 0, faults |-> 1,
     directions |-> {TRUE},
     msgs |-> {<<B(h1)>>, <<B(h3)>>, <<T(t1)>>, <<>>}]

(* Two recorders post to the aggregator. *)
Posting ==
    [host |-> n1 :> d1 @@ n2 :> d2, aggregator |-> TRUE, limit |-> 3, skew |-> 0, faults |-> 1,
     directions |-> BOOLEAN,
     msgs |-> {<<B(h1)>>, <<B(h3)>>}]

(* One recorder whose requests may be handled late. *)
Late ==
    [host |-> n1 :> d1, aggregator |-> TRUE, limit |-> 3, skew |-> 0, faults |-> 1,
     directions |-> BOOLEAN,
     msgs |-> {<<B(h1)>>, <<B(h2), C(h1)>>, <<B(h3)>>}]

WorkerSymmetry == Permutations(Workers)

MCScenarios == {Alone, Shared, Posting, Late}
=============================================================================
