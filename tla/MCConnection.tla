---------------------------- MODULE MCConnection ----------------------------
(* Every way to open, from either end, with one offer or two; either end   *)
(* may open one stream.                                                    *)
EXTENDS Connection
AllKeys == {"ephemeral", "static"}
MCModes ==
    [level : {"connection"}, proto : {"/noise"}, dialer : {"in", "out"},
     open : {"plain", "sc", "simultaneous"}, offers : {1, 2},
     keys : {AllKeys, {}, {"ephemeral"}}, early : BOOLEAN]
    \cup [level : {"stream"}, proto : {"/rpc", "/meshsub"}, dialer : {"in", "out"},
          open : {"plain", "lazy"}, offers : {1, 2}, keys : {AllKeys}, early : {FALSE}]
MCNums == {1}
MCOdd == {1}
MCEven == {2}
=============================================================================
