----------------------------- MODULE KvServerMC -----------------------------
(***************************************************************************)
(* Instances of KvServer for TLC.                                          *)
(***************************************************************************)
EXTENDS KvServer, TLC

CONSTANTS n1, n2, n3, k1, k2

(***************************************************************************)
(* In production every server is a process of its own.                     *)
(***************************************************************************)
OwnProcess == [n \in Nodes |-> n]

OneShard == [k \in Keys |-> 1]

TwoShards == [k \in Keys |-> IF k = k2 THEN 2 ELSE 1]

(***************************************************************************)
(* One shard: on one node, on both, on the other, on none.                 *)
(***************************************************************************)
On(S) == [s \in Shards |-> S]

OnN1 == On({n1})

MoveOne == {On({n1}), On({n1, n2}), On({n2}), On({})}

(***************************************************************************)
(* Two shards that two nodes swap.                                         *)
(***************************************************************************)
SwapFirst == [s \in Shards |-> IF s = 1 THEN {n1} ELSE {n2}]

Swap == {SwapFirst, On({n1, n2}),
         [s \in Shards |-> IF s = 1 THEN {n2} ELSE {n1}]}
=============================================================================
