---------------------------- MODULE MoveShardMC -----------------------------
(***************************************************************************)
(* Instances of MoveShard for TLC.                                         *)
(***************************************************************************)
EXTENDS MoveShard, TLC

CONSTANTS n1, n2, n3, k1, k2

OneProcess == [n \in Nodes |-> "test"]

KeyShard == [k \in Keys |-> IF k = k2 /\ 2 \in Shards THEN 2 ELSE 1]

(***************************************************************************)
(* One shard on one node, or two shards on a node each.                    *)
(***************************************************************************)
First == [s \in Shards |-> IF s = 1 THEN {n1} ELSE {n2}]

OnlyFirst == {First}

(***************************************************************************)
(* Two shards swap their nodes in one batch; a shard gets two replicas at  *)
(* once, and keeps its first one or not.                                   *)
(***************************************************************************)
SwapAtOnce ==
  <<[s \in Shards |-> {n1, n2}],
    [s \in Shards |-> IF s = 1 THEN {n2} ELSE {n1}]>>

AddTwo(rest) ==
  <<[First EXCEPT ![1] = {n1, n2, n3}], [First EXCEPT ![1] = rest]>>

ByHand == {SwapAtOnce, AddTwo({n1, n2}), AddTwo({n2, n3})}
=============================================================================
