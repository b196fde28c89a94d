----------------------------- MODULE KvClientMC -----------------------------
(***************************************************************************)
(* Instances of KvClient for TLC.                                          *)
(***************************************************************************)
EXTENDS KvClient, TLC

CONSTANTS n1, n2, c1, c2, k1

OwnProcess == [n \in Nodes |-> n]

OneShard == [k \in Keys |-> 1]

OnN1   == [s \in Shards |-> {n1}]

OnBoth == [s \in Shards |-> {n1, n2}]

(***************************************************************************)
(* A map that stays as it is, and one that gets a replica.                 *)
(***************************************************************************)
Static == {OnBoth}

AddsReplica == {OnN1, OnBoth}

CallerSymmetry == Permutations(Callers)
=============================================================================
