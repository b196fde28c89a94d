----------------------------- MODULE ShardMapMC -----------------------------
(***************************************************************************)
(* ShardMap for TLC.                                                       *)
(***************************************************************************)
EXTENDS ShardMap

(***************************************************************************)
(* A node is added to the map by its first change.                         *)
(***************************************************************************)
AllFromOne(s) == IF s = 0 THEN {} ELSE Servers
=============================================================================
