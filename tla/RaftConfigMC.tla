---------------------------- MODULE RaftConfigMC ----------------------------
(***************************************************************************)
(* RaftConfig for TLC.                                                     *)
(***************************************************************************)
EXTENDS RaftConfig

NamesMC == 1..N
InstancesMC == NamesMC \X (1..MaxGen)
EndsMC == NamesMC \X (1..MaxGen) \X NamesMC
=============================================================================
