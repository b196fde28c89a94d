-------------------------- MODULE RaftReplicationMC -------------------------
(***************************************************************************)
(* RaftReplication for TLC.                                                *)
(***************************************************************************)
EXTENDS RaftReplication, TLC

Peers == Permutations(Candidates) \cup Permutations(Server \ Candidates)

(***************************************************************************)
(* A server that does not lead does not read nextIndex and matchIndex, and *)
(* an election sets them.                                                  *)
(***************************************************************************)
Observed ==
  <<serverVars, commitVars, msgs, crashes,
    [s \in {s \in Server : role[s] = "Leader"} |->
       <<nextIndex[s], matchIndex[s]>>]>>

(***************************************************************************)
(* The part of the behaviours in which two leaders start a command that    *)
(* reaches nobody, the third one commits, and there is a fourth: what      *)
(* TestFigure83C tries to provoke by crashing leaders soon after Start.    *)
(***************************************************************************)
LeadersReachNobodyAtFirst ==
  LET t == Max({currentTerm[s] : s \in Server})
  IN /\ t < 3 => msgs = {} /\ \A s \in Server : LastIndex(s) <= 1
     /\ t = 3 => \A u \in {1, 2} : \E s \in Server :
                  LastIndex(s) >= 1 /\ TermAt(s, 1) = u
     /\ t = 4 => \E s \in Server : logs[s] # <<>>
     /\ \A m \in msgs : m.term = t
=============================================================================
