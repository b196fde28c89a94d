----------------------------- MODULE VideoRecMC -----------------------------
(***************************************************************************)
(* VideoRecDial for TLC: a user who subscribes to two others (one twice),  *)
(* who like a video in common, one a video twice, and one who asks without *)
(* a limit.  Two videos rank the same where the limit cuts.  The user      *)
(* service starts out as one that may fail; it may be repaired, or the     *)
(* video service may begin to fail.                                        *)
(***************************************************************************)
EXTENDS VideoRecDial

TheUsers == 1..3
TheVideos == 1..4
TheSubscriptions == <<<<2, 3, 2>>, <<1>>, <<>>>>
TheLikes == <<<<4>>, <<1, 2>>, <<3, 3, 2>>>>
TheRank(u, v) == (v + 1) \div 2
TheTrend == <<2, 4, 1>>
Reliable == [fail |-> 0, omit |-> 0]
Unreliable == [fail |-> 2, omit |-> 2]
TheConfigs == {Reliable, Unreliable}
TheOptions ==
  {[s \in Services |-> IF s = "user" THEN Unreliable ELSE Reliable]}

CONSTANTS q1, q2
TheRequests == {q1, q2}
TheCalls == [q \in TheRequests |->
  IF q = q1 THEN {[user |-> 1, limit |-> 2]} ELSE {[user |-> 2, limit |-> 0]}]
=============================================================================
