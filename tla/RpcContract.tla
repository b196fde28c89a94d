---------------------------- MODULE RpcContract -----------------------------
(***************************************************************************)
(* What ClientEnd.Call of labrpc promises its caller (the comment at the   *)
(* head of lab3/labrpc/labrpc.go): a call returns true only if the server  *)
(* has executed the request.  A request is executed at most once, and may  *)
(* be executed though, or even after, the call has returned false.         *)
(***************************************************************************)
CONSTANT Calls

VARIABLES
  phase,       \* where a call is: idle, called, ok (true), failed (false)
  executed     \* the calls whose handler has run

contractVars == <<phase, executed>>

ContractInit ==
  /\ phase = [c \in Calls |-> "idle"]
  /\ executed = {}

Begin(c) ==
  /\ phase[c] = "idle"
  /\ phase' = [phase EXCEPT ![c] = "called"]
  /\ UNCHANGED executed

Run(c) ==
  /\ phase[c] # "idle"
  /\ c \notin executed
  /\ executed' = executed \cup {c}
  /\ UNCHANGED phase

Succeed(c) ==
  /\ phase[c] = "called"
  /\ c \in executed
  /\ phase' = [phase EXCEPT ![c] = "ok"]
  /\ UNCHANGED executed

Fail(c) ==
  /\ phase[c] = "called"
  /\ phase' = [phase EXCEPT ![c] = "failed"]
  /\ UNCHANGED executed

ContractNext ==
  \E c \in Calls : Begin(c) \/ Run(c) \/ Succeed(c) \/ Fail(c)

ContractSpec == ContractInit /\ [][ContractNext]_contractVars
=============================================================================
