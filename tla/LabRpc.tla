------------------------------- MODULE LabRpc -------------------------------
(***************************************************************************)
(* The simulated network of lab 3 (lab3/labrpc/labrpc.go): client ends     *)
(* that are connected to named servers, and calls that the network may     *)
(* drop, delay and reorder, to servers that may be deleted and replaced    *)
(* while they handle them.                                                 *)
(*                                                                         *)
(* A call is followed through the goroutines that serve it: the caller,    *)
(* the network's one receiver, processReq, the handler's own goroutine and *)
(* the timer of a delayed answer.  rn.mu is held in readEndnameInfo and    *)
(* isServerDead only, each one step here.  Times are left out: a sleep     *)
(* ends at some time.  What is encoded and decoded comes out as it went    *)
(* in, so a call is known by its name.                                     *)
(***************************************************************************)
CONSTANTS
  Ends,        \* names of client ends
  Names,       \* names of servers
  Instances,   \* the Server objects that are ever registered
  Calls,       \* calls that are ever made
  Stuck,       \* the calls whose handler need not return
  None

ASSUME LabRpcAssumption ==
  None \notin Names \cup Instances \cup Ends /\ Stuck \subseteq Calls

VARIABLES
  enabled,         \* Network.enabled: the ends that are
  connections,     \* Network.connections
  servers,         \* Network.servers
  reliable,        \* Network.reliable
  longReordering,  \* Network.longReordering
  done,            \* Network.done has been closed
  receiving,       \* the goroutine that MakeNetwork starts still runs
  call             \* what is known of a call, see NoCall

netVars == <<enabled, connections, servers, reliable, longReordering, done,
             receiving>>
rpcVars == <<netVars, call>>

(***************************************************************************)
(* "st" is where the call is; "end" the end it was made on; srv, inst, rel *)
(* and reord what readEndnameInfo found; "h" the handler's goroutine.      *)
(***************************************************************************)
States == {"idle", "sending", "taken", "timeout", "dispatch", "waiting",
           "replied", "delayed", "ok", "failed"}

NoCall == [st |-> "idle", end |-> None, srv |-> None, inst |-> None,
           rel |-> TRUE, reord |-> FALSE, h |-> "none"]

Returned(c) == call[c].st \in {"ok", "failed"}

Goto(c, st) == call' = [call EXCEPT ![c].st = st]

-----------------------------------------------------------------------------
(***************************************************************************)
(* ClientEnd.Call: the request is handed to the network's receiver, unless *)
(* the network has been destroyed.                                         *)
(***************************************************************************)
Call(c, e) ==
  /\ call[c].st = "idle"
  /\ call' = [call EXCEPT ![c].st = "sending", ![c].end = e]
  /\ UNCHANGED netVars

Abort(c) ==
  /\ call[c].st = "sending"
  /\ done
  /\ Goto(c, "failed")
  /\ UNCHANGED netVars

(***************************************************************************)
(* The receiver takes a request and starts a processReq for it, or ends.   *)
(***************************************************************************)
Take(c) ==
  /\ call[c].st = "sending"
  /\ receiving
  /\ Goto(c, "taken")
  /\ UNCHANGED netVars

StopReceiving ==
  /\ receiving /\ done
  /\ receiving' = FALSE
  /\ UNCHANGED <<enabled, connections, servers, reliable, longReordering,
                 done, call>>

(***************************************************************************)
(* processReq reads what it needs to know of the end, once.                *)
(***************************************************************************)
Reachable(e) ==
  e \in enabled /\ connections[e] # None /\ servers[connections[e]] # None

ReadEndnameInfo(c) ==
  LET e == call[c].end
  IN /\ call[c].st = "taken"
     /\ IF Reachable(e)
        THEN call' = [call EXCEPT ![c].st = "dispatch",
                                  ![c].srv = connections[e],
                                  ![c].inst = servers[connections[e]],
                                  ![c].rel = reliable,
                                  ![c].reord = longReordering]
        ELSE Goto(c, "timeout")
     /\ UNCHANGED netVars

(***************************************************************************)
(* A request that cannot be delivered, and one that the network drops.     *)
(***************************************************************************)
NotDelivered(c) ==
  /\ \/ call[c].st = "timeout"
     \/ call[c].st = "dispatch" /\ ~call[c].rel
  /\ Goto(c, "failed")
  /\ UNCHANGED netVars

StartHandler(c) ==
  /\ call[c].st = "dispatch"
  /\ call' = [call EXCEPT ![c].st = "waiting", ![c].h = "run"]
  /\ UNCHANGED netVars

(***************************************************************************)
(* Server.dispatch and Service.dispatch: the method is called.             *)
(***************************************************************************)
Execute(c) ==
  /\ call[c].h = "run"
  /\ call' = [call EXCEPT ![c].h = "done"]
  /\ UNCHANGED netVars

(***************************************************************************)
(* processReq gets the handler's result, or finds while it waits that the  *)
(* server is gone (a goroutine then drains the result).                    *)
(***************************************************************************)
IsUnregistered(c) ==       \* mutant: a server that was replaced is alive
  call[c].end \notin enabled \/ servers[call[c].srv] = None

IsServerDead(c) ==
  call[c].end \notin enabled \/ servers[call[c].srv] # call[c].inst

GetReply(c) ==
  /\ call[c].st = "waiting"
  /\ call[c].h = "done"
  /\ Goto(c, "replied")
  /\ UNCHANGED netVars

LookOnce(c) ==             \* mutant: looks when the handler has returned
  /\ call[c].st = "waiting"
  /\ call[c].h = "done"
  /\ IsServerDead(c)
  /\ Goto(c, "failed")
  /\ UNCHANGED netVars

LookAgain(c) ==            \* mutant: only the second look counts
  /\ call[c].st = "waiting"
  /\ IsServerDead(c)
  /\ Goto(c, "replied")
  /\ UNCHANGED netVars

FindDead(c) ==
  /\ call[c].st = "waiting"
  /\ IsServerDead(c)
  /\ Goto(c, "failed")
  /\ UNCHANGED netVars

(***************************************************************************)
(* processReq answers: it looks again whether the server is dead, may drop *)
(* the answer, and may leave it to a timer.                                *)
(***************************************************************************)
Answer(c) ==
  /\ call[c].st = "replied"
  /\ \/ IsServerDead(c) /\ Goto(c, "failed")
     \/ ~IsServerDead(c) /\ ~call[c].rel /\ Goto(c, "failed")
     \/ ~IsServerDead(c) /\ call[c].reord /\ Goto(c, "delayed")
     \/ ~IsServerDead(c) /\ Goto(c, "ok")
  /\ UNCHANGED netVars

DelayedAnswer(c) ==
  /\ call[c].st = "delayed"
  /\ Goto(c, "ok")
  /\ UNCHANGED netVars

-----------------------------------------------------------------------------
(***************************************************************************)
(* The operations of whoever runs the network.  MakeEnd makes an end that  *)
(* is neither connected nor enabled: as if it were always there.           *)
(***************************************************************************)
Enable(e, yes) ==
  /\ enabled' = IF yes THEN enabled \cup {e} ELSE enabled \ {e}
  /\ UNCHANGED <<connections, servers, reliable, longReordering, done,
                 receiving, call>>

Connect(e, s) ==
  /\ connections' = [connections EXCEPT ![e] = s]
  /\ UNCHANGED <<enabled, servers, reliable, longReordering, done, receiving,
                 call>>

AddServer(s, i) ==
  /\ servers' = [servers EXCEPT ![s] = i]
  /\ UNCHANGED <<enabled, connections, reliable, longReordering, done,
                 receiving, call>>

DeleteServer(s) ==
  /\ servers' = [servers EXCEPT ![s] = None]
  /\ UNCHANGED <<enabled, connections, reliable, longReordering, done,
                 receiving, call>>

Configure(rel, reord) ==
  /\ reliable' = rel
  /\ longReordering' = reord
  /\ UNCHANGED <<enabled, connections, servers, done, receiving, call>>

Cleanup ==
  /\ ~done
  /\ done' = TRUE
  /\ UNCHANGED <<enabled, connections, servers, reliable, longReordering,
                 receiving, call>>

-----------------------------------------------------------------------------
MakeNetwork ==
  /\ enabled = {}
  /\ connections = [e \in Ends |-> None]
  /\ servers = [s \in Names |-> None]
  /\ reliable = TRUE
  /\ longReordering = FALSE
  /\ done = FALSE
  /\ receiving = TRUE
  /\ call = [c \in Calls |-> NoCall]

(***************************************************************************)
(* The steps the network takes of itself once a call has been made.        *)
(***************************************************************************)
Deliver(c) ==
  \/ Abort(c) \/ Take(c) \/ ReadEndnameInfo(c) \/ NotDelivered(c)
  \/ StartHandler(c) \/ GetReply(c) \/ FindDead(c) \/ Answer(c)
  \/ DelayedAnswer(c)

Administer ==
  \/ \E e \in Ends, yes \in BOOLEAN : Enable(e, yes)
  \/ \E e \in Ends, s \in Names : Connect(e, s)
  \/ \E s \in Names : DeleteServer(s) \/ \E i \in Instances : AddServer(s, i)
  \/ \E rel, reord \in BOOLEAN : Configure(rel, reord)
  \/ Cleanup

RpcNext ==
  \/ \E c \in Calls : Deliver(c) \/ Execute(c) \/ \E e \in Ends : Call(c, e)
  \/ StopReceiving
  \/ Administer

RpcSpec == MakeNetwork /\ [][RpcNext]_rpcVars

(***************************************************************************)
(* Goroutines run on, sleeps end, handlers that are not stuck return.      *)
(***************************************************************************)
RpcFairness ==
  /\ \A c \in Calls : WF_rpcVars(Deliver(c))
  /\ \A c \in Calls \ Stuck : WF_rpcVars(Execute(c))

-----------------------------------------------------------------------------
(***************************************************************************)
(* A call as the contract sees it.                                         *)
(***************************************************************************)
Phase(st) == CASE st = "idle"   -> "idle"
               [] st = "ok"     -> "ok"
               [] st = "failed" -> "failed"
               [] OTHER         -> "called"

Contract == INSTANCE RpcContract WITH
  phase <- [c \in Calls |-> Phase(call[c].st)],
  executed <- {c \in Calls : call[c].h = "done"}

(***************************************************************************)
(* labrpc.go: "Call() returns true to indicate that the server executed    *)
(* the request and the reply is valid": through drops, delays, dead        *)
(* servers and the end of the network, Call keeps its contract.            *)
(***************************************************************************)
CallKeepsContract == Contract!ContractSpec

(***************************************************************************)
(* labrpc.go: "Call() is guaranteed to return (perhaps after a delay)      *)
(* *except* if the handler function on the server side does not return."   *)
(* And even then it returns once the server has been deleted or replaced.  *)
(***************************************************************************)
CallReturns ==
  \A c \in Calls :
    /\ c \notin Stuck => (call[c].st = "sending" ~> Returned(c))
    /\ call[c].st = "waiting" /\ servers[call[c].srv] # call[c].inst
         ~> Returned(c)
=============================================================================
