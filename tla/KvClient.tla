------------------------------ MODULE KvClient ------------------------------
(***************************************************************************)
(* The client of the key-value cache, Kv (lab4/kv/client.go), over the     *)
(* servers of KvServer.                                                    *)
(*                                                                         *)
(* The goroutines of the client's process call Get, Set and Delete of one  *)
(* Kv.  Each of them holds kv.mu from start to end: it reads the nodes of  *)
(* the key's shard from the process's own shard map, then Set and Delete   *)
(* ask all of them at once and report an error if any one fails, and Get   *)
(* asks one after the other until one answers.                             *)
(*                                                                         *)
(* A request may be lost, its answer may be lost, and the context a caller *)
(* passes for an operation in Deadlines may end while the request is under *)
(* way: the server then handles it later, or never.                        *)
(***************************************************************************)
EXTENDS KvServer

CONSTANTS
  Callers,     \* the goroutines that use the Kv
  Fragile,     \* the processes that may crash and start again
  Deadlines,   \* the operations whose context may end before the answer
  Unknown,     \* the last write may or may not have reached a replica
  MaxCalls     \* bound: calls of Get, Set and Delete

Ops == {"get", "set", "delete"}

ASSUME KvClientAssumption ==
  /\ Fragile \subseteq Procs
  /\ Deadlines \subseteq Ops
  /\ None \notin Callers
  /\ Unknown # None
  /\ MaxCalls \in Nat

VARIABLES
  clientMap,   \* ShardMap.state of the client's process
  kvMu,        \* who holds kv.mu
  call,        \* the call a goroutine is in
  late,        \* requests under way that nobody waits for
  last,        \* history: the last write to a key and when it may expire
  ncalls       \* how many calls were made

clientVars == <<clientMap, kvMu, call, late, last, ncalls>>
allVars == <<vars, clientVars>>

(***************************************************************************)
(* A call: "pc" is idle, lock (waits for kv.mu), rpc or done; "todo" the   *)
(* nodes that have not answered; "since" when it got kv.mu; "want" is      *)
(* history, what was last written when it did.                             *)
(***************************************************************************)
NoCall == [pc |-> "idle", op |-> "get", key |-> EmptyKey, val |-> None,
           ttl |-> 0, todo |-> {}, err |-> FALSE, found |-> None,
           since |-> 0, want |-> [val |-> None, by |-> 0]]

NeverSet == [val |-> None, by |-> 0]

ClientInit ==
  /\ Init
  /\ clientMap = FirstMap
  /\ kvMu = None
  /\ call = [c \in Callers |-> NoCall]
  /\ late = {}
  /\ last = [k \in Keys |-> NeverSet]
  /\ ncalls = 0

-----------------------------------------------------------------------------
(***************************************************************************)
(* A goroutine calls Get, Set or Delete.                                   *)
(***************************************************************************)
Call(c, op, k, v, ttl) ==
  /\ call[c].pc = "idle"
  /\ ncalls < MaxCalls
  /\ ncalls' = ncalls + 1
  /\ call' = [call EXCEPT ![c] = [NoCall EXCEPT !.pc = "lock", !.op = op,
                                  !.key = k, !.val = v, !.ttl = ttl]]
  /\ UNCHANGED <<vars, clientMap, kvMu, late, last>>

(***************************************************************************)
(* It gets kv.mu and reads the nodes; without nodes it returns an error.   *)
(***************************************************************************)
NoLock(c) ==                  \* mutant: calls of a Kv are not serialised
  LET k     == call[c].key
      nodes == clientMap[ShardOf[k]]
  IN /\ call[c].pc = "lock"
     /\ nodes # {}
     /\ call' = [call EXCEPT ![c].pc = "rpc", ![c].todo = nodes,
                             ![c].since = now, ![c].want = last[k]]
     /\ last' = IF call[c].op = "get" THEN last
                ELSE [last EXCEPT ![k] = [val |-> Unknown, by |-> 0]]
     /\ UNCHANGED <<vars, clientMap, kvMu, late, ncalls>>

Lock(c) ==
  LET k     == call[c].key
      nodes == clientMap[ShardOf[k]]
  IN /\ call[c].pc = "lock"
     /\ kvMu = None
     /\ IF nodes = {}
        THEN /\ call' = [call EXCEPT ![c].pc = "done", ![c].err = TRUE]
             /\ UNCHANGED <<kvMu, last>>
        ELSE /\ call' = [call EXCEPT ![c].pc = "rpc", ![c].todo = nodes,
                                     ![c].since = now, ![c].want = last[k]]
             /\ kvMu' = c
             /\ last' = IF call[c].op = "get" THEN last
                        ELSE [last EXCEPT ![k] = [val |-> Unknown, by |-> 0]]
     /\ UNCHANGED <<vars, clientMap, late, ncalls>>

(***************************************************************************)
(* The call of c after node n answered, well or not: a write waits for all *)
(* nodes and keeps any error, a Get is over with the first good answer.    *)
(***************************************************************************)
OneTry(c, n, ok, v) ==        \* mutant: Get asks one node only
  LET get == call[c].op = "get"
      r == [call[c] EXCEPT !.todo = IF get THEN {} ELSE @ \ {n},
                           !.found = v,
                           !.err = IF get THEN ~ok ELSE @ \/ ~ok]
  IN IF r.todo = {} THEN [r EXCEPT !.pc = "done"] ELSE r

LastAnswer(c, n, ok, v) ==    \* mutant: the last answer decides
  LET get == call[c].op = "get"
      r == [call[c] EXCEPT !.todo = IF get /\ ok THEN {} ELSE @ \ {n},
                           !.found = v, !.err = ~ok]
  IN IF r.todo = {} THEN [r EXCEPT !.pc = "done"] ELSE r

Answered(c, n, ok, v) ==
  LET get == call[c].op = "get"
      r == [call[c] EXCEPT !.todo = IF get /\ ok THEN {} ELSE @ \ {n},
                           !.found = v,
                           !.err = IF get THEN ~ok ELSE @ \/ ~ok]
  IN IF r.todo = {} THEN [r EXCEPT !.pc = "done"] ELSE r

(***************************************************************************)
(* The answer arrives; with the last one the call gives kv.mu back.        *)
(***************************************************************************)
Reply(c, n, ok, v) ==
  LET r == Answered(c, n, ok, v)
  IN /\ call' = [call EXCEPT ![c] = r]
     /\ kvMu' = IF r.pc = "done" THEN None ELSE kvMu
     /\ last' = IF r.pc # "done" \/ r.op = "get" \/ r.err THEN last
                ELSE [last EXCEPT ![r.key] =
                        IF r.op = "set"
                        THEN [val |-> r.val, by |-> r.since + r.ttl]
                        ELSE NeverSet]
     /\ UNCHANGED <<clientMap, ncalls>>

(***************************************************************************)
(* Node n handles a request of the kind "op": r is a call or a late one.   *)
(***************************************************************************)
Handle(n, r) ==
  /\ Serving(n)
  /\ mu[n] = "free"
  /\ \/ r.op = "get" /\ UNCHANGED vars
     \/ r.op # "get" /\ ~Accepts(n, r.key) /\ UNCHANGED vars
     \/ r.op = "set" /\ Set(n, r.key, r.val, r.ttl)
     \/ r.op = "delete" /\ Delete(n, r.key)

Asked(c, n) == call[c].pc = "rpc" /\ n \in call[c].todo

Value(n, k) == IF Found(n, k) THEN data[n][k].val ELSE None

(***************************************************************************)
(* An RPC to node n is handled and answered: with an error if the node     *)
(* does not host the shard or the key is empty.                            *)
(***************************************************************************)
Rpc_Ok(c, n) ==
  LET k == call[c].key
  IN /\ Asked(c, n)
     /\ Handle(n, call[c])
     /\ IF Accepts(n, k)
        THEN Reply(c, n, TRUE, IF call[c].op = "get" THEN Value(n, k)
                               ELSE None)
        ELSE Reply(c, n, FALSE, None)
     /\ UNCHANGED late

(***************************************************************************)
(* The node is not there, or the network loses the request.                *)
(***************************************************************************)
Rpc_Lost(c, n) ==
  /\ Asked(c, n)
  /\ Unreliable \/ ~Serving(n)
  /\ Reply(c, n, FALSE, None)
  /\ UNCHANGED <<vars, late>>

(***************************************************************************)
(* The node handles the request and the answer is lost.                    *)
(***************************************************************************)
Rpc_NoAnswer(c, n) ==
  /\ Asked(c, n)
  /\ Unreliable
  /\ call[c].op # "get"
  /\ Handle(n, call[c])
  /\ Reply(c, n, FALSE, None)
  /\ UNCHANGED late

(***************************************************************************)
(* The context ends, and the request is still under way (a Get, which      *)
(* changes nothing, need not be followed any further).                     *)
(***************************************************************************)
Rpc_TooLate(c, n) ==
  /\ Asked(c, n)
  /\ call[c].op \in Deadlines
  /\ Reply(c, n, FALSE, None)
  /\ late' = IF call[c].op = "get" THEN late
             ELSE late \cup {[node |-> n, op |-> call[c].op,
                              key |-> call[c].key, val |-> call[c].val,
                              ttl |-> call[c].ttl]}
  /\ UNCHANGED vars

LateRequest(r) ==
  /\ Handle(r.node, r)
  /\ late' = late \ {r}
  /\ UNCHANGED <<clientMap, kvMu, call, last, ncalls>>

(***************************************************************************)
(* The caller has its result.                                              *)
(***************************************************************************)
Return(c) ==
  /\ call[c].pc = "done"
  /\ call' = [call EXCEPT ![c] = NoCall]
  /\ UNCHANGED <<vars, clientMap, kvMu, late, last, ncalls>>

(***************************************************************************)
(* The client's process applies the file to its own shard map.             *)
(***************************************************************************)
ClientUpdate ==
  /\ clientMap # file
  /\ clientMap' = file
  /\ UNCHANGED <<vars, kvMu, call, late, last, ncalls>>

-----------------------------------------------------------------------------
Answer(c) ==
  \E n \in Nodes : \/ Rpc_Ok(c, n)
                   \/ Rpc_Lost(c, n)
                   \/ Rpc_NoAnswer(c, n)
                   \/ Rpc_TooLate(c, n)

NewCall(c) ==
  \E k \in Keys : \/ Call(c, "get", k, None, 0)
                  \/ Call(c, "delete", k, None, 0)
                  \/ \E v \in Values, ttl \in Ttls : Call(c, "set", k, v, ttl)

(***************************************************************************)
(* What goes on beside the calls (an Update that changes nothing is left   *)
(* to KvServer).                                                           *)
(***************************************************************************)
Environment ==
  \/ ServerStep
  \/ \E a \in Assignments : Edit(a)
  \/ \E p \in Procs : Update(p) /\ smState[p] # file
  \/ \E p \in Fragile : Start(p) \/ Crash(p)
  \/ Tick

ClientNext ==
  \/ \E c \in Callers : NewCall(c) \/ Lock(c) \/ Answer(c) \/ Return(c)
  \/ \E r \in late : LateRequest(r)
  \/ ClientUpdate
  \/ Environment /\ UNCHANGED clientVars

ClientSpec == ClientInit /\ [][ClientNext]_allVars

(***************************************************************************)
(* The goroutines run on, sync.Mutex starves nobody, RPCs are answered or  *)
(* fail; the handlers of a server run on, as in KvServer.                  *)
(***************************************************************************)
ClientFairness ==
  /\ \A c \in Callers : SF_allVars(Lock(c)) /\ SF_allVars(Answer(c))
  /\ \A n \in Nodes :
       SF_allVars((\E t \in Threads : Handler(n, t)) /\ UNCHANGED clientVars)

FairClientSpec == ClientSpec /\ ClientFairness

-----------------------------------------------------------------------------
(***************************************************************************)
(* Where shards do not move, servers do not restart and no request is      *)
(* late, what a Get returns is what was written: the value of the last Set *)
(* that succeeded, or nothing once it may have expired or was deleted,     *)
(* whichever replica answers and whichever requests fail.                  *)
(***************************************************************************)
Calm == MaxEdits = 0 /\ MaxRestarts = 0 /\ Deadlines = {}

Finished(c, op) == call[c].pc = "done" /\ call[c].op = op /\ ~call[c].err

ReadsLastWrite ==
  Calm => \A c \in Callers :
    LET r == call[c]
    IN Finished(c, "get") /\ r.want.val # Unknown
         => \/ r.found = r.want.val
            \/ r.found = None /\ now >= r.want.by

(***************************************************************************)
(* A Set or Delete that succeeded has reached every replica, though any    *)
(* of its requests could have failed: until the next write no replica has  *)
(* another value.                                                          *)
(***************************************************************************)
SuccessIsEverywhere ==
  Calm => \A k \in Keys : \A n \in clientMap[ShardOf[k]] :
    last[k].val # Unknown
      => \/ Value(n, k) = last[k].val
         \/ Value(n, k) = None /\ now >= last[k].by

(***************************************************************************)
(* Get turns to the next replica: where one node keeps the key's shard and *)
(* stays up, and neither the network nor the context of the Get is to      *)
(* blame, no Get of the key fails, whatever the other nodes, the shard map *)
(* and the late requests of writes do meanwhile.                           *)
(***************************************************************************)
GetFailsOver ==
  ~Unreliable /\ "get" \notin Deadlines /\ panics = {} =>
    \A c \in Callers, k \in Keys \ {EmptyKey} :
      /\ call[c].pc = "done" /\ call[c].op = "get" /\ call[c].key = k
      /\ \E n \in Nodes : /\ ProcOf[n] \in Started \ Fragile
                         /\ \A a \in Assignments : n \in a[ShardOf[k]]
      => ~call[c].err

(***************************************************************************)
(* Every call returns, with servers that move shards, crash and restart.   *)
(***************************************************************************)
CallsReturn ==
  \A c \in Callers : call[c].pc \in {"lock", "rpc"} ~> call[c].pc = "done"

(***************************************************************************)
(* lab4.md on Delete: "Future calls to Get(key) should return no value     *)
(* (and wasFound of false) unless a subsequent Set inserts a new value."   *)
(***************************************************************************)
DeleteSticks ==
  \A c \in Callers :
    Finished(c, "get") /\ call[c].want.val = None => call[c].found = None
=============================================================================
