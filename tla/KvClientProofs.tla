--------------------------- MODULE KvClientProofs ---------------------------
(***************************************************************************)
(* Proofs about the client of the key-value cache: GetFailsOver, and, where*)
(* shards stay and servers do not restart, SuccessIsEverywhere and         *)
(* ReadsLastWrite, for any number of callers, nodes, keys and values.      *)
(***************************************************************************)
EXTENDS KvClient, KvServerProofs

(***************************************************************************)
(* The prover of the leaves that do not name one: those with arithmetic    *)
(* name SMT.                                                               *)
(***************************************************************************)
USE ZenonT(30)

USE KvServerAssumption, KvClientAssumption

Written == [val: Values \cup {None, Unknown}, by: Nat]

CallType ==
  [pc: {"idle", "lock", "rpc", "done"}, op: Ops, key: Keys,
   val: Values \cup {None}, ttl: Nat, todo: SUBSET Nodes, err: BOOLEAN,
   found: Values \cup {None}, since: Nat, want: Written]

LateType == [node: Nodes, op: {"set", "delete"}, key: Keys,
             val: Values \cup {None}, ttl: Nat]

(***************************************************************************)
(* What a Set stores is a value with a ttl of the requests.                *)
(***************************************************************************)
Sensible(r) == r.op = "set" => r.val \in Values /\ r.ttl \in Ttls

(***************************************************************************)
(* The types of the client's state; every shard map in the system is one   *)
(* of the assignments; a call that asks nodes has kv.mu.                   *)
(***************************************************************************)
ClientTypes ==
  /\ call \in [Callers -> CallType]
  /\ \A c \in Callers : Sensible(call[c])
  /\ late \subseteq LateType
  /\ \A r \in late : Sensible(r)
  /\ last \in [Keys -> Written]
  /\ ncalls \in Nat
  /\ \A c \in Callers : call[c].pc = "rpc" => kvMu = c
  /\ clientMap \in Assignments /\ file \in Assignments
  /\ \A p \in Procs : smState[p] \in Assignments

(***************************************************************************)
(* What the answer of n, good or not, does to the call of c and to no      *)
(* other.                                                                  *)
(***************************************************************************)
Replied(c, n, ok, v) ==
  LET r == call[c]
      q == call'[c]
  IN /\ \A d \in Callers \ {c} : call'[d] = call[d]
     /\ q.op = r.op /\ q.key = r.key /\ q.val = r.val /\ q.ttl = r.ttl
     /\ q.since = r.since /\ q.want = r.want /\ q.found = v
     /\ q.todo = IF r.op = "get" /\ ok THEN {} ELSE r.todo \ {n}
     /\ q.pc = IF q.todo = {} THEN "done" ELSE "rpc"
     /\ r.op = "get" => (q.err <=> ~ok)
     /\ r.op # "get" => (q.err <=> r.err \/ ~ok)

(***************************************************************************)
(* Reply has this effect.                                                  *)
(***************************************************************************)
LEMMA ReplyEffect ==
  ASSUME call \in [Callers -> CallType], NEW c \in Callers, NEW n \in Nodes,
         NEW ok \in BOOLEAN, NEW v \in Values \cup {None},
         Asked(c, n), Reply(c, n, ok, v)
  PROVE  Replied(c, n, ok, v) /\ call' \in [Callers -> CallType]
<1> DEFINE r == call[c]
           a == [r EXCEPT !.todo = IF r.op = "get" /\ ok THEN {} ELSE @ \ {n},
                          !.found = v,
                          !.err = IF r.op = "get" THEN ~ok ELSE @ \/ ~ok]
           q == IF a.todo = {} THEN [a EXCEPT !.pc = "done"] ELSE a
<1>1. r \in CallType /\ r.pc = "rpc"
  BY DEF Asked
<1>2. /\ a \in CallType /\ a.op = r.op /\ a.key = r.key /\ a.val = r.val
      /\ a.ttl = r.ttl /\ a.since = r.since /\ a.want = r.want /\ a.found = v
      /\ a.todo = (IF r.op = "get" /\ ok THEN {} ELSE r.todo \ {n})
      /\ a.pc = "rpc"
      /\ a.err = (IF r.op = "get" THEN ~ok ELSE r.err \/ ~ok)
  <2> HIDE DEF r
  <2> QED
    BY <1>1 DEF CallType
<1>3. /\ q \in CallType /\ q.op = a.op /\ q.key = a.key /\ q.val = a.val
      /\ q.ttl = a.ttl /\ q.since = a.since /\ q.want = a.want
      /\ q.found = a.found /\ q.todo = a.todo /\ q.err = a.err
      /\ q.pc = IF a.todo = {} THEN "done" ELSE "rpc"
  <2> HIDE DEF a
  <2> QED
    BY <1>2 DEF CallType
<1>4. call' = [call EXCEPT ![c] = q]
  BY DEF Reply, Answered
<1> HIDE DEF r, q, a
<1>5. call'[c] = q /\ \A d \in Callers \ {c} : call'[d] = call[d]
  BY <1>4
<1>6. call' \in [Callers -> CallType]
  BY <1>3, <1>4
<1>7. r = call[c]
  BY DEF r
<1>8. /\ r.op = "get" => (q.err <=> ~ok)
      /\ r.op # "get" => (q.err <=> r.err \/ ~ok)
  BY <1>2, <1>3
<1> QED
  BY <1>2, <1>3, <1>5, <1>6, <1>7, <1>8 DEF Replied

(***************************************************************************)
(* An answer to the call of c, with what the server did for it and why it  *)
(* is an error if it is one.                                               *)
(***************************************************************************)
Answers(c, n, ok, v) ==
  LET r == call[c]
  IN /\ Asked(c, n)
     /\ Reply(c, n, ok, v)
     /\ Handle(n, r) \/ UNCHANGED vars
     /\ ok => /\ Handle(n, r) /\ Accepts(n, r.key)
              /\ v = IF r.op = "get" THEN Value(n, r.key) ELSE None
     /\ ~ok => \/ Unreliable \/ ~Serving(n) \/ ~Accepts(n, r.key)
               \/ r.op \in Deadlines
     /\ \/ late' = late
        \/ /\ r.op \in Deadlines /\ r.op # "get"
           /\ late' = late \cup {[node |-> n, op |-> r.op, key |-> r.key,
                                  val |-> r.val, ttl |-> r.ttl]}

(***************************************************************************)
(* A new call, and the goroutine that makes it.                            *)
(***************************************************************************)
Called(c) ==
  \E op \in Ops, k \in Keys, v \in Values \cup {None}, ttl \in Ttls \cup {0} :
    /\ Call(c, op, k, v, ttl)
    /\ op = "set" => v \in Values /\ ttl \in Ttls

(***************************************************************************)
(* The value a node answers with has its type.                             *)
(***************************************************************************)
LEMMA ValueType ==
  ASSUME TypeOK, NEW n \in Nodes, NEW k \in Keys
  PROVE  Value(n, k) \in Values \cup {None}
<1>1. data[n][k] \in Object \cup {None}
  BY SMTT(30) DEF TypeOK
<1> QED
  BY <1>1 DEF Value, Found, Object

(***************************************************************************)
(* The steps of the client and of what it talks to.                        *)
(***************************************************************************)
LEMMA ClientCases ==
  ASSUME TypeOK, ClientTypes, [ClientNext]_allVars
  PROVE  \/ \E c \in Callers : Called(c) \/ Lock(c) \/ Return(c)
         \/ \E c \in Callers, n \in Nodes, ok \in BOOLEAN,
               v \in Values \cup {None} : Answers(c, n, ok, v)
         \/ \E r \in late : LateRequest(r)
         \/ ClientUpdate
         \/ Environment /\ UNCHANGED clientVars
         \/ UNCHANGED allVars
<1>1. ASSUME NEW c \in Callers, NewCall(c) PROVE Called(c)
  <2>1. ASSUME NEW k \in Keys, Call(c, "get", k, None, 0) PROVE Called(c)
    BY <2>1 DEF Called, Ops
  <2>2. ASSUME NEW k \in Keys, Call(c, "delete", k, None, 0) PROVE Called(c)
    BY <2>2 DEF Called, Ops
  <2>3. ASSUME NEW k \in Keys, NEW v \in Values, NEW ttl \in Ttls,
               Call(c, "set", k, v, ttl)
        PROVE  Called(c)
    BY <2>3 DEF Called, Ops
  <2> QED
    BY <1>1, <2>1, <2>2, <2>3 DEF NewCall
<1>2. ASSUME NEW c \in Callers, NEW n \in Nodes, Rpc_Ok(c, n)
      PROVE  \E ok \in BOOLEAN, v \in Values \cup {None} : Answers(c, n, ok, v)
  <2>1. call[c].key \in Keys
    BY DEF ClientTypes, CallType
  <2>2. CASE Accepts(n, call[c].key)
    <3> DEFINE v == IF call[c].op = "get" THEN Value(n, call[c].key) ELSE None
    <3>1. v \in Values \cup {None}
      BY <2>1, ValueType
    <3>2. Answers(c, n, TRUE, v)
      BY <1>2, <2>2 DEF Rpc_Ok, Answers
    <3> QED
      BY <3>1, <3>2
  <2>3. CASE ~Accepts(n, call[c].key)
    <3>1. Answers(c, n, FALSE, None)
      BY <1>2, <2>3 DEF Rpc_Ok, Answers
    <3> QED
      BY <3>1
  <2> QED
    BY <2>2, <2>3
<1>3. ASSUME NEW c \in Callers, NEW n \in Nodes, Rpc_Lost(c, n)
      PROVE  Answers(c, n, FALSE, None)
  BY <1>3 DEF Rpc_Lost, Answers
<1>4. ASSUME NEW c \in Callers, NEW n \in Nodes, Rpc_NoAnswer(c, n)
      PROVE  Answers(c, n, FALSE, None)
  BY <1>4 DEF Rpc_NoAnswer, Answers
<1>5. ASSUME NEW c \in Callers, NEW n \in Nodes, Rpc_TooLate(c, n)
      PROVE  Answers(c, n, FALSE, None)
  BY <1>5 DEF Rpc_TooLate, Answers
<1>6. ASSUME NEW c \in Callers, Answer(c)
      PROVE  \E n \in Nodes, ok \in BOOLEAN, v \in Values \cup {None} :
               Answers(c, n, ok, v)
  BY <1>2, <1>3, <1>4, <1>5, <1>6 DEF Answer
<1> QED
  BY <1>1, <1>6 DEF ClientNext

(***************************************************************************)
(* What a node does for a request is a step of the servers.                *)
(***************************************************************************)
LEMMA HandleIsStep ==
  ASSUME NEW n \in Nodes, NEW r, Handle(n, r), r.key \in Keys, Sensible(r)
  PROVE  [Next]_vars
<1>1. CASE r.op = "set" /\ Set(n, r.key, r.val, r.ttl)
  BY <1>1 DEF Sensible, Next, Rpc
<1>2. CASE r.op = "delete" /\ Delete(n, r.key)
  BY <1>2 DEF Next, Rpc
<1> QED
  BY <1>1, <1>2 DEF Handle

(***************************************************************************)
(* The servers take steps of KvServer, whatever the clients do.            *)
(***************************************************************************)
LEMMA ServersStep ==
  ASSUME TypeOK, ClientTypes, [ClientNext]_allVars
  PROVE  [Next]_vars
<1>1. ASSUME NEW c \in Callers, Called(c) \/ Lock(c) \/ Return(c)
      PROVE  UNCHANGED vars
  BY <1>1 DEF Called, Call, Lock, Return
<1>2. ASSUME NEW c \in Callers, NEW n \in Nodes, NEW ok, NEW v,
             Answers(c, n, ok, v)
      PROVE  [Next]_vars
  <2>1. call[c].key \in Keys /\ Sensible(call[c])
    BY DEF ClientTypes, CallType
  <2> QED
    BY <1>2, <2>1, HandleIsStep DEF Answers
<1>3. ASSUME NEW r \in late, LateRequest(r) PROVE [Next]_vars
  <2>1. r.key \in Keys /\ r.node \in Nodes /\ Sensible(r)
    BY DEF ClientTypes, LateType
  <2> QED
    BY <1>3, <2>1, HandleIsStep DEF LateRequest
<1>4. CASE ClientUpdate
  BY <1>4 DEF ClientUpdate
<1>5. CASE Environment
  BY <1>5 DEF Environment, Next, MapStep
<1>6. CASE UNCHANGED allVars
  BY <1>6 DEF allVars
<1> QED
  BY <1>1, <1>2, <1>3, <1>4, <1>5, <1>6, ClientCases

-----------------------------------------------------------------------------
(***************************************************************************)
(* The client's own types hold initially.                                  *)
(***************************************************************************)
LEMMA InitClientTypes == ClientInit => ClientTypes
<1> SUFFICES ASSUME ClientInit PROVE ClientTypes
  OBVIOUS
<1>1. NoCall \in CallType /\ NoCall.op = "get" /\ NoCall.pc = "idle"
  BY DEF NoCall, CallType, Written, Ops
<1>2. call \in [Callers -> CallType]
      /\ \A c \in Callers : call[c].op = "get" /\ call[c].pc = "idle"
  BY <1>1 DEF ClientInit
<1>3. last \in [Keys -> Written]
  BY DEF ClientInit, NeverSet, Written
<1> QED
  BY <1>2, <1>3 DEF ClientInit, ClientTypes, Init, InitServers, Sensible

(***************************************************************************)
(* Every shard map stays one of the assignments.                           *)
(***************************************************************************)
LEMMA MapsStay ==
  ASSUME TypeOK, ClientTypes, [ClientNext]_allVars
  PROVE  /\ clientMap' \in Assignments /\ file' \in Assignments
         /\ \A p \in Procs : smState'[p] \in Assignments
<1>1. ASSUME UNCHANGED <<file, smState>>
      PROVE  file' \in Assignments /\ \A p \in Procs : smState'[p] \in Assignments
  BY <1>1 DEF ClientTypes
<1>2. ASSUME NEW n \in Nodes, NEW r, Handle(n, r)
      PROVE  UNCHANGED <<file, smState>>
  BY <1>2 DEF Handle, Set, Delete, vars, mapVars
<1>3. ASSUME NEW p \in Procs, smState' = [smState EXCEPT ![p] = file],
             file' = file
      PROVE  file' \in Assignments /\ \A q \in Procs : smState'[q] \in Assignments
  BY <1>3 DEF ClientTypes, TypeOK
<1>4. ASSUME Environment
      PROVE  file' \in Assignments /\ \A p \in Procs : smState'[p] \in Assignments
  <2>1. CASE ServerStep
    <3>1. ASSUME NEW p, Dies(p) PROVE UNCHANGED <<file, smState>>
      BY <3>1 DEF Dies
    <3>2. ASSUME NEW n \in Nodes, NEW t \in Threads, Handler(n, t)
          PROVE  UNCHANGED <<file, smState>>
      BY <3>1, <3>2 DEF Handler, HandleShardMapUpdate, SpawnCopy, FetchShard,
         FetchFails, PanicNoNodes, SetCopies, PanicMissingShard, mapVars
    <3>3. ASSUME NEW n \in Nodes, NEW s \in Shards, Cleanup(n, s)
          PROVE  UNCHANGED <<file, smState>>
      BY <3>3 DEF Cleanup, mapVars
    <3>4. ASSUME NEW n \in Nodes, ListenLoop(n) \/ MakeKvServer(n)
          PROVE  UNCHANGED <<file, smState>>
      BY <3>4 DEF ListenLoop, MakeKvServer, mapVars
    <3> QED
      BY <1>1, <2>1, <3>1, <3>2, <3>3, <3>4 DEF ServerStep, PanicMapRace
  <2>2. ASSUME NEW a \in Assignments, Edit(a)
        PROVE  file' = a /\ smState' = smState
    BY <2>2 DEF Edit
  <2>3. ASSUME NEW p \in Procs, Update(p) \/ Start(p)
        PROVE  smState' = [smState EXCEPT ![p] = file] /\ file' = file
    BY <2>3 DEF Update, Start
  <2>4. ASSUME NEW p \in Procs, Crash(p) PROVE UNCHANGED <<file, smState>>
    BY <2>4 DEF Crash, Dies
  <2>5. CASE Tick
    BY <1>1, <2>5 DEF Tick, mapVars
  <2> QED
    BY <1>1, <1>3, <1>4, <2>1, <2>2, <2>3, <2>4, <2>5
       DEF Environment, ClientTypes
<1>5. ASSUME NEW c \in Callers, Called(c) \/ Lock(c) \/ Return(c)
      PROVE  UNCHANGED <<file, smState, clientMap>>
  BY <1>5 DEF Called, Call, Lock, Return, vars
<1>6. ASSUME NEW c \in Callers, NEW n \in Nodes, NEW ok, NEW v,
             Answers(c, n, ok, v)
      PROVE  UNCHANGED <<file, smState, clientMap>>
  BY <1>2, <1>6 DEF Answers, Reply, vars
<1>7. ASSUME NEW r \in late, LateRequest(r)
      PROVE  UNCHANGED <<file, smState, clientMap>>
  <2>1. r.node \in Nodes
    BY DEF ClientTypes, LateType
  <2> QED
    BY <1>2, <1>7, <2>1 DEF LateRequest
<1>8. CASE ClientUpdate
  BY <1>1, <1>8 DEF ClientUpdate, vars, ClientTypes
<1>9. CASE UNCHANGED allVars
  BY <1>1, <1>9 DEF allVars, vars, clientVars, ClientTypes
<1>10. CASE Environment /\ UNCHANGED clientVars
  BY <1>4, <1>10 DEF clientVars, ClientTypes
<1> QED
  BY <1>1, <1>5, <1>6, <1>7, <1>8, <1>9, <1>10, ClientCases DEF ClientTypes

(***************************************************************************)
(* Every step keeps the client's types.                                    *)
(***************************************************************************)
LEMMA NextClientTypes ==
  ASSUME TypeOK, ClientTypes, [ClientNext]_allVars
  PROVE  ClientTypes'
<1> DEFINE Calls == /\ call \in [Callers -> CallType]
                    /\ \A c \in Callers : Sensible(call[c])
                    /\ \A c \in Callers : call[c].pc = "rpc" => kvMu = c
           Lates == late \subseteq LateType /\ \A r \in late : Sensible(r)
           Others == last \in [Keys -> Written] /\ ncalls \in Nat
<1>1. Calls /\ Lates /\ Others
  BY DEF ClientTypes
<1>2. now \in Nat /\ clientMap \in [Shards -> SUBSET Nodes]
  BY DEF TypeOK, ClientTypes
<1>3. ASSUME NEW c \in Callers, Called(c) PROVE Calls' /\ Lates' /\ Others'
  <2>1. PICK op \in Ops, k \in Keys, v \in Values \cup {None},
             ttl \in Ttls \cup {0} :
          /\ Call(c, op, k, v, ttl)
          /\ op = "set" => v \in Values /\ ttl \in Ttls
    BY <1>3 DEF Called
  <2> DEFINE q == [NoCall EXCEPT !.pc = "lock", !.op = op,
                                 !.key = k, !.val = v, !.ttl = ttl]
  <2>2. q \in CallType /\ Sensible(q) /\ q.pc = "lock"
    <3>1. NoCall \in CallType
      BY DEF NoCall, CallType, Written, Ops
    <3>2. ttl \in Nat
      BY SMTT(30)
    <3>3. q \in CallType /\ q.pc = "lock" /\ q.op = op /\ q.val = v /\ q.ttl = ttl
      BY <3>1, <3>2 DEF CallType
    <3> QED
      BY <2>1, <3>3 DEF Sensible
  <2>3. call' = [call EXCEPT ![c] = q]
    BY <2>1 DEF Call
  <2> HIDE DEF q
  <2>4. call' \in [Callers -> CallType] /\ call'[c] = q
        /\ \A d \in Callers \ {c} : call'[d] = call[d]
    BY <1>1, <2>2, <2>3
  <2>5. UNCHANGED <<kvMu, late, last>> /\ ncalls' = ncalls + 1
    BY <2>1 DEF Call
  <2> QED
    BY SMTT(30), <1>1, <2>2, <2>4, <2>5 DEF Sensible
<1>4. ASSUME NEW c \in Callers, Lock(c) PROVE Calls' /\ Lates' /\ Others'
  <2> DEFINE r == call[c]
             nodes == clientMap[ShardOf[r.key]]
  <2>1. r \in CallType /\ r.key \in Keys /\ r.pc = "lock" /\ kvMu = None
    BY <1>1, <1>4 DEF CallType, Lock
  <2>2. nodes \subseteq Nodes /\ last[r.key] \in Written
    BY <1>1, <1>2, <2>1
  <2>3. CASE nodes = {}
    <3> DEFINE q == [r EXCEPT !.pc = "done", !.err = TRUE]
    <3>1. q \in CallType /\ q.op = r.op /\ q.val = r.val /\ q.ttl = r.ttl
          /\ q.pc = "done"
      <4> HIDE DEF r
      <4> QED
        BY <2>1 DEF CallType
    <3>2. call' = [call EXCEPT ![c] = q] /\ UNCHANGED <<kvMu, late, last, ncalls>>
      BY <1>1, <1>4, <2>3 DEF Lock
    <3> HIDE DEF q
    <3>3. call' \in [Callers -> CallType] /\ call'[c] = q
          /\ \A d \in Callers \ {c} : call'[d] = call[d]
      BY <1>1, <3>1, <3>2
    <3> QED
      BY <1>1, <3>1, <3>2, <3>3 DEF Sensible
  <2>4. CASE nodes # {}
    <3> DEFINE q == [r EXCEPT !.pc = "rpc", !.todo = nodes, !.since = now,
                              !.want = last[r.key]]
    <3>1. q \in CallType /\ q.op = r.op /\ q.val = r.val /\ q.ttl = r.ttl
      <4> HIDE DEF r, nodes
      <4> QED
        BY <1>2, <2>1, <2>2 DEF CallType
    <3>2. /\ call' = [call EXCEPT ![c] = q] /\ kvMu' = c
          /\ UNCHANGED <<late, ncalls>>
      BY <1>1, <1>4, <2>4 DEF Lock
    <3>3. \/ last' = last
          \/ last' = [last EXCEPT ![r.key] = [val |-> Unknown, by |-> 0]]
      BY <1>4, <2>4 DEF Lock
    <3> HIDE DEF q
    <3>4. call' \in [Callers -> CallType] /\ call'[c] = q
          /\ \A d \in Callers \ {c} : call'[d] = call[d]
      BY <1>1, <3>1, <3>2
    <3>5. \A d \in Callers : call[d].pc # "rpc"
      BY <1>1, <2>1
    <3>6. last' \in [Keys -> Written]
      <4>1. [val |-> Unknown, by |-> 0] \in Written
        BY DEF Written
      <4> HIDE DEF r
      <4> QED
        BY <1>1, <2>1, <3>3, <4>1
    <3> QED
      BY <1>1, <3>1, <3>2, <3>4, <3>5, <3>6 DEF Sensible
  <2> QED
    BY <2>3, <2>4
<1>5. ASSUME NEW c \in Callers, Return(c) PROVE Calls' /\ Lates' /\ Others'
  <2>1. NoCall \in CallType /\ Sensible(NoCall) /\ NoCall.pc = "idle"
    BY DEF NoCall, CallType, Written, Sensible, Ops
  <2>2. call' = [call EXCEPT ![c] = NoCall]
        /\ UNCHANGED <<kvMu, late, last, ncalls>>
    BY <1>5 DEF Return
  <2>3. call' \in [Callers -> CallType] /\ call'[c] = NoCall
        /\ \A d \in Callers \ {c} : call'[d] = call[d]
    BY <1>1, <2>1, <2>2
  <2> QED
    BY <1>1, <2>1, <2>2, <2>3
<1>6. ASSUME NEW c \in Callers, NEW n \in Nodes, NEW ok \in BOOLEAN,
             NEW v \in Values \cup {None}, Answers(c, n, ok, v)
      PROVE  Calls' /\ Lates' /\ Others'
  <2> DEFINE r == call[c]
  <2>1. Asked(c, n) /\ Reply(c, n, ok, v)
    BY <1>6 DEF Answers
  <2>2. Replied(c, n, ok, v) /\ call' \in [Callers -> CallType]
    BY <1>1, <2>1, ReplyEffect
  <2>3. r.pc = "rpc" /\ kvMu = c /\ r \in CallType /\ r.key \in Keys /\ Sensible(r)
    BY <1>1, <2>1 DEF Asked, CallType
  <2>4. \A d \in Callers \ {c} : call'[d] = call[d] /\ call[d].pc # "rpc"
    BY <1>1, <2>2, <2>3 DEF Replied
  <2>5. /\ call'[c].op = r.op /\ call'[c].val = r.val /\ call'[c].ttl = r.ttl
        /\ call'[c].key = r.key /\ call'[c].since = r.since
    BY <2>2 DEF Replied
  <2>6. kvMu' = IF call'[c].pc = "done" THEN None ELSE kvMu
    BY <1>1, <2>1 DEF Reply
  <2>7. Calls'
    BY <1>1, <2>2, <2>3, <2>4, <2>5, <2>6 DEF Sensible
  <2>8. Lates'
    <3> DEFINE x == [node |-> n, op |-> r.op, key |-> r.key,
                     val |-> r.val, ttl |-> r.ttl]
    <3>1. CASE late' = late
      BY <1>1, <3>1
    <3>2. CASE r.op # "get" /\ late' = late \cup {x}
      <4>1. x \in LateType /\ Sensible(x)
        BY <2>3, <3>2 DEF CallType, LateType, Sensible, Ops
      <4> QED
        BY <1>1, <3>2, <4>1
    <3> QED
      BY <1>6, <3>1, <3>2 DEF Answers
  <2>9. Others'
    <3>1. ncalls' = ncalls
      BY <2>1 DEF Reply
    <3>2. \/ last' = last
          \/ last' = [last EXCEPT ![r.key] = NeverSet]
          \/ /\ r.op = "set"
             /\ last' = [last EXCEPT ![r.key] =
                           [val |-> r.val, by |-> r.since + r.ttl]]
      <4> DEFINE q == Answered(c, n, ok, v)
      <4>1. /\ call' = [call EXCEPT ![c] = q]
            /\ last' = IF q.pc # "done" \/ q.op = "get" \/ q.err THEN last
                       ELSE [last EXCEPT ![q.key] =
                        IF q.op = "set"
                        THEN [val |-> q.val, by |-> q.since + q.ttl]
                        ELSE NeverSet]
        BY <2>1 DEF Reply
      <4> HIDE DEF q
      <4>2. call'[c] = q
        BY <1>1, <4>1
      <4> QED
        BY <2>5, <4>1, <4>2
    <3>3. r.since + r.ttl \in Nat /\ r.val \in Values \cup {None}
      BY SMTT(30), <2>3 DEF CallType
    <3>4. /\ NeverSet \in Written
          /\ [val |-> r.val, by |-> r.since + r.ttl] \in Written
      BY <3>3 DEF NeverSet, Written
    <3> QED
      BY SMTT(30), <1>1, <2>3, <3>1, <3>2, <3>4
  <2> QED
    BY <2>7, <2>8, <2>9
<1>7. ASSUME NEW x \in late, LateRequest(x) PROVE Calls' /\ Lates' /\ Others'
  BY <1>1, <1>7 DEF LateRequest, Sensible
<1>8. ASSUME UNCHANGED <<call, kvMu, late, last, ncalls>>
      PROVE  Calls' /\ Lates' /\ Others'
  BY <1>1, <1>8 DEF Sensible
<1>9. Calls' /\ Lates' /\ Others'
  BY <1>3, <1>4, <1>5, <1>6, <1>7, <1>8, ClientCases
     DEF ClientUpdate, clientVars, allVars
<1> QED
  BY <1>9, MapsStay DEF ClientTypes

-----------------------------------------------------------------------------
(***************************************************************************)
(* A node whose process was started and does not crash, and a node that    *)
(* has in addition the shard of key k in every assignment.                 *)
(***************************************************************************)
Kept(n) == ProcOf[n] \in Started \ Fragile

Home(n, k) == Kept(n) /\ \A a \in Assignments : n \in a[ShardOf[k]]

(***************************************************************************)
(* While no process has panicked, such a node is served, and hosts the     *)
(* shards that every assignment gives to it.                               *)
(***************************************************************************)
StableInv ==
  panics = {} =>
    \A n \in Nodes : Kept(n) =>
      /\ pc[n]["init"] = "done"
      /\ \A s \in Shards :
           (\A a \in Assignments : n \in a[s]) => s \in shards[n]

(***************************************************************************)
(* A Get that is under way still has the home of its key to ask; one that  *)
(* is over did not fail.                                                   *)
(***************************************************************************)
GetInv ==
  panics = {} /\ ~Unreliable /\ "get" \notin Deadlines =>
    \A c \in Callers, n \in Nodes :
      /\ call[c].op = "get" /\ call[c].key # EmptyKey
      /\ Home(n, call[c].key)
      => /\ call[c].pc = "rpc" => n \in call[c].todo
         /\ call[c].pc = "done" => ~call[c].err

(***************************************************************************)
(* Every step of the servers keeps StableInv: the constructor of such a    *)
(* node is over, and its listen loop takes over whole assignments.         *)
(***************************************************************************)
LEMMA NextStable ==
  ASSUME TypeOK, ClientTypes, StableInv, [ClientNext]_allVars
  PROVE  StableInv' /\ (panics' = {} => panics = {})
<1> DEFINE Good(n) == /\ pc[n]["init"] = "done"
                      /\ \A s \in Shards : (\A a \in Assignments : n \in a[s])
                                             => s \in shards[n]
<1>0. "init" \in Threads /\ \A t \in Threads : t = "init" \/ t = "loop"
  BY DEF Threads
<1>1. ASSUME UNCHANGED <<panics, pc, shards>>
      PROVE  StableInv' /\ (panics' = {} => panics = {})
  BY <1>1 DEF StableInv, Kept
<1>2. ASSUME panics' # {} PROVE StableInv' /\ (panics' = {} => panics = {})
  BY <1>2 DEF StableInv
<1>3. ASSUME panics' = panics, panics = {} =>
               \A n \in Nodes : Kept(n) /\ Good(n) => Good(n)'
      PROVE  StableInv' /\ (panics' = {} => panics = {})
  BY <1>3 DEF StableInv, Kept
<1>4. ASSUME NEW m \in Nodes, NEW t \in Threads, HandleShardMapUpdate(m, t),
             NEW n \in Nodes, Good(n)
      PROVE  Good(n)'
  <2>1. Handled(m, t, n, "init")
    BY <1>0, <1>4, HandleEntry
  <2>2. pc'[n]["init"] = "done"
    <3>1. ~(n = m /\ "init" = t)
      BY <1>4 DEF HandleShardMapUpdate
    <3> QED
      BY <1>4, <2>1, <3>1 DEF Handled
  <2>3. shards'[n] = IF n = m THEN ShardsForNode(n) ELSE shards[n]
    BY <2>1 DEF Handled
  <2>4. smState[ProcOf[n]] \in Assignments
    BY DEF ClientTypes
  <2> QED
    BY <1>4, <2>2, <2>3, <2>4 DEF ShardsForNode
<1>5. ASSUME NEW m \in Nodes, NEW t \in Threads, NEW s \in Shards,
             SpawnCopy(m, t, s), NEW n \in Nodes, Good(n)
      PROVE  Good(n)'
  <2>1. Spawned(m, t, s, n, "init")
    BY <1>0, <1>5, SpawnEntry
  <2>2. pc'[n]["init"] = "done"
    BY <1>5, <2>1 DEF Spawned
  <2>3. shards' = shards
    BY <1>5 DEF SpawnCopy
  <2> QED
    BY <1>5, <2>2, <2>3
<1>6. ASSUME NEW m \in Nodes, NEW t \in Threads, SetCopies(m, t),
             NEW n \in Nodes, Good(n)
      PROVE  Good(n)'
  <2>1. CopiesDone(m, t, n, "init")
    BY <1>0, <1>6, SetCopiesDone
  <2>2. pc'[n]["init"] = "done"
    <3>1. ~(n = m /\ "init" = t)
      BY <1>6 DEF SetCopies, CopiesReady
    <3> QED
      BY <1>6, <2>1, <3>1 DEF CopiesDone
  <2>3. shards' = shards
    BY <1>6 DEF SetCopies
  <2> QED
    BY SMTT(30), <1>6, <2>2, <2>3
<1>7. ASSUME NEW m \in Nodes, ListenLoop(m) \/ MakeKvServer(m),
             NEW n \in Nodes, Good(n)
      PROVE  Good(n)'
  <2>1. pc'[n]["init"] = "done"
    <3>1. pc \in [Nodes -> [Threads -> HandlerPc]]
      BY DEF TypeOK
    <3>2. CASE ListenLoop(m)
      <4>1. pc' = [pc EXCEPT ![m]["loop"] = "lock"]
        BY <3>2 DEF ListenLoop
      <4> QED
        BY <1>0, <1>7, <3>1, <4>1
    <3>3. CASE MakeKvServer(m)
      <4>1. n # m
        BY <1>7, <3>3 DEF MakeKvServer
      <4>2. pc'[n] = pc[n]
        BY <3>1, <3>3, <4>1 DEF MakeKvServer
      <4> QED
        BY <1>7, <4>2
    <3> QED
      BY <1>7, <3>2, <3>3
  <2>2. shards' = shards
    BY <1>7 DEF ListenLoop, MakeKvServer
  <2> QED
    BY <1>7, <2>1, <2>2
<1>8. ASSUME NEW p \in Fragile, Crash(p), NEW n \in Nodes, Kept(n), Good(n)
      PROVE  Good(n)'
  <2>1. Died(p, n, "init")
    BY <1>0, <1>8, DiesEntry DEF Crash
  <2>2. pc'[n] = pc[n] /\ shards'[n] = shards[n]
    BY <1>8, <2>1 DEF Died, Kept
  <2> QED
    BY <1>8, <2>2
<1>9. ASSUME NEW m \in Nodes, NEW t \in Threads, Handler(m, t)
      PROVE  StableInv' /\ (panics' = {} => panics = {})
  <2>1. CASE HandleShardMapUpdate(m, t)
    <3>1. panics' = panics
      BY <2>1 DEF HandleShardMapUpdate
    <3> QED
      BY <1>3, <1>4, <2>1, <3>1
  <2>2. ASSUME NEW s \in Shards, SpawnCopy(m, t, s)
        PROVE  StableInv' /\ (panics' = {} => panics = {})
    <3>1. panics' = panics
      BY <2>2 DEF SpawnCopy
    <3> QED
      BY <1>3, <1>5, <2>2, <3>1
  <2>3. CASE SetCopies(m, t)
    <3>1. panics' = panics
      BY <2>3 DEF SetCopies
    <3> QED
      BY <1>3, <1>6, <2>3, <3>1
  <2>4. ASSUME NEW s \in Shards, NEW x \in Nodes,
               FetchShard(m, t, s, x) \/ FetchFails(m, t, s, x)
        PROVE  UNCHANGED <<panics, pc, shards>>
    BY <2>4 DEF FetchShard, FetchFails
  <2>5. ASSUME NEW s \in Shards, PanicNoNodes(m, t, s) \/ PanicMissingShard(m, t)
        PROVE  panics' # {}
    BY <2>5 DEF PanicNoNodes, PanicMissingShard
  <2>6. CASE PanicMissingShard(m, t)
    BY <1>2, <2>6 DEF PanicMissingShard
  <2> QED
    BY <1>1, <1>2, <1>9, <2>1, <2>2, <2>3, <2>4, <2>5, <2>6 DEF Handler
<1>10. ASSUME Environment PROVE StableInv' /\ (panics' = {} => panics = {})
  <2>1. ASSUME NEW n \in Nodes, NEW x \in Nodes, NEW t \in Threads,
               NEW s \in Shards, PanicMapRace(n, t, s, x)
        PROVE  panics' # {}
    BY <2>1 DEF PanicMapRace
  <2>2. ASSUME NEW m \in Nodes, ListenLoop(m) \/ MakeKvServer(m)
        PROVE  StableInv' /\ (panics' = {} => panics = {})
    <3>1. panics' = panics
      BY <2>2 DEF ListenLoop, MakeKvServer
    <3> QED
      BY <1>3, <1>7, <2>2, <3>1
  <2>3. ASSUME NEW n \in Nodes, NEW s \in Shards, Cleanup(n, s)
        PROVE  UNCHANGED <<panics, pc, shards>>
    BY <2>3 DEF Cleanup
  <2>4. CASE ServerStep
    BY <1>1, <1>2, <1>9, <2>1, <2>2, <2>3, <2>4 DEF ServerStep
  <2>5. ASSUME NEW a \in Assignments, Edit(a)
        PROVE  UNCHANGED <<panics, pc, shards>>
    BY <2>5 DEF Edit
  <2>6. ASSUME NEW p \in Procs, Update(p) \/ Start(p)
        PROVE  UNCHANGED <<panics, pc, shards>>
    BY <2>6 DEF Update, Start
  <2>7. ASSUME NEW p \in Fragile, Crash(p)
        PROVE  StableInv' /\ (panics' = {} => panics = {})
    <3>1. panics' = panics
      BY <2>7 DEF Crash
    <3> QED
      BY <1>3, <1>8, <2>7, <3>1
  <2>8. CASE Tick
    BY <1>1, <2>8 DEF Tick
  <2>9. ASSUME NEW p \in Fragile, Start(p)
        PROVE  UNCHANGED <<panics, pc, shards>>
    BY <2>6, <2>9
  <2> QED
    BY <1>1, <1>10, <2>4, <2>5, <2>6, <2>7, <2>8, <2>9 DEF Environment
<1>11. ASSUME NEW n \in Nodes, NEW r, Handle(n, r)
       PROVE  UNCHANGED <<panics, pc, shards>>
  BY <1>11 DEF Handle, Set, Delete, vars
<1>12. ASSUME NEW c \in Callers, Called(c) \/ Lock(c) \/ Return(c)
       PROVE  UNCHANGED <<panics, pc, shards>>
  BY <1>12 DEF Called, Call, Lock, Return, vars
<1>13. ASSUME NEW c \in Callers, NEW n \in Nodes, NEW ok, NEW v,
              Answers(c, n, ok, v)
       PROVE  UNCHANGED <<panics, pc, shards>>
  BY <1>11, <1>13 DEF Answers, vars
<1>14. ASSUME NEW r \in late, LateRequest(r)
       PROVE  UNCHANGED <<panics, pc, shards>>
  <2>1. r.node \in Nodes
    BY DEF ClientTypes, LateType
  <2> QED
    BY <1>11, <1>14, <2>1 DEF LateRequest
<1>15. CASE ClientUpdate \/ UNCHANGED allVars
  BY <1>1, <1>15 DEF ClientUpdate, allVars, vars
<1> QED
  BY <1>1, <1>10, <1>12, <1>13, <1>14, <1>15, ClientCases

(***************************************************************************)
(* Every step keeps GetInv: the home of the key is there to ask, is asked  *)
(* before the Get gives up, and answers well.                              *)
(***************************************************************************)
LEMMA NextGet ==
  ASSUME TypeOK, ClientTypes, StableInv, GetInv, [ClientNext]_allVars
  PROVE  GetInv'
<1> SUFFICES ASSUME panics' = {}, ~Unreliable, "get" \notin Deadlines,
                    NEW d \in Callers, NEW m \in Nodes,
                    call'[d].op = "get", call'[d].key # EmptyKey,
                    Home(m, call'[d].key)
             PROVE  /\ call'[d].pc = "rpc" => m \in call'[d].todo
                    /\ call'[d].pc = "done" => ~call'[d].err
  BY DEF GetInv, Home, Kept
<1>1. panics = {} /\ call \in [Callers -> CallType]
  BY NextStable DEF ClientTypes
<1>2. ASSUME call'[d] = call[d]
      PROVE  /\ call'[d].pc = "rpc" => m \in call'[d].todo
             /\ call'[d].pc = "done" => ~call'[d].err
  BY <1>1, <1>2 DEF GetInv
<1>3. ASSUME NEW c \in Callers, Called(c) \/ Return(c), c = d
      PROVE  call'[d].pc \in {"idle", "lock"}
  <2>1. CASE Return(c)
    BY <1>1, <1>3, <2>1 DEF Return, NoCall
  <2>2. CASE Called(c)
    <3>1. PICK op \in Ops, k \in Keys, v \in Values \cup {None},
               ttl \in Ttls \cup {0} : Call(c, op, k, v, ttl)
      BY <2>2 DEF Called
    <3>2. call'[d] = [NoCall EXCEPT !.pc = "lock", !.op = op,
                                    !.key = k, !.val = v, !.ttl = ttl]
      BY <1>1, <1>3, <3>1 DEF Call
    <3> QED
      BY <3>2 DEF NoCall
  <2> QED
    BY <1>3, <2>1, <2>2
<1>4. ASSUME NEW c \in Callers, Called(c) \/ Return(c) \/ Lock(c), c # d
      PROVE  call'[d] = call[d]
  BY <1>1, <1>4 DEF Called, Call, Return, Lock
<1>5. ASSUME Lock(d) PROVE call'[d].pc = "rpc" /\ m \in call'[d].todo
  <2> DEFINE r == call[d]
             nodes == clientMap[ShardOf[r.key]]
  <2>1. r \in CallType
    BY <1>1
  <2>2. call'[d].key = r.key
    <3>1. \/ call'[d] = [r EXCEPT !.pc = "done", !.err = TRUE]
          \/ call'[d] = [r EXCEPT !.pc = "rpc", !.todo = nodes, !.since = now,
                                  !.want = last[r.key]]
      BY <1>1, <1>5 DEF Lock
    <3> HIDE DEF r, nodes
    <3> QED
      BY <2>1, <3>1 DEF CallType
  <2>3. m \in nodes
    BY <2>2 DEF Home, ClientTypes
  <2>4. call'[d] = [r EXCEPT !.pc = "rpc", !.todo = nodes, !.since = now,
                             !.want = last[r.key]]
    BY <1>1, <1>5, <2>3 DEF Lock
  <2> HIDE DEF r, nodes
  <2> QED
    BY <2>1, <2>3, <2>4 DEF CallType
<1>6. ASSUME NEW c \in Callers, NEW n \in Nodes, NEW ok \in BOOLEAN,
             NEW v \in Values \cup {None}, Answers(c, n, ok, v)
      PROVE  /\ call'[d].pc = "rpc" => m \in call'[d].todo
             /\ call'[d].pc = "done" => ~call'[d].err
  <2>1. Replied(c, n, ok, v) /\ call[c].pc = "rpc"
    BY SMTT(30), <1>1, <1>6, ReplyEffect DEF Answers, Asked
  <2>2. CASE c # d
    BY <1>2, <2>1, <2>2 DEF Replied
  <2>3. CASE c = d
    <3>1. /\ call'[d].op = call[d].op /\ call'[d].key = call[d].key
          /\ call'[d].todo = (IF ok THEN {} ELSE call[d].todo \ {n})
          /\ call'[d].pc = (IF call'[d].todo = {} THEN "done" ELSE "rpc")
          /\ call'[d].err <=> ~ok
      BY <2>1, <2>3 DEF Replied
    <3>2. m \in call[d].todo
      BY <1>1, <2>1, <2>3, <3>1 DEF GetInv
    <3>3. CASE ok
      BY <3>1, <3>3
    <3>4. CASE ~ok
      <4>1. n # m
        <5> SUFFICES ASSUME n = m PROVE FALSE
          OBVIOUS
        <5>1. Serving(m)
          BY <1>1 DEF StableInv, Serving, Home, Kept, NodesOf
        <5>2. Accepts(m, call[d].key)
          <6>1. ShardOf[call[d].key] \in Shards
            BY <1>1 DEF CallType
          <6> QED
            BY <1>1, <3>1, <6>1 DEF StableInv, Home, Accepts
        <5>3. \/ Unreliable \/ ~Serving(n) \/ ~Accepts(n, call[d].key)
              \/ call[d].op \in Deadlines
          BY <1>6, <2>3, <3>4 DEF Answers
        <5> QED
          BY <3>1, <5>1, <5>2, <5>3
      <4> QED
        BY <3>1, <3>2, <3>4, <4>1
    <3> QED
      BY <3>3, <3>4
  <2> QED
    BY <2>2, <2>3
<1>7. ASSUME NEW r \in late, LateRequest(r) PROVE call' = call
  BY <1>7 DEF LateRequest
<1>8. CASE ClientUpdate \/ UNCHANGED clientVars \/ UNCHANGED allVars
  BY <1>2, <1>8 DEF ClientUpdate, clientVars, allVars
<1> QED
  BY <1>2, <1>3, <1>4, <1>5, <1>6, <1>7, <1>8, ClientCases

(***************************************************************************)
(* What the proofs about the client share: the servers keep their own      *)
(* invariant, the client its types.                                        *)
(***************************************************************************)
ClientInv == IndInv /\ ClientTypes

(* So it holds in all reachable states.                                    *)
LEMMA ClientInvHolds == ClientSpec => []ClientInv
<1>1. ClientInit => ClientInv
  BY InitIndInv, InitClientTypes DEF ClientInit, ClientInv
<1>2. ClientInv /\ [ClientNext]_allVars => ClientInv'
  <2>1. ASSUME ClientInv, [ClientNext]_allVars PROVE ClientInv'
    <3>1. TypeOK /\ ClientTypes
      BY <2>1 DEF ClientInv, IndInv
    <3>2. [Next]_vars
      BY <2>1, <3>1, ServersStep
    <3> QED
      BY <2>1, <3>1, <3>2, NextIndInv, NextClientTypes DEF ClientInv
  <2> QED
    BY <2>1
<1> QED
  BY <1>1, <1>2, PTL DEF ClientSpec

(***************************************************************************)
(* Get turns to the next replica: no Get of a key fails whose shard one    *)
(* node keeps that stays up, whatever crashes, moves and late requests do  *)
(* to the others (GetFailsOver), for any number of nodes and callers.      *)
(***************************************************************************)
THEOREM GetAlwaysFailsOver == ClientSpec => []GetFailsOver
<1>1. ClientInit => StableInv /\ GetInv
  <2> SUFFICES ASSUME ClientInit PROVE StableInv /\ GetInv
    OBVIOUS
  <2>1. StableInv
    BY DEF ClientInit, Init, InitServers, StableInv, Kept, Threads, Idle
  <2>2. \A c \in Callers : call[c].pc = "idle"
    BY DEF ClientInit, NoCall
  <2> QED
    BY <2>1, <2>2 DEF GetInv
<1>2. ClientInv /\ StableInv /\ GetInv /\ [ClientNext]_allVars
        => StableInv' /\ GetInv'
  BY NextStable, NextGet DEF ClientInv, IndInv
<1>3. StableInv /\ GetInv => GetFailsOver
  <2> SUFFICES ASSUME GetInv, ~Unreliable, "get" \notin Deadlines, panics = {},
                      NEW c \in Callers, NEW k \in Keys \ {EmptyKey},
                      call[c].pc = "done", call[c].op = "get", call[c].key = k,
                      NEW n \in Nodes, ProcOf[n] \in Started \ Fragile,
                      \A a \in Assignments : n \in a[ShardOf[k]]
               PROVE  ~call[c].err
    BY DEF GetFailsOver
  <2>1. Home(n, call[c].key)
    BY DEF Home, Kept
  <2> QED
    BY <2>1 DEF GetInv
<1> QED
  BY <1>1, <1>2, <1>3, ClientInvHolds, PTL DEF ClientSpec

-----------------------------------------------------------------------------
(***************************************************************************)
(* Where shards stay and servers do not restart, nothing of the servers    *)
(* ever changes but their stores, and no request is late.                  *)
(***************************************************************************)
StillInv ==
  /\ file = FirstMap /\ clientMap = FirstMap
  /\ \A p \in Procs : smState[p] = FirstMap /\ notify[p] = {}
  /\ late = {}
  /\ up = Started
  /\ \A n \in Nodes, t \in Threads :
       pc[n][t] = IF ProcOf[n] \in Started THEN Idle(t) ELSE "off"

(***************************************************************************)
(* The steps that are left: calls and their answers, ttlMonitor, the clock.*)
(***************************************************************************)
StoreChange ==
  /\ (\E n \in Nodes, s \in Shards : Cleanup(n, s)) \/ Tick
  /\ UNCHANGED clientVars

(* In calm operation a step is one of a call or changes only the stores.   *)
LEMMA CalmCases ==
  ASSUME IndInv, ClientTypes, Calm, StillInv, [ClientNext]_allVars
  PROVE  \/ \E c \in Callers : Called(c) \/ Lock(c) \/ Return(c)
         \/ \E c \in Callers, n \in Nodes, ok \in BOOLEAN,
               v \in Values \cup {None} :
               Answers(c, n, ok, v) /\ late' = late
         \/ StoreChange
         \/ UNCHANGED allVars
<1>1. TypeOK /\ JobInv
  BY DEF IndInv
<1>2. "init" \in Threads /\ "loop" \in Threads
  BY DEF Threads
<1>3. \A n \in Nodes, t \in Threads : pc[n][t] \in {"done", "select", "off"}
  BY DEF StillInv, Idle
<1>4. \A n \in Nodes, t \in Threads, s \in Shards : job[n][t][s] = "none"
  BY <1>1, <1>3 DEF JobInv
<1>5. ASSUME NEW n \in Nodes, NEW t \in Threads, Handler(n, t) PROVE FALSE
  BY <1>3, <1>4, <1>5 DEF Handler, HandleShardMapUpdate, SpawnCopy,
     FetchShard, FetchFails, PanicNoNodes, SetCopies, PanicMissingShard,
     CopiesReady
<1>6. ASSUME NEW n \in Nodes, NEW x \in Nodes, NEW t \in Threads,
             NEW s \in Shards, PanicMapRace(n, t, s, x)
      PROVE  FALSE
  BY <1>4, <1>6 DEF PanicMapRace
<1>7. ASSUME NEW n \in Nodes, ListenLoop(n) PROVE FALSE
  BY <1>7 DEF ListenLoop, StillInv
<1>8. ASSUME NEW n \in Nodes, MakeKvServer(n) PROVE FALSE
  BY <1>2, <1>8 DEF MakeKvServer, StillInv, Idle
<1>9. ASSUME NEW a \in Assignments, Edit(a) PROVE FALSE
  BY SMTT(30), <1>1, <1>9 DEF Edit, Calm, TypeOK
<1>10. ASSUME NEW p \in Procs, Update(p), smState[p] # file PROVE FALSE
  BY <1>10 DEF StillInv
<1>11. ASSUME NEW p \in Fragile, Start(p) \/ Crash(p) PROVE FALSE
  BY SMTT(30), <1>1, <1>11 DEF Start, Crash, Calm, TypeOK
<1>12. ASSUME Environment, UNCHANGED clientVars PROVE StoreChange
  BY <1>5, <1>6, <1>7, <1>8, <1>9, <1>10, <1>11, <1>12
     DEF Environment, ServerStep, StoreChange
<1>13. ASSUME ClientUpdate PROVE FALSE
  BY <1>13 DEF ClientUpdate, StillInv
<1>14. ASSUME NEW r \in late, LateRequest(r) PROVE FALSE
  BY <1>14 DEF StillInv
<1>15. ASSUME NEW c \in Callers, NEW n \in Nodes, NEW ok \in BOOLEAN,
              NEW v \in Values \cup {None}, Answers(c, n, ok, v)
       PROVE  late' = late
  BY <1>15 DEF Answers, Calm
<1> QED
  BY <1>1, <1>12, <1>13, <1>14, <1>15, ClientCases

(***************************************************************************)
(* A server handles a request without a change but to its store.           *)
(***************************************************************************)
LEMMA HandleEffect ==
  ASSUME NEW n \in Nodes, NEW r, Handle(n, r)
  PROVE  UNCHANGED <<file, smState, notify, up, pc, now>>
BY DEF Handle, Set, Delete, vars, mapVars

(***************************************************************************)
(* Every step keeps StillInv.                                              *)
(***************************************************************************)
LEMMA NextStill ==
  ASSUME IndInv, ClientTypes, Calm, StillInv, [ClientNext]_allVars
  PROVE  StillInv'
<1>1. ASSUME UNCHANGED <<file, clientMap, smState, notify, late, up, pc>>
      PROVE  StillInv'
  BY <1>1 DEF StillInv
<1>2. ASSUME NEW c \in Callers, Called(c) \/ Lock(c) \/ Return(c)
      PROVE  UNCHANGED <<file, clientMap, smState, notify, late, up, pc>>
  BY <1>2 DEF Called, Call, Lock, Return, vars
<1>3. ASSUME NEW c \in Callers, NEW n \in Nodes, NEW ok, NEW v,
             Answers(c, n, ok, v), late' = late
      PROVE  UNCHANGED <<file, clientMap, smState, notify, late, up, pc>>
  BY <1>3, HandleEffect DEF Answers, Reply, vars
<1>4. CASE StoreChange
  <2>1. UNCHANGED <<file, clientMap, smState, notify, late, up, pc>>
    BY <1>4 DEF StoreChange, Cleanup, Tick, mapVars, clientVars
  <2> QED
    BY <1>1, <2>1
<1>5. CASE UNCHANGED allVars
  BY <1>1, <1>5 DEF allVars, vars, clientVars
<1> QED
  BY <1>1, <1>2, <1>3, <1>4, <1>5, CalmCases

(***************************************************************************)
(* At time t an object, or None, agrees with the write w: it has its value *)
(* and not for less than its time, or there is nothing to be found because *)
(* nothing was written or its time is over.                                *)
(***************************************************************************)
Fits(obj, t, w) ==
  IF obj # None /\ t < obj.exp
  THEN obj.val = w.val /\ w.by <= obj.exp
  ELSE w.val = None \/ w.by <= t

Holds(n, k, w) == Fits(data[n][k], now, w)

(***************************************************************************)
(* It still does later, and after cleanup.                                 *)
(***************************************************************************)
LEMMA FitsLater ==
  ASSUME NEW obj \in Object \cup {None}, NEW t \in Nat, NEW u \in Nat, t <= u,
         NEW w \in Written, Fits(obj, t, w)
  PROVE  Fits(obj, u, w) /\ (obj # None /\ t >= obj.exp => Fits(None, u, w))
<1>1. w.by \in Nat /\ (obj # None => obj \in Object)
  BY DEF Written
<1>2. CASE obj # None
  <2>1. obj.exp \in Nat
    BY <1>1, <1>2 DEF Object
  <2> QED
    BY SMTT(30), <1>1, <1>2, <2>1 DEF Fits
<1>3. CASE obj = None
  BY SMTT(30), <1>1, <1>3 DEF Fits
<1> QED
  BY <1>2, <1>3

(***************************************************************************)
(* What a call writes.                                                     *)
(***************************************************************************)
Write(r) == IF r.op = "set" THEN [val |-> r.val, by |-> r.since + r.ttl]
            ELSE NeverSet

Replicas(k) == FirstMap[ShardOf[k]]

(***************************************************************************)
(* A known last write is on every replica of the key.                      *)
(***************************************************************************)
LastHeld ==
  \A k \in Keys : last[k].val # Unknown =>
    \A n \in Replicas(k) : Holds(n, k, last[k])

(***************************************************************************)
(* A write under way makes the last one unknown; without an error, what it *)
(* writes is on the replicas that have answered.  A Get under way expects  *)
(* the last write; one that is over found it.                              *)
(***************************************************************************)
CallHeld(r) ==
  /\ r.pc = "rpc" => r.todo \subseteq Replicas(r.key) /\ r.since <= now
  /\ r.pc = "rpc" /\ r.op # "get" =>
       /\ last[r.key].val = Unknown
       /\ ~r.err => \A n \in Replicas(r.key) \ r.todo :
                      Holds(n, r.key, Write(r))
  /\ r.pc = "rpc" /\ r.op = "get" => r.want = last[r.key]
  /\ r.pc = "done" /\ r.op = "get" /\ ~r.err /\ r.want.val # Unknown =>
       r.found = r.want.val \/ (r.found = None /\ r.want.by <= now)

HeldInv == LastHeld /\ \A c \in Callers : CallHeld(call[c])

(***************************************************************************)
(* ttlMonitor and the clock leave what a node holds as it is.              *)
(***************************************************************************)
LEMMA StoreChangeKeeps ==
  ASSUME TypeOK, StoreChange
  PROVE  /\ now' \in Nat /\ now <= now'
         /\ \A n \in Nodes, k \in Keys, w \in Written :
              Holds(n, k, w) => Fits(data'[n][k], now', w)
<1>1. now \in Nat /\ data \in [Nodes -> [Keys -> Object \cup {None}]]
  BY DEF TypeOK
<1>2. CASE Tick
  <2>1. now' = now + 1 /\ data' = data
    BY <1>2 DEF Tick
  <2>2. ASSUME NEW n \in Nodes, NEW k \in Keys, NEW w \in Written, Holds(n, k, w)
        PROVE  Fits(data'[n][k], now', w)
    <3>1. data[n][k] \in Object \cup {None} /\ now' \in Nat /\ now <= now'
      BY SMTT(30), <1>1, <2>1
    <3> QED
      BY <1>1, <2>1, <2>2, <3>1, FitsLater DEF Holds
  <2> QED
    BY SMTT(30), <1>1, <2>1, <2>2
<1>3. ASSUME NEW m \in Nodes, NEW s \in Shards, Cleanup(m, s)
      PROVE  /\ now' \in Nat /\ now <= now'
             /\ \A n \in Nodes, k \in Keys, w \in Written :
                  Holds(n, k, w) => Fits(data'[n][k], now', w)
  <2>1. now' = now
    BY <1>3 DEF Cleanup
  <2>2. ASSUME NEW n \in Nodes, NEW k \in Keys, NEW w \in Written, Holds(n, k, w)
        PROVE  Fits(data'[n][k], now', w)
    <3>1. data[n][k] \in Object \cup {None}
      BY SMTT(30), <1>1
    <3>2. \/ data'[n][k] = data[n][k]
          \/ /\ data'[n][k] = None
             /\ data[n][k] # None /\ now >= data[n][k].exp
      BY <1>1, <1>3 DEF Cleanup, HasExpired
    <3>3. now <= now
      BY SMTT(30), <1>1
    <3> QED
      BY SMTT(30), <1>1, <2>1, <2>2, <3>1, <3>2, <3>3, FitsLater DEF Holds
  <2> QED
    BY SMTT(30), <1>1, <2>1, <2>2
<1> QED
  BY <1>2, <1>3 DEF StoreChange

(***************************************************************************)
(* What a server does for the call r of a writer: the entry of the key is  *)
(* written, or nothing is.                                                 *)
(***************************************************************************)
LEMMA HandleStores ==
  ASSUME TypeOK, NEW n \in Nodes, NEW r \in CallType, Handle(n, r), Sensible(r),
         r.since <= now
  PROVE  /\ \A m \in Nodes, k \in Keys : m # n \/ k # r.key \/ r.op = "get" =>
              data'[m][k] = data[m][k]
         /\ r.op # "get" /\ Accepts(n, r.key) =>
              Fits(data'[n][r.key], now, Write(r))
<1>1. now \in Nat /\ data \in [Nodes -> [Keys -> Object \cup {None}]]
  BY DEF TypeOK
<1>2. r.key \in Keys /\ r.ttl \in Nat /\ r.since \in Nat /\ r.op \in Ops
  BY DEF CallType
<1>3. CASE UNCHANGED vars /\ (r.op = "get" \/ ~Accepts(n, r.key))
  BY <1>3 DEF vars
<1>4. CASE r.op = "set" /\ Set(n, r.key, r.val, r.ttl)
  <2> DEFINE obj == [val |-> r.val, exp |-> now + r.ttl, due |-> now + r.ttl,
                     lag |-> 0]
  <2>1. data' = [data EXCEPT ![n][r.key] = obj]
    BY <1>4 DEF Set
  <2>2. obj.exp = now + r.ttl /\ obj.val = r.val /\ obj # None
    <3>1. r.val \in Values
      BY <1>4 DEF Sensible
    <3>2. obj \in Object
      BY SMTT(30), <1>1, <1>2, <3>1 DEF Object
    <3> QED
      BY <3>2, NoneAssumption
  <2> HIDE DEF obj
  <2>3. /\ data'[n][r.key] = obj
        /\ \A m \in Nodes, k \in Keys : m # n \/ k # r.key =>
             data'[m][k] = data[m][k]
    BY <1>1, <1>2, <2>1
  <2>4. Write(r).val = r.val /\ Write(r).by = r.since + r.ttl
    BY <1>4 DEF Write
  <2>5. Fits(obj, now, Write(r))
    <3>1. Write(r).by <= obj.exp /\ (~(now < obj.exp) => Write(r).by <= now)
      BY SMTT(30), <1>1, <1>2, <2>2, <2>4
    <3> QED
      BY <2>2, <2>4, <3>1 DEF Fits
  <2> QED
    BY <1>4, <2>3, <2>5
<1>5. CASE r.op = "delete" /\ Delete(n, r.key)
  <2>1. data' = [data EXCEPT ![n][r.key] = None]
    BY <1>5 DEF Delete
  <2>2. /\ data'[n][r.key] = None
        /\ \A m \in Nodes, k \in Keys : m # n \/ k # r.key =>
             data'[m][k] = data[m][k]
    BY <1>1, <1>2, <2>1
  <2>3. Fits(None, now, Write(r))
    BY <1>5 DEF Fits, Write, NeverSet
  <2> QED
    BY <1>5, <2>2, <2>3
<1> QED
  BY <1>3, <1>4, <1>5 DEF Handle

(***************************************************************************)
(* What keeps the part of HeldInv that is about one call.                  *)
(***************************************************************************)
LEMMA HeldKept ==
  ASSUME TypeOK, ClientTypes, HeldInv, NEW d \in Callers,
         call'[d] = call[d],
         call[d].pc = "rpc" => last'[call[d].key] = last[call[d].key],
         now' \in Nat, now <= now',
         call[d].pc = "rpc" /\ call[d].op # "get" =>
           \A n \in Nodes, w \in Written :
             Holds(n, call[d].key, w) => Fits(data'[n][call[d].key], now', w)
  PROVE  CallHeld(call[d])'
<1> DEFINE r == call[d]
<1>1. r \in CallType /\ r.want \in Written /\ r.want.by \in Nat /\ r.since \in Nat
      /\ r.key \in Keys /\ now \in Nat
  BY DEF ClientTypes, CallType, Written, TypeOK
<1>2. CallHeld(r)
  BY DEF HeldInv
<1>3. Replicas(r.key) \subseteq Nodes
  BY <1>1 DEF Replicas
<1>4. Write(r) \in Written
  BY SMTT(30), <1>1 DEF Write, Written, NeverSet, CallType
<1>5. r.pc = "rpc" => r.todo \subseteq Replicas(r.key) /\ r.since <= now'
  BY SMTT(30), <1>1, <1>2 DEF CallHeld
<1>6. r.pc = "rpc" /\ r.op # "get" =>
        /\ last'[r.key].val = Unknown
        /\ ~r.err => \A n \in Replicas(r.key) \ r.todo :
                       Fits(data'[n][r.key], now', Write(r))
  BY <1>2, <1>3, <1>4 DEF CallHeld
<1>7. r.pc = "rpc" /\ r.op = "get" => r.want = last'[r.key]
  BY <1>2 DEF CallHeld
<1>8. r.pc = "done" /\ r.op = "get" /\ ~r.err /\ r.want.val # Unknown =>
        r.found = r.want.val \/ (r.found = None /\ r.want.by <= now')
  BY SMTT(30), <1>1, <1>2 DEF CallHeld
<1>9. call'[d] = r /\ Write(call'[d]) = Write(r)
  BY DEF Write
<1> HIDE DEF r
<1> QED
  BY <1>5, <1>6, <1>7, <1>8, <1>9 DEF CallHeld, Holds, Replicas, Write

(***************************************************************************)
(* What is known when node n has answered the call of c.                   *)
(***************************************************************************)
LEMMA AnswerFacts ==
  ASSUME IndInv, ClientTypes, HeldInv, NEW c \in Callers, NEW n \in Nodes,
         NEW ok \in BOOLEAN, NEW v \in Values \cup {None}, Answers(c, n, ok, v)
  PROVE  LET r == call[c]
         IN /\ r \in CallType /\ r.pc = "rpc" /\ kvMu = c /\ n \in r.todo
            /\ CallHeld(r) /\ Replied(c, n, ok, v) /\ now' = now
            /\ \A m \in Nodes, k \in Keys : m # n \/ k # r.key \/ r.op = "get" =>
                 data'[m][k] = data[m][k]
            /\ r.op # "get" /\ ok => Fits(data'[n][r.key], now, Write(r))
            /\ IF call'[c].pc # "done" \/ r.op = "get" \/ call'[c].err
               THEN last' = last
               ELSE last' = [last EXCEPT ![r.key] = Write(r)]
<1> DEFINE r == call[c]
<1>1. TypeOK /\ call \in [Callers -> CallType] /\ r \in CallType /\ Sensible(r)
      /\ r.key \in Keys
  BY DEF IndInv, ClientTypes, CallType
<1>2. Asked(c, n) /\ Reply(c, n, ok, v)
  BY DEF Answers
<1>3. r.pc = "rpc" /\ kvMu = c /\ n \in r.todo /\ CallHeld(r)
  BY <1>2 DEF Asked, ClientTypes, HeldInv
<1>4. Replied(c, n, ok, v)
  BY SMTT(30), <1>1, <1>2, ReplyEffect
<1>5. r.since <= now
  BY <1>3 DEF CallHeld
<1>6. now' = now
  BY HandleEffect DEF Answers, vars
<1>7. \A m \in Nodes, k \in Keys : m # n \/ k # r.key \/ r.op = "get" =>
        data'[m][k] = data[m][k]
  BY <1>1, <1>5, HandleStores DEF Answers, vars
<1>8. r.op # "get" /\ ok => Fits(data'[n][r.key], now, Write(r))
  BY <1>1, <1>5, HandleStores DEF Answers
<1>9. IF call'[c].pc # "done" \/ r.op = "get" \/ call'[c].err
       THEN last' = last
       ELSE last' = [last EXCEPT ![r.key] = Write(r)]
  <2> DEFINE q == Answered(c, n, ok, v)
  <2>1. /\ call' = [call EXCEPT ![c] = q]
        /\ last' = IF q.pc # "done" \/ q.op = "get" \/ q.err THEN last
                   ELSE [last EXCEPT ![q.key] =
                    IF q.op = "set"
                    THEN [val |-> q.val, by |-> q.since + q.ttl]
                    ELSE NeverSet]
    BY <1>2 DEF Reply
  <2> HIDE DEF q
  <2>2. call'[c] = q
    BY <1>1, <2>1
  <2>3. /\ q.op = r.op /\ q.key = r.key /\ q.val = r.val /\ q.ttl = r.ttl
        /\ q.since = r.since
    BY <1>4, <2>2 DEF Replied
  <2> HIDE DEF r
  <2> QED
    BY <2>1, <2>2, <2>3 DEF Write
<1> QED
  BY <1>1, <1>3, <1>4, <1>6, <1>7, <1>8, <1>9

(***************************************************************************)
(* Every step keeps HeldInv.                                               *)
(***************************************************************************)
LEMMA NextHeld ==
  ASSUME IndInv, ClientTypes, Calm, StillInv, HeldInv, [ClientNext]_allVars
  PROVE  HeldInv'
<1>1. /\ TypeOK /\ now \in Nat /\ now <= now /\ last \in [Keys -> Written]
      /\ call \in [Callers -> CallType]
      /\ \A c \in Callers : call[c].pc = "rpc" => kvMu = c
      /\ \A k \in Keys : Replicas(k) \subseteq Nodes
  BY SMTT(30) DEF IndInv, TypeOK, ClientTypes, Replicas
<1>2. LastHeld /\ \A c \in Callers : CallHeld(call[c])
  BY DEF HeldInv
<1>3. ASSUME NEW c \in Callers, Called(c) \/ Return(c) PROVE HeldInv'
  <2>1. UNCHANGED <<data, now, last>>
    BY <1>3 DEF Called, Call, Return, vars
  <2>2. \A d \in Callers \ {c} : call'[d] = call[d]
    BY <1>1, <1>3 DEF Called, Call, Return
  <2>3. call'[c].pc \in {"idle", "lock"}
    <3>1. CASE Return(c)
      BY <1>1, <3>1 DEF Return, NoCall
    <3>2. CASE Called(c)
      <4>1. PICK op \in Ops, k \in Keys, v \in Values \cup {None},
                 ttl \in Ttls \cup {0} : Call(c, op, k, v, ttl)
        BY <3>2 DEF Called
      <4>2. call'[c] = [NoCall EXCEPT !.pc = "lock", !.op = op,
                                      !.key = k, !.val = v, !.ttl = ttl]
        BY <1>1, <4>1 DEF Call
      <4> QED
        BY <4>2 DEF NoCall
    <3> QED
      BY <1>3, <3>1, <3>2
  <2>4. LastHeld'
    BY <1>2, <2>1 DEF LastHeld, Holds, Replicas
  <2>5. \A d \in Callers \ {c} : CallHeld(call[d])'
    BY <1>1, <2>1, <2>2, HeldKept DEF Holds
  <2>6. CallHeld(call[c])'
    BY <2>3 DEF CallHeld
  <2> QED
    BY <2>4, <2>5, <2>6 DEF HeldInv
<1>4. ASSUME NEW c \in Callers, Lock(c) PROVE HeldInv'
  <2> DEFINE r == call[c]
             nodes == clientMap[ShardOf[r.key]]
  <2>1. /\ r \in CallType /\ r.key \in Keys /\ nodes = Replicas(r.key)
        /\ \A d \in Callers : call[d].pc # "rpc"
    BY <1>1, <1>4 DEF CallType, Lock, Replicas, StillInv
  <2>2. UNCHANGED <<data, now>> /\ \A d \in Callers \ {c} : call'[d] = call[d]
    BY <1>1, <1>4 DEF Lock, vars
  <2>3. \A d \in Callers \ {c} : CallHeld(call[d])'
    BY <1>1, <2>1, <2>2, HeldKept
  <2>4. CASE nodes = {}
    <3>1. call'[c] = [r EXCEPT !.pc = "done", !.err = TRUE] /\ last' = last
      BY <1>1, <1>4, <2>4 DEF Lock
    <3>2. call'[c].pc = "done" /\ call'[c].err
      <4> HIDE DEF r
      <4> QED
        BY <2>1, <3>1 DEF CallType
    <3>3. CallHeld(call[c])'
      BY <3>2 DEF CallHeld
    <3>4. LastHeld'
      BY <1>2, <2>2, <3>1 DEF LastHeld, Holds, Replicas
    <3> QED
      BY <2>3, <3>3, <3>4 DEF HeldInv
  <2>5. CASE nodes # {}
    <3>1. /\ call'[c] = [r EXCEPT !.pc = "rpc", !.todo = nodes, !.since = now,
                                  !.want = last[r.key]]
          /\ last' = IF r.op = "get" THEN last
                     ELSE [last EXCEPT ![r.key] = [val |-> Unknown, by |-> 0]]
      BY <1>1, <1>4, <2>5 DEF Lock
    <3>2. /\ call'[c].pc = "rpc" /\ call'[c].todo = Replicas(r.key)
          /\ call'[c].since = now /\ call'[c].want = last[r.key]
          /\ call'[c].key = r.key /\ call'[c].op = r.op
      <4> HIDE DEF r, nodes
      <4> QED
        BY <2>1, <3>1 DEF CallType
    <3>3. /\ r.op = "get" => last' = last
          /\ r.op # "get" => last'[r.key].val = Unknown
          /\ \A k \in Keys : last'[k] = last[k] \/ last'[k].val = Unknown
      <4> HIDE DEF r
      <4> QED
        BY <1>1, <2>1, <3>1
    <3>4. CallHeld(call[c])'
      BY <1>1, <2>2, <3>2, <3>3 DEF CallHeld, Replicas
    <3>5. LastHeld'
      BY <1>2, <2>2, <3>3 DEF LastHeld, Holds, Replicas
    <3> QED
      BY <2>3, <3>4, <3>5 DEF HeldInv
  <2> QED
    BY <2>4, <2>5
<1>5. ASSUME NEW c \in Callers, NEW n \in Nodes, NEW ok \in BOOLEAN,
             NEW v \in Values \cup {None}, Answers(c, n, ok, v)
      PROVE  HeldInv'
  <2> DEFINE r == call[c]
             q == call'[c]
  <2>1. /\ r \in CallType /\ r.key \in Keys /\ r.pc = "rpc" /\ kvMu = c
        /\ n \in r.todo /\ r.todo \subseteq Replicas(r.key) /\ r.since <= now
        /\ CallHeld(r) /\ now' = now
    <3>1. /\ r \in CallType /\ r.pc = "rpc" /\ kvMu = c /\ n \in r.todo
          /\ CallHeld(r) /\ now' = now
      BY <1>5, AnswerFacts
    <3>2. r.key \in Keys
      BY <3>1 DEF CallType
    <3>3. r.todo \subseteq Replicas(r.key) /\ r.since <= now
      BY <3>1 DEF CallHeld
    <3> QED
      BY <3>1, <3>2, <3>3
  <2>2. Replied(c, n, ok, v)
    BY <1>5, AnswerFacts
  <2>3. \A m \in Nodes, k \in Keys : m # n \/ k # r.key \/ r.op = "get" =>
          data'[m][k] = data[m][k]
    BY SMTT(30), <1>5, AnswerFacts
  <2>4. r.op # "get" /\ ok => Fits(data'[n][r.key], now, Write(r))
    BY <1>5, AnswerFacts
  <2>5. IF q.pc # "done" \/ r.op = "get" \/ q.err THEN last' = last
        ELSE last' = [last EXCEPT ![r.key] = Write(r)]
    BY SMTT(30), <1>5, AnswerFacts
  <2>6. /\ q.op = r.op /\ q.key = r.key /\ q.val = r.val /\ q.ttl = r.ttl
        /\ q.since = r.since /\ q.want = r.want /\ q.found = v
        /\ q.todo = (IF r.op = "get" /\ ok THEN {} ELSE r.todo \ {n})
        /\ q.pc = (IF q.todo = {} THEN "done" ELSE "rpc")
        /\ r.op = "get" => (q.err <=> ~ok)
        /\ r.op # "get" => (q.err <=> r.err \/ ~ok)
        /\ \A d \in Callers \ {c} : call'[d] = call[d]
    BY <2>2 DEF Replied
  <2>7. \A d \in Callers \ {c} : CallHeld(call[d])'
    <3>1. \A d \in Callers \ {c} : call[d].pc # "rpc"
      BY <1>1, <2>1
    <3> QED
      BY <1>1, <2>1, <2>6, <3>1, HeldKept
  <2>8. r.op # "get" /\ ~q.err =>
          \A m \in Replicas(r.key) \ q.todo :
            Fits(data'[m][r.key], now', Write(r))
    <3> SUFFICES ASSUME r.op # "get", ~q.err, NEW m \in Replicas(r.key),
                        m \notin q.todo
                 PROVE  Fits(data'[m][r.key], now', Write(r))
      OBVIOUS
    <3>1. ok /\ ~r.err
      BY <2>6
    <3>2. CASE m = n
      BY <2>1, <2>4, <3>1, <3>2
    <3>3. CASE m # n
      <4>1. m \in Replicas(r.key) \ r.todo /\ m \in Nodes
        BY <1>1, <2>1, <2>6, <3>3
      <4>2. Holds(m, r.key, Write(r))
        BY <2>1, <3>1, <4>1 DEF CallHeld
      <4> QED
        BY <2>1, <2>3, <3>3, <4>1, <4>2 DEF Holds
    <3> QED
      BY <3>2, <3>3
  <2>9. LastHeld'
    <3> SUFFICES ASSUME NEW k \in Keys, last'[k].val # Unknown,
                        NEW m \in Replicas(k)
                 PROVE  Fits(data'[m][k], now', last'[k])
      BY DEF LastHeld, Holds, Replicas
    <3>0. m \in Nodes
      BY <1>1
    <3>1. CASE k # r.key \/ r.op = "get"
      <4>1. last'[k] = last[k]
        BY <1>1, <2>1, <2>5, <3>1
      <4>2. Holds(m, k, last[k])
        BY <1>2, <4>1 DEF LastHeld
      <4> QED
        BY <2>1, <2>3, <3>0, <3>1, <4>1, <4>2 DEF Holds
    <3>2. CASE k = r.key /\ r.op # "get"
      <4>1. last[k].val = Unknown
        BY <2>1, <3>2 DEF CallHeld
      <4>2. q.pc = "done" /\ ~q.err /\ last'[k] = Write(r)
        BY <1>1, <2>1, <2>5, <3>2, <4>1
      <4>3. q.todo = {}
        BY <2>6, <4>2
      <4> QED
        BY <2>8, <3>2, <4>2, <4>3
    <3> QED
      BY <3>1, <3>2
  <2>10. CallHeld(call[c])'
    <3>1. q.pc = "rpc" => q.todo \subseteq Replicas(q.key) /\ q.since <= now'
      BY <2>1, <2>6
    <3>2. q.pc = "rpc" => last'[q.key] = last[r.key]
      BY <2>5, <2>6
    <3>3. q.pc = "rpc" /\ q.op # "get" =>
            /\ last'[q.key].val = Unknown
            /\ ~q.err => \A m \in Replicas(q.key) \ q.todo :
                           Fits(data'[m][q.key], now', Write(q))
      <4>1. Write(q) = Write(r)
        BY <2>6 DEF Write
      <4> QED
        BY <2>1, <2>6, <2>8, <3>2, <4>1 DEF CallHeld
    <3>4. q.pc = "rpc" /\ q.op = "get" => q.want = last'[q.key]
      BY <2>1, <2>6, <3>2 DEF CallHeld
    <3>5. q.pc = "done" /\ q.op = "get" /\ ~q.err /\ q.want.val # Unknown =>
            q.found = q.want.val \/ (q.found = None /\ q.want.by <= now')
      <4> SUFFICES ASSUME q.pc = "done", q.op = "get", ~q.err,
                          q.want.val # Unknown
                   PROVE  v = r.want.val \/ (v = None /\ r.want.by <= now)
        BY <2>1, <2>6
      <4>1. r.op = "get" /\ ok /\ r.want = last[r.key] /\ n \in Replicas(r.key)
        BY <2>1, <2>6 DEF CallHeld
      <4>2. v = Value(n, r.key)
        BY <1>5, <4>1 DEF Answers
      <4>3. Holds(n, r.key, r.want)
        BY <1>2, <2>1, <2>6, <4>1 DEF LastHeld
      <4>4. data[n][r.key] \in Object \cup {None}
        BY SMTT(30), <1>1, <2>1 DEF TypeOK
      <4>5. Found(n, r.key) <=> data[n][r.key] # None /\ now < data[n][r.key].exp
        BY SMTT(30), <1>1, <4>4 DEF Found, HasExpired, Object
      <4> QED
        BY <4>2, <4>3, <4>5 DEF Holds, Fits, Value
    <3> HIDE DEF q
    <3>6. q = call'[c]
      BY DEF q
    <3> QED
      BY <3>1, <3>3, <3>4, <3>5, <3>6 DEF CallHeld, Holds, Replicas, Write
  <2> QED
    BY <2>7, <2>9, <2>10 DEF HeldInv
<1>6. CASE StoreChange
  <2>1. call' = call /\ last' = last
    BY <1>6 DEF StoreChange, clientVars
  <2>2. /\ now' \in Nat /\ now <= now'
        /\ \A n \in Nodes, k \in Keys, w \in Written :
             Holds(n, k, w) => Fits(data'[n][k], now', w)
    BY <1>1, <1>6, StoreChangeKeeps
  <2>3. \A d \in Callers : call[d].key \in Keys
    BY <1>1 DEF CallType
  <2>4. \A d \in Callers : CallHeld(call[d])'
    BY <1>1, <2>1, <2>2, <2>3, HeldKept
  <2>5. LastHeld'
    BY <1>1, <1>2, <2>1, <2>2 DEF LastHeld, Holds, Replicas
  <2> QED
    BY <2>4, <2>5 DEF HeldInv
<1>7. CASE UNCHANGED allVars
  <2>1. call' = call /\ last' = last /\ data' = data /\ now' = now
    BY <1>7 DEF allVars, vars, clientVars
  <2>2. \A d \in Callers : CallHeld(call[d])'
    BY <1>1, <2>1, HeldKept DEF Holds
  <2>3. LastHeld'
    BY <1>2, <2>1 DEF LastHeld, Holds, Replicas
  <2> QED
    BY <2>2, <2>3 DEF HeldInv
<1> QED
  BY <1>3, <1>4, <1>5, <1>6, <1>7, CalmCases

(***************************************************************************)
(* The state the two theorems below lean on, where shards stay.            *)
(***************************************************************************)
CalmInv == Calm => StillInv /\ HeldInv

(* So that holds in all reachable states.                                  *)
LEMMA CalmInvHolds == ClientSpec => []CalmInv
<1>1. ClientInit => CalmInv
  <2> SUFFICES ASSUME ClientInit, Calm PROVE StillInv /\ HeldInv
    BY DEF CalmInv
  <2>1. StillInv
    BY DEF ClientInit, Init, InitServers, StillInv, Threads, Idle
  <2>2. \A c \in Callers : CallHeld(call[c])
    <3>1. \A c \in Callers : call[c].pc = "idle"
      BY DEF ClientInit, NoCall
    <3> QED
      BY <3>1 DEF CallHeld
  <2>3. LastHeld
    BY DEF ClientInit, NeverSet, LastHeld, Holds, Fits, Init, NoData, Replicas
  <2> QED
    BY <2>1, <2>2, <2>3 DEF HeldInv
<1>2. ClientInv /\ CalmInv /\ [ClientNext]_allVars => CalmInv'
  <2> SUFFICES ASSUME ClientInv, CalmInv, [ClientNext]_allVars, Calm
               PROVE  StillInv' /\ HeldInv'
    BY DEF CalmInv, Calm
  <2> QED
    BY NextStill, NextHeld DEF CalmInv, ClientInv
<1> QED
  BY <1>1, <1>2, ClientInvHolds, PTL DEF ClientSpec

(***************************************************************************)
(* A value that an object or None fits is found, or is not because its     *)
(* time is over.                                                           *)
(***************************************************************************)
LEMMA HeldValue ==
  ASSUME TypeOK, NEW n \in Nodes, NEW k \in Keys, NEW w, Holds(n, k, w)
  PROVE  Value(n, k) = w.val \/ (Value(n, k) = None /\ w.by <= now)
<1>1. data[n][k] \in Object \cup {None} /\ now \in Nat
  BY SMTT(30) DEF TypeOK
<1>2. Found(n, k) <=> data[n][k] # None /\ now < data[n][k].exp
  BY SMTT(30), <1>1 DEF Found, HasExpired, Object
<1> QED
  BY <1>2 DEF Holds, Fits, Value

(***************************************************************************)
(* A Set or Delete that succeeded has reached every replica, whichever of  *)
(* its requests could have failed (SuccessIsEverywhere).                   *)
(***************************************************************************)
THEOREM SuccessReachesAll == ClientSpec => []SuccessIsEverywhere
<1>1. ClientInv /\ CalmInv => SuccessIsEverywhere
  <2> SUFFICES ASSUME ClientInv, StillInv, HeldInv, NEW k \in Keys,
                      NEW n \in clientMap[ShardOf[k]], last[k].val # Unknown
               PROVE  \/ Value(n, k) = last[k].val
                      \/ Value(n, k) = None /\ now >= last[k].by
    BY DEF SuccessIsEverywhere, CalmInv
  <2>1. n \in Replicas(k) /\ n \in Nodes
    BY SMTT(30) DEF StillInv, Replicas
  <2>2. Holds(n, k, last[k])
    BY <2>1 DEF HeldInv, LastHeld
  <2>3. TypeOK /\ now \in Nat /\ last[k].by \in Nat
    BY DEF ClientInv, IndInv, TypeOK, ClientTypes, Written
  <2>4. Value(n, k) = last[k].val \/ (Value(n, k) = None /\ last[k].by <= now)
    BY <2>1, <2>2, <2>3, HeldValue
  <2> QED
    BY <2>3, <2>4
<1> QED
  BY <1>1, ClientInvHolds, CalmInvHolds, PTL

(***************************************************************************)
(* What a Get returns is what was written last, by whoever, or nothing     *)
(* once that may have expired (ReadsLastWrite).                            *)
(***************************************************************************)
THEOREM GetReadsLastWrite == ClientSpec => []ReadsLastWrite
<1>1. ClientInv /\ CalmInv => ReadsLastWrite
  <2> SUFFICES ASSUME ClientInv, HeldInv, NEW c \in Callers,
                      Finished(c, "get"), call[c].want.val # Unknown
               PROVE  \/ call[c].found = call[c].want.val
                      \/ call[c].found = None /\ now >= call[c].want.by
    BY DEF ReadsLastWrite, CalmInv
  <2>1. now \in Nat /\ call[c].want.by \in Nat
    BY DEF ClientInv, IndInv, TypeOK, ClientTypes, CallType, Written
  <2>2. CallHeld(call[c])
    BY DEF HeldInv
  <2> QED
    BY <2>1, <2>2 DEF CallHeld, Finished
<1> QED
  BY <1>1, ClientInvHolds, CalmInvHolds, PTL

=============================================================================
