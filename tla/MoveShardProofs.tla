--------------------------- MODULE MoveShardProofs --------------------------
(***************************************************************************)
(* Proofs about MoveShard: when UpdateShardMapping has returned, every     *)
(* server has followed its mapping and every replica that may be counted   *)
(* on has every key, and no key is lost on the way as long as there is     *)
(* one, for every number of nodes, shards and movements, whatever mappings *)
(* a batch has and whichever calls between servers fail.                   *)
(*                                                                         *)
(* The invariants of KvServer hold here too: every step but                *)
(* UpdateShardMapping is one of KvServer's.  What is added to them says    *)
(* which of the sure replicas of a shard is without its contents: one at   *)
(* most, and all that a copy for it may ask have them.                     *)
(***************************************************************************)
EXTENDS MoveShard, KvServerProofs

(***************************************************************************)
(* The prover of the leaves that do not name one: those with arithmetic    *)
(* name SMT.                                                               *)
(***************************************************************************)
USE ZenonT(30)

(***************************************************************************)
(* A replica of a shard does not have its contents: the server has not     *)
(* seen the mapping yet, or has not finished the copy.                     *)
(***************************************************************************)
Lacks(n, s) == s \notin shards[n] \/ job[n]["loop"][s] # "none"

(***************************************************************************)
(* A node has every key of a shard.                                        *)
(***************************************************************************)
Has(n, s) == \A k \in RealKeys : ShardOf[k] = s => Found(n, k)

(***************************************************************************)
(* A server has followed the map and is in no copy.                        *)
(***************************************************************************)
AtRest(n) ==
  shards[n] = ShardsForNode(n) /\ pc[n]["loop"] \in {"select", "lock"}

(***************************************************************************)
(* The servers are constructed.                                            *)
(***************************************************************************)
Constructed == \A n \in Nodes : pc[n]["init"] = "done"

(***************************************************************************)
(* Nothing expires before the last time there is.                          *)
(***************************************************************************)
FreshInv ==
  /\ now <= MaxTime
  /\ \A n \in Nodes, k \in Keys :
       /\ data[n][k] # None => MaxTime < data[n][k].exp
       /\ resp[n]["loop"][k] # None => MaxTime < now + resp[n]["loop"][k].ttl

(***************************************************************************)
(* From mapping a to mapping b every shard that has nodes keeps one, and   *)
(* gets one more at most.                                                  *)
(***************************************************************************)
Graceful(a, b) ==
  \A s \in Shards : /\ b[s] # {} => a[s] \cap b[s] # {}
                    /\ \A x, y \in b[s] \ a[s] : x = y

(***************************************************************************)
(* Mappings, each graceful after the one before it, the first after m.     *)
(***************************************************************************)
Chained(m, p) ==
  /\ p \in Seq(Mappings)
  /\ \A i \in 1..Len(p) : Graceful(IF i = 1 THEN m ELSE p[i - 1], p[i])

(***************************************************************************)
(* The mappings that are still to come are graceful, each after the one    *)
(* before it, unless a batch was begun.                                    *)
(***************************************************************************)
PlanInv ==
  /\ calls \in 0..2
  /\ calls < 2 => file = Mapping
  /\ plan \in Seq(Mappings)
  /\ disturbed \in BOOLEAN
  /\ ~disturbed => /\ calls = 2 => Graceful(Mapping, file)
                   /\ Chained(file, plan)

(***************************************************************************)
(* The sure replicas are replicas, and all of them are unless a batch was  *)
(* begun or a copy gave up.                                                *)
(***************************************************************************)
WholeInv ==
  /\ whole \in Mappings
  /\ \A s \in Shards : whole[s] \subseteq Mapping[s]
  /\ ~disturbed => whole = Mapping

(***************************************************************************)
(* Before the first Update of a mapping all servers are at rest; after the *)
(* second those that were notified are at rest again, and the rest have at *)
(* least seen the mapping.                                                 *)
(***************************************************************************)
RestInv ==
  /\ calls = 2 => notify[Proc] = {} /\ \A n \in Nodes : AtRest(n)
  /\ calls = 0 => \A n \in Nodes :
       /\ n \notin notify[Proc] => AtRest(n)
       /\ shards[n] = ShardsForNode(n) \/ pc[n]["loop"] = "lock"

(***************************************************************************)
(* All sure replicas of a shard but one, at most, have its contents, and   *)
(* at least one has them.  As long as there is one that has not, all other *)
(* replicas are sure.                                                      *)
(***************************************************************************)
HoldInv ==
  \A s \in Shards :
    /\ \A n \in whole[s] : Lacks(n, s) \/ Has(n, s)
    /\ \A n \in whole[s] : Lacks(n, s) =>
         \A m \in Mapping[s] \ {n} : m \in whole[s] /\ ~Lacks(m, s)
    /\ whole[s] # {} => \E n \in whole[s] : ~Lacks(n, s)

(***************************************************************************)
(* A copy is for a replica; one for a sure replica has only other replicas *)
(* to ask, and has brought all the keys back once it is finished.          *)
(***************************************************************************)
CopyInv ==
  \A n \in Nodes, s \in Shards :
    /\ job[n]["loop"][s] # "doomed"
    /\ job[n]["loop"][s] # "none" => n \in Mapping[s]
    /\ job[n]["loop"][s] = "fetch" /\ n \in whole[s]
         => peers[n]["loop"][s] \subseteq Mapping[s] \ {n}
    /\ job[n]["loop"][s] = "got" /\ n \in whole[s]
         => \A k \in RealKeys : ShardOf[k] = s => resp[n]["loop"][k] # None

MoveInv ==
  /\ IndInv
  /\ Constructed
  /\ FreshInv
  /\ PlanInv
  /\ WholeInv
  /\ RestInv
  /\ HoldInv
  /\ CopyInv


-----------------------------------------------------------------------------
(***************************************************************************)
(* All nodes are of the one process, and all are served.                   *)
(***************************************************************************)
LEMMA OneProc ==
  /\ Proc \in Procs
  /\ \A n \in Nodes : ProcOf[n] = Proc
  /\ Constructed => \A n \in Nodes : Serving(n)
  /\ \A n \in Nodes : ShardsForNode(n) = {s \in Shards : n \in Mapping[s]}
  /\ "loop" \in Threads /\ \A t \in Threads : t # "loop" => t = "init"
BY KvServerAssumption, MoveShardAssumption
   DEF Constructed, Serving, NodesOf, ShardsForNode, Mapping, Threads

(***************************************************************************)
(* What the invariants of KvServer say of the listen loops.                *)
(***************************************************************************)
LEMMA LoopFacts ==
  ASSUME IndInv, Constructed, NEW n \in Nodes
  PROVE  /\ \A s \in Shards : job[n]["init"][s] = "none"
         /\ \A s \in Shards : job[n]["loop"][s] # "none" => s \in shards[n]
         /\ \A k \in Keys :
              resp[n]["loop"][k] # None => ShardOf[k] \in shards[n]
         /\ pc[n]["loop"] \notin {"spawn", "wait"}
              => /\ \A s \in Shards : job[n]["loop"][s] = "none"
                 /\ \A k \in Keys : resp[n]["loop"][k] = None
         /\ Listening(n)
         /\ pc[n]["loop"] \in HandlerPc
<1>1. Steady
  BY MoveShardAssumption DEF Steady
<1>2. SteadyNode(n)
  BY <1>1 DEF IndInv, SteadyInv
<1>3. pc[n]["init"] = "done" /\ UpInv /\ JobInv
  BY DEF IndInv, Constructed
<1>4. \A t \in Threads :
        pc[n][t] \notin {"spawn", "wait"}
          => /\ \A s \in Shards : job[n][t][s] = "none"
             /\ \A k \in Keys : resp[n][t][k] = None
  BY <1>3, Zenon DEF JobInv
<1>5. pc[n]["loop"] # "off"
  BY <1>3 DEF UpInv
<1>6. pc[n]["loop"] \in HandlerPc
  BY SMTT(30) DEF IndInv, TypeOK, Threads
<1> QED
  BY <1>2, <1>3, <1>4, <1>5, <1>6 DEF SteadyNode, Listening, Threads

(***************************************************************************)
(* The object the nodes are loaded with.                                   *)
(***************************************************************************)
LEMMA LoadedType ==
  Loaded \in Object /\ Loaded.exp = MaxTime + 1 /\ Loaded # None
    /\ Loaded.due = MaxTime + 1 /\ Loaded.lag = 0
<1>1. (CHOOSE v \in Values : TRUE) \in Values
  BY MoveShardAssumption
<1>2. MaxTime + 1 \in Nat /\ 0 \in Nat
  BY SMTT(30), KvServerAssumption
<1> DEFINE c == CHOOSE v \in Values : TRUE
<1>3. Loaded = [val |-> c, exp |-> MaxTime + 1, due |-> MaxTime + 1, lag |-> 0]
  BY DEF Loaded
<1> HIDE DEF c
<1>4. Loaded \in Object
  BY <1>1, <1>2, <1>3 DEF Object, c
<1> QED
  BY <1>3, <1>4, NoneAssumption

(***************************************************************************)
(* MoveInv holds initially.                                                *)
(***************************************************************************)
LEMMA InitMoveInv == MoveInit => MoveInv
<1> USE KvServerAssumption
<1> SUFFICES ASSUME MoveInit PROVE MoveInv
  OBVIOUS
<1>1. \A n \in Nodes : ProcOf[n] = Proc /\ ProcOf[n] \in Started
  BY OneProc, MoveShardAssumption
<1>2. \A n \in Nodes, t \in Threads : pc[n][t] = Idle(t)
  BY <1>1 DEF MoveInit, InitServers
<1>3. \A n \in Nodes, t \in Threads, s \in Shards : job[n][t][s] = "none"
  BY DEF MoveInit, InitServers, NoCopies
<1>4. \A n \in Nodes, t \in Threads, k \in Keys : resp[n][t][k] = None
  BY DEF MoveInit, InitServers, NoValues
<1>5. \A n \in Nodes, k \in Keys : data[n][k] =
         IF k \in RealKeys /\ n \in FirstMap[ShardOf[k]] THEN Loaded ELSE None
  BY DEF MoveInit
<1>6. smState = [p \in Procs |-> FirstMap] /\ Mapping = FirstMap
      /\ file = FirstMap /\ FirstMap \in [Shards -> SUBSET Nodes]
  BY OneProc DEF MoveInit, InitServers, Mapping
<1>7. \A n \in Nodes : /\ shards[n] = {s \in Shards : n \in FirstMap[s]}
                       /\ shards[n] = ShardsForNode(n)
  BY <1>1, <1>6, OneProc DEF MoveInit, InitServers
<1>8. now = 0 /\ notify = [p \in Procs |-> {}] /\ up = Started
      /\ mu = [n \in Nodes |-> "free"] /\ panics = {}
  BY DEF MoveInit, InitServers
<1>9. \A n \in Nodes, k \in Keys : data[n][k] # None =>
        /\ data[n][k] = Loaded /\ k # EmptyKey /\ n \in FirstMap[ShardOf[k]]
        /\ ShardOf[k] \in Shards
  BY <1>5 DEF RealKeys
<1>10. TypeOK
  <2>1. data \in [Nodes -> [Keys -> Object \cup {None}]]
    <3> HIDE DEF Object
    <3> QED
      BY LoadedType DEF MoveInit
  <2>2. pc \in [Nodes -> [Threads -> HandlerPc]]
    <3>1. \A t \in Threads : Idle(t) \in HandlerPc
      BY DEF Idle, HandlerPc
    <3>2. [t \in Threads |-> Idle(t)] \in [Threads -> HandlerPc]
      BY <3>1
    <3>3. [t \in Threads |-> "off"] \in [Threads -> HandlerPc]
      BY DEF HandlerPc
    <3> QED
      BY <3>2, <3>3 DEF MoveInit, InitServers
  <2>3. job \in [Nodes -> [Threads -> [Shards -> JobState]]]
    BY DEF MoveInit, InitServers, NoCopies, JobState
  <2>4. peers \in [Nodes -> [Threads -> [Shards -> SUBSET Nodes]]]
    BY DEF MoveInit, InitServers, NoPeers
  <2>5. resp \in [Nodes -> [Threads -> [Keys -> ShardValue \cup {None}]]]
    BY DEF MoveInit, InitServers, NoValues
  <2>6. shards \in [Nodes -> SUBSET Shards]
    BY DEF MoveInit, InitServers
  <2> QED
    BY SMTT(30), <1>6, <1>8, <2>1, <2>2, <2>3, <2>4, <2>5, <2>6
       DEF TypeOK, MoveInit, InitServers
<1>11. UpInv
  BY <1>1, <1>2, <1>8 DEF UpInv, Idle, Threads
<1>12. LockNotHeldWhileWaiting
  BY <1>2, <1>8 DEF LockNotHeldWhileWaiting, Idle, Threads
<1>13. NoLostUpdate
  BY <1>7 DEF NoLostUpdate
<1>14. InFlight /\ JobInv
  BY <1>3, <1>4 DEF InFlight, JobInv
<1>15. StoredIsAccepted
  BY <1>7, <1>9 DEF StoredIsAccepted, Accepts
<1>16. CopyKeepsExpiry
  BY SMTT(30), <1>9, LoadedType DEF CopyKeepsExpiry
<1>17. SteadyInv
  BY <1>2, <1>3, <1>4, <1>8 DEF SteadyInv, SteadyNode, Steady, Idle, Threads
<1>18. Constructed
  BY <1>2 DEF Constructed, Idle, Threads
<1>19. FreshInv
  BY SMTT(30), <1>4, <1>8, <1>9, LoadedType DEF FreshInv, Threads
<1>20. PlanInv
  <2>1. plan = <<>> /\ calls = 0 /\ disturbed = FALSE
    BY DEF MoveInit
  <2>2. plan \in Seq(Mappings) /\ Len(plan) = 0 /\ calls \in 0..2
        /\ 1..Len(plan) = {} /\ calls # 2
    BY SMTT(30), <2>1
  <2>3. Chained(file, plan)
    BY <2>2 DEF Chained
  <2> QED
    BY <1>6, <2>1, <2>2, <2>3 DEF PlanInv
<1>24. WholeInv /\ whole = Mapping
  BY <1>6 DEF WholeInv, MoveInit, Mappings
<1>21. RestInv
  BY SMTT(30), <1>2, <1>7, OneProc DEF RestInv, AtRest, Idle, MoveInit
<1>22. HoldInv
  <2>1. ASSUME NEW s \in Shards, NEW n \in Mapping[s]
        PROVE  ~Lacks(n, s) /\ Has(n, s)
    <3>1. n \in Nodes /\ s \in shards[n]
      BY <1>6, <1>7
    <3>2. ~Lacks(n, s)
      BY SMTT(30), <1>3, <3>1, OneProc DEF Lacks
    <3>3. Has(n, s)
      <4> SUFFICES ASSUME NEW k \in RealKeys, ShardOf[k] = s
                   PROVE  Found(n, k)
        BY DEF Has
      <4>1. data[n][k] = Loaded
        BY <1>5, <1>6, <3>1 DEF RealKeys
      <4> QED
        BY SMTT(30), <4>1, <1>8, LoadedType DEF Found, HasExpired
    <3> QED
      BY <3>2, <3>3
  <2> QED
    BY <1>24, <2>1 DEF HoldInv
<1>23. CopyInv
  BY SMTT(30), <1>3, OneProc DEF CopyInv
<1> QED
  BY <1>10, <1>11, <1>12, <1>13, <1>14, <1>15, <1>16, <1>17, <1>18, <1>19,
     <1>20, <1>21, <1>22, <1>23, <1>24 DEF MoveInv, IndInv


-----------------------------------------------------------------------------
(***************************************************************************)
(* To drop replicas is graceful, and so is to add one to a shard that has  *)
(* some.                                                                   *)
(***************************************************************************)
LEMMA DropsAreGraceful ==
  ASSUME NEW a \in Mappings, NEW b \in Mappings,
         \A s \in Shards : b[s] \subseteq a[s]
  PROVE  Graceful(a, b)
BY DEF Graceful

(* A mapping that adds at most one node to each shard is graceful.         *)
LEMMA AddsAreGraceful ==
  ASSUME NEW a \in Mappings, NEW b \in Mappings, NEW to \in [Shards -> Nodes],
         \A s \in Shards :
           b[s] = a[s] \/ (a[s] # {} /\ b[s] = a[s] \cup {to[s]})
  PROVE  Graceful(a, b)
BY DEF Graceful

(***************************************************************************)
(* Plans of one and of two mappings.                                       *)
(***************************************************************************)
LEMMA OneMapping ==
  ASSUME NEW m, NEW b \in Mappings, Graceful(m, b)
  PROVE  Chained(m, <<b>>)
<1>1. <<b>> \in Seq(Mappings) /\ Len(<<b>>) = 1 /\ <<b>>[1] = b
  BY SMTT(30)
<1> QED
  BY SMTT(30), <1>1 DEF Chained

(* The same for a plan of two mappings.                                    *)
LEMMA TwoMappings ==
  ASSUME NEW m, NEW b \in Mappings, NEW c \in Mappings, Graceful(m, b),
         Graceful(b, c)
  PROVE  Chained(m, <<b, c>>)
<1> DEFINE p == <<b, c>>
<1>1. p \in Seq(Mappings) /\ Len(p) = 2 /\ p[1] = b /\ p[2] = c
  BY SMTT(30)
<1> HIDE DEF p
<1>2. ASSUME NEW i \in 1..Len(p)
      PROVE  Graceful(IF i = 1 THEN m ELSE p[i - 1], p[i])
  <2>1. CASE i = 1
    BY <1>1, <2>1
  <2>2. CASE i = 2
    <3>1. p[i - 1] = b /\ p[i] = c /\ i # 1
      BY SMTT(30), <1>1, <2>2
    <3> QED
      BY <3>1
  <2> QED
    BY SMTT(30), <1>1, <2>1, <2>2
<1>3. Chained(m, p)
  BY <1>1, <1>2 DEF Chained
<1> QED
  BY <1>3 DEF p

(***************************************************************************)
(* What is left of a plan is a plan from the mapping that was taken.       *)
(***************************************************************************)
LEMMA RestOfPlan ==
  ASSUME NEW m, NEW p, Chained(m, p), p # <<>>
  PROVE  /\ Head(p) \in Mappings
         /\ Graceful(m, Head(p))
         /\ Chained(Head(p), Tail(p))
<1>1. p \in Seq(Mappings) /\ Len(p) \in Nat /\ Len(p) > 0
  BY SMTT(30) DEF Chained
<1>2. Head(p) = p[1] /\ p[1] \in Mappings
  BY SMTT(30), <1>1
<1>3. Graceful(m, p[1])
  BY SMTT(30), <1>1 DEF Chained
<1>4. /\ Tail(p) \in Seq(Mappings) /\ Len(Tail(p)) = Len(p) - 1
      /\ \A i \in 1..Len(p) - 1 : Tail(p)[i] = p[i + 1]
  BY SMTT(30), <1>1
<1>5. ASSUME NEW i \in 1..Len(Tail(p))
      PROVE  Graceful(IF i = 1 THEN p[1] ELSE Tail(p)[i - 1], Tail(p)[i])
  <2>1. i + 1 \in 1..Len(p) /\ i + 1 # 1 /\ Tail(p)[i] = p[i + 1]
    BY SMTT(30), <1>1, <1>4
  <2>2. (i + 1) - 1 = i
    BY SMTT(30), <1>4
  <2>3. Graceful(p[i], p[i + 1])
    BY <2>1, <2>2 DEF Chained
  <2>4. i # 1 => Tail(p)[i - 1] = p[i]
    <3> SUFFICES ASSUME i # 1 PROVE Tail(p)[i - 1] = p[i]
      OBVIOUS
    <3>1. i - 1 \in 1..Len(p) - 1 /\ (i - 1) + 1 = i
      BY SMTT(30), <1>1, <1>4
    <3> QED
      BY <1>4, <3>1
  <2> QED
    BY <2>1, <2>3, <2>4
<1> QED
  BY <1>2, <1>3, <1>4, <1>5 DEF Chained

(***************************************************************************)
(* Every movement that is begun has a graceful plan, or is a batch.        *)
(***************************************************************************)
Begins ==
  \E p \in Seq(Mappings) :
    /\ Begin(p)
    /\ \/ Chained(Mapping, p) /\ disturbed' = disturbed
       \/ disturbed' = TRUE

(* All movements of test_setup.go begin with a graceful plan.              *)
LEMMA MovesAreGraceful ==
  ASSUME TypeOK,
         \/ \E s \in Shards, src \in Nodes, dst \in Nodes : Move(s, src, dst)
         \/ \E n \in Nodes : DrainNode(n)
         \/ \E n \in Nodes : RemoveNode(n)
         \/ \E s \in Shards : DropShard(s)
         \/ \E b \in Batches : BeginBatch(b)
  PROVE  Begins
<1>0. Mapping \in Mappings
  BY OneProc DEF TypeOK, Mapping, Mappings
<1>1. ASSUME NEW s \in Shards, NEW src \in Nodes, NEW dst \in Nodes,
             Move(s, src, dst)
      PROVE  Begins
  <2> DEFINE added == AddReplica(Mapping, s, dst)
             rest  == DropReplica(added, s, src)
  <2>1. added \in Mappings /\ rest \in Mappings
    BY <1>0 DEF AddReplica, DropReplica, Mappings
  <2>2. Graceful(Mapping, added)
    <3>1. Mapping[s] # {}
      BY <1>1 DEF Move
    <3>2. \A i \in Shards : added[i] = Mapping[i]
            \/ (Mapping[i] # {} /\ added[i] = Mapping[i] \cup {dst})
      BY <1>0, <3>1 DEF AddReplica, Mappings
    <3> HIDE DEF added
    <3> QED
      BY <1>0, <2>1, <3>2 DEF Graceful
  <2>3. Graceful(added, rest)
    <3>1. \A i \in Shards : rest[i] \subseteq added[i]
      BY <1>0 DEF AddReplica, DropReplica, Mappings
    <3> HIDE DEF added, rest
    <3> QED
      BY <2>1, <3>1, DropsAreGraceful
  <2>4. Begin(<<added, rest>>) \/ Begin(<<added>>)
    BY <1>1 DEF Move
  <2> HIDE DEF added, rest
  <2>5. Chained(Mapping, <<added>>) /\ Chained(Mapping, <<added, rest>>)
    BY <2>1, <2>2, <2>3, OneMapping, TwoMappings
  <2> QED
    BY <1>1, <2>4, <2>5 DEF Begins, Move, Chained
<1>2. ASSUME NEW n \in Nodes, DrainNode(n)
      PROVE  Begins
  <2>1. PICK to \in [Shards -> Nodes] :
          LET added == [s \in Shards |-> IF n \in Mapping[s]
                          THEN Mapping[s] \cup {to[s]} ELSE Mapping[s]]
          IN Begin(<<added, DropNode(added, n)>>) /\ disturbed' = disturbed
    BY <1>2 DEF DrainNode
  <2> DEFINE added == [s \in Shards |-> IF n \in Mapping[s]
                          THEN Mapping[s] \cup {to[s]} ELSE Mapping[s]]
             rest  == DropNode(added, n)
  <2>2. added \in Mappings /\ rest \in Mappings
    BY <1>0 DEF DropNode, Mappings
  <2>3. Graceful(Mapping, added)
    <3>1. \A i \in Shards : added[i] = Mapping[i]
            \/ (Mapping[i] # {} /\ added[i] = Mapping[i] \cup {to[i]})
      OBVIOUS
    <3> HIDE DEF added
    <3> QED
      BY SMTT(30), <1>0, <2>2, <3>1, AddsAreGraceful
  <2>4. Graceful(added, rest)
    <3>1. \A i \in Shards : rest[i] \subseteq added[i]
      BY DEF DropNode
    <3> HIDE DEF added, rest
    <3> QED
      BY <2>2, <3>1, DropsAreGraceful
  <2>5. Begin(<<added, rest>>) /\ disturbed' = disturbed
    BY <2>1
  <2> HIDE DEF added, rest
  <2>6. Chained(Mapping, <<added, rest>>)
    BY <2>2, <2>3, <2>4, TwoMappings
  <2> QED
    BY <2>5, <2>6 DEF Begins, Chained
<1>3. ASSUME NEW b \in Mappings, \A s \in Shards : b[s] \subseteq Mapping[s],
             Begin(<<b>>), disturbed' = disturbed
      PROVE  Begins
  <2>1. Chained(Mapping, <<b>>)
    BY <1>0, <1>3, DropsAreGraceful, OneMapping
  <2>2. <<b>> \in Seq(Mappings)
    BY <2>1 DEF Chained
  <2> QED
    BY <1>3, <2>1, <2>2 DEF Begins
<1>4. ASSUME NEW n \in Nodes, RemoveNode(n)
      PROVE  Begins
  <2> DEFINE b == DropNode(Mapping, n)
  <2>1. b \in Mappings /\ \A s \in Shards : b[s] \subseteq Mapping[s]
    BY <1>0 DEF DropNode, Mappings
  <2>2. Begin(<<b>>) /\ disturbed' = disturbed
    BY <1>4 DEF RemoveNode
  <2> HIDE DEF b
  <2> QED
    BY <1>3, <2>1, <2>2
<1>5. ASSUME NEW s \in Shards, DropShard(s)
      PROVE  Begins
  <2> DEFINE b == [Mapping EXCEPT ![s] = {}]
  <2>1. b \in Mappings /\ \A i \in Shards : b[i] \subseteq Mapping[i]
    BY <1>0 DEF Mappings
  <2>2. Begin(<<b>>) /\ disturbed' = disturbed
    BY <1>5 DEF DropShard
  <2> HIDE DEF b
  <2> QED
    BY <1>3, <2>1, <2>2
<1>6. ASSUME NEW b \in Batches, BeginBatch(b)
      PROVE  Begins
  BY <1>6, MoveShardAssumption DEF Begins, BeginBatch
<1> QED
  BY <1>1, <1>2, <1>4, <1>5, <1>6


-----------------------------------------------------------------------------
(***************************************************************************)
(* What the servers do of themselves while shards are moved.               *)
(***************************************************************************)
LoopStep(n) ==
  \/ ListenLoop(n)
  \/ HandleShardMapUpdate(n, "loop")
  \/ \E s \in Shards : SpawnCopy(n, "loop", s)
  \/ \E s \in Shards, x \in Nodes : FetchShard(n, "loop", s, x)
  \/ \E s \in Shards, x \in Nodes : FetchFails(n, "loop", s, x)
  \/ SetCopies(n, "loop")

(***************************************************************************)
(* No server panics: each shard of a copy has nodes and stays hosted, and  *)
(* nothing is expired for cleanup to delete under GetShardContents.        *)
(***************************************************************************)
LEMMA NoServerPanics ==
  ASSUME MoveInv, NEW n \in Nodes, NEW t \in Threads
  PROVE  /\ \A s \in Shards : ~PanicNoNodes(n, t, s)
         /\ \A s \in Shards, x \in Nodes : ~PanicMapRace(n, t, s, x)
         /\ ~PanicMissingShard(n, t)
<1>1. t = "loop" \/ t = "init"
  BY OneProc
<1>2. IndInv /\ Constructed
  BY DEF MoveInv
<1>3. \A s \in Shards : job[n][t][s] # "doomed"
  BY SMTT(30), <1>1, <1>2, LoopFacts DEF MoveInv, CopyInv
<1>4. \A x \in Nodes, k \in Keys : data[x][k] # None => Found(x, k)
  <2> SUFFICES ASSUME NEW x \in Nodes, NEW k \in Keys, data[x][k] # None
               PROVE  Found(x, k)
    OBVIOUS
  <2>1. now <= MaxTime /\ MaxTime < data[x][k].exp /\ MaxTime \in Nat
    BY KvServerAssumption DEF MoveInv, FreshInv
  <2>2. data[x][k] \in Object /\ now \in Nat
    BY SMTT(30), <1>2 DEF IndInv, TypeOK
  <2>3. data[x][k].exp \in Nat
    BY <2>2 DEF Object
  <2> QED
    BY SMTT(30), <2>1, <2>2, <2>3 DEF Found, HasExpired
<1>5. pc[n][t] = "wait" => t = "loop"
  BY <1>1, <1>2 DEF Constructed
<1>6. pc[n][t] = "wait" => ~Misses(n, t)
  BY <1>2, <1>5, LoopFacts DEF Misses
<1> QED
  BY <1>3, <1>4, <1>6
     DEF PanicNoNodes, PanicMapRace, PanicMissingShard, CopiesReady

(***************************************************************************)
(* Cleanup finds nothing to delete.                                        *)
(***************************************************************************)
LEMMA NothingToClean ==
  ASSUME MoveInv, NEW n \in Nodes, NEW s \in Shards, Cleanup(n, s)
  PROVE  UNCHANGED vars
<1>1. TypeOK
  BY DEF MoveInv, IndInv
<1>2. ASSUME NEW k \in Keys, data[n][k] # None
      PROVE  ~HasExpired(data[n][k])
  <2>1. now <= MaxTime /\ MaxTime < data[n][k].exp /\ MaxTime \in Nat
    BY <1>2, KvServerAssumption DEF MoveInv, FreshInv
  <2>2. data[n][k] \in Object /\ now \in Nat
    BY SMTT(30), <1>1, <1>2 DEF TypeOK
  <2>3. data[n][k].exp \in Nat
    BY <2>2 DEF Object
  <2> QED
    BY SMTT(30), <2>1, <2>2, <2>3 DEF HasExpired
<1> DEFINE new == [k \in Keys |->
       IF ShardOf[k] = s /\ data[n][k] # None /\ HasExpired(data[n][k])
       THEN None ELSE data[n][k]]
<1>3. data' = [data EXCEPT ![n] = new]
  BY DEF Cleanup
<1>4. new = data[n]
  <2>1. data[n] = [k \in Keys |-> data[n][k]]
    BY <1>1 DEF TypeOK
  <2>2. \A k \in Keys : new[k] = data[n][k]
    BY <1>2
  <2> QED
    BY <2>1, <2>2
<1> HIDE DEF new
<1>5. data' = data
  BY <1>1, <1>3, <1>4 DEF TypeOK
<1> QED
  BY <1>5 DEF Cleanup, vars, mapVars, copyVars

(***************************************************************************)
(* A step in which no copy gives up leaves the history alone.              *)
(***************************************************************************)
LEMMA NoneGaveUp ==
  ASSUME MoveInv, Watched, \A n \in Nodes, s \in Shards : ~GaveUp(n, s)
  PROVE  UNCHANGED moveVars
<1>1. whole' = [s \in Shards |-> whole[s]]
  BY DEF Watched
<1>2. whole \in [Shards -> SUBSET Nodes] /\ disturbed \in BOOLEAN
  BY DEF MoveInv, WholeInv, PlanInv, Mappings
<1>3. whole' = whole
  BY <1>1, <1>2
<1>4. disturbed' = disturbed
  BY <1>2 DEF Watched
<1> QED
  BY <1>3, <1>4 DEF Watched, moveVars

(***************************************************************************)
(* The steps there are.                                                    *)
(***************************************************************************)
LEMMA MoveCases ==
  ASSUME MoveInv, [MoveNext]_allVars
  PROVE  \/ Begins
         \/ UpdateShardMapping
         \/ CallUpdate
         \/ \E n \in Nodes : LoopStep(n) /\ Watched
         \/ UNCHANGED vars /\ UNCHANGED moveVars
<1>1. CASE UNCHANGED allVars
  BY <1>1 DEF allVars
<1>2. CASE ServerStep /\ Watched
  <2>1. ASSUME NEW n \in Nodes, MakeKvServer(n)
        PROVE  FALSE
    BY <2>1 DEF MakeKvServer, MoveInv, Constructed
  <2>2. ASSUME NEW n \in Nodes, NEW t \in Threads, Handler(n, t)
        PROVE  LoopStep(n)
    <3>1. CASE t = "loop"
      BY <2>2, <3>1, NoServerPanics DEF Handler, LoopStep
    <3>2. CASE t = "init"
      <4>1. pc[n]["init"] = "done" /\ \A s \in Shards : job[n]["init"][s] = "none"
        BY LoopFacts DEF MoveInv, Constructed
      <4> QED
        BY <2>2, <3>2, <4>1
           DEF Handler, HandleShardMapUpdate, SpawnCopy, FetchShard, FetchFails,
               PanicNoNodes, SetCopies, PanicMissingShard, CopiesReady
    <3> QED
      BY <3>1, <3>2, OneProc
  <2>3. ASSUME NEW n \in Nodes, ListenLoop(n)
        PROVE  LoopStep(n)
    BY <2>3 DEF LoopStep
  <2>4. ASSUME UNCHANGED vars
        PROVE  UNCHANGED moveVars
    BY <1>2, <2>4, NoneGaveUp DEF vars, copyVars, GaveUp
  <2> QED
    BY <1>2, <2>1, <2>2, <2>3, <2>4, NoServerPanics, NothingToClean
       DEF ServerStep
<1>3. TypeOK
  BY DEF MoveInv, IndInv
<1> QED
  BY <1>1, <1>2, <1>3, MovesAreGraceful DEF MoveNext

(***************************************************************************)
(* KvServer's invariants are kept: only UpdateShardMapping is no step of   *)
(* KvServer, and it changes nothing but the file.                          *)
(***************************************************************************)
LEMMA MoveKeepsServers ==
  ASSUME MoveInv, [MoveNext]_allVars
  PROVE  IndInv'
<1>1. CASE UpdateShardMapping
  <2>1. UNCHANGED <<edits, starts, up, panics, smState, notify, pc, mu, shards,
                    data, job, peers, resp, now>>
    BY <1>1 DEF UpdateShardMapping, copyVars
  <2>2. file' \in [Shards -> SUBSET Nodes]
    BY SMTT(30), <1>1 DEF UpdateShardMapping, MoveInv, PlanInv, Mappings
  <2>3. TypeOK'
    BY <2>1, <2>2 DEF MoveInv, IndInv, TypeOK
  <2>4. UpInv' /\ LockNotHeldWhileWaiting' /\ JobInv'
    BY SMTT(30), <2>1 DEF MoveInv, IndInv, UpInv, LockNotHeldWhileWaiting, JobInv
  <2>5. NoLostUpdate'
    BY <2>1 DEF MoveInv, IndInv, NoLostUpdate, Listening, ShardsForNode
  <2>6. InFlight' /\ CopyKeepsExpiry'
    BY <2>1 DEF MoveInv, IndInv, InFlight, CopyKeepsExpiry
  <2>7. StoredIsAccepted' /\ SteadyInv'
    BY <2>1 DEF MoveInv, IndInv, StoredIsAccepted, Accepts, SteadyInv,
                SteadyNode, Steady
  <2> QED
    BY <2>3, <2>4, <2>5, <2>6, <2>7 DEF IndInv
<1>2. CASE [Next]_vars
  BY <1>2, NextIndInv DEF MoveInv
<1>3. Begins => UNCHANGED vars
  BY DEF Begins, Begin
<1>4. CallUpdate => Next
  BY OneProc DEF CallUpdate, Next, MapStep
<1>5. ServerStep => Next
  BY DEF Next
<1>6. TypeOK
  BY DEF MoveInv, IndInv
<1> QED
  BY <1>1, <1>2, <1>3, <1>4, <1>5, <1>6, MovesAreGraceful
     DEF MoveNext, allVars


-----------------------------------------------------------------------------
(***************************************************************************)
(* A step that leaves the stores, the copies and the map alone.            *)
(***************************************************************************)
LEMMA SameContents ==
  ASSUME MoveInv,
         UNCHANGED <<smState, shards, data, job, peers, resp, now, whole>>
  PROVE  FreshInv' /\ HoldInv' /\ CopyInv'
<1>1. Mapping' = Mapping
  BY DEF Mapping
<1>2. \A n, s : (Lacks(n, s)' <=> Lacks(n, s)) /\ (Has(n, s)' <=> Has(n, s))
  BY DEF Lacks, Has, Found, HasExpired
<1>3. FreshInv'
  BY DEF MoveInv, FreshInv
<1>4. HoldInv'
  <2> SUFFICES ASSUME NEW s \in Shards PROVE HoldInv!(s)'
    BY DEF HoldInv
  <2>1. HoldInv!(s) /\ whole'[s] = whole[s]
    BY DEF MoveInv, HoldInv
  <2> QED
    BY <1>1, <1>2, <2>1
<1>5. CopyInv'
  BY SMTT(30), <1>1, <1>2 DEF MoveInv, CopyInv
<1> QED
  BY <1>3, <1>4, <1>5

(***************************************************************************)
(* A movement is begun.                                                    *)
(***************************************************************************)
LEMMA BeginKeeps ==
  ASSUME MoveInv, Begins
  PROVE  (/\ Constructed /\ FreshInv /\ PlanInv /\ WholeInv /\ RestInv
          /\ HoldInv /\ CopyInv)'
<1>1. PICK p \in Seq(Mappings) :
        /\ Begin(p)
        /\ \/ Chained(Mapping, p) /\ disturbed' = disturbed
           \/ disturbed' = TRUE
  BY DEF Begins
<1>2. UNCHANGED <<file, smState, notify, pc, shards, data, job, peers, resp,
                  now, calls, whole>>
      /\ plan' = p /\ calls = 0
  BY <1>1 DEF Begin, Returned, vars
<1>3. FreshInv' /\ HoldInv' /\ CopyInv'
  BY <1>2, SameContents
<1>4. Constructed' /\ RestInv'
  BY <1>2 DEF MoveInv, Constructed, RestInv, AtRest, ShardsForNode
<1>5. file = Mapping /\ Mapping' = Mapping /\ disturbed \in BOOLEAN
  BY SMTT(30), <1>2 DEF MoveInv, PlanInv, Mapping
<1>6. disturbed' \in BOOLEAN /\ (~disturbed' => Chained(file', plan'))
  BY <1>1, <1>2, <1>5
<1>7. PlanInv'
  BY SMTT(30), <1>1, <1>2, <1>5, <1>6 DEF PlanInv
<1>8. WholeInv'
  <2>1. ~disturbed' => ~disturbed
    BY <1>1, <1>5
  <2> QED
    BY <1>2, <1>5, <2>1 DEF MoveInv, WholeInv
<1> QED
  BY <1>3, <1>4, <1>7, <1>8

(***************************************************************************)
(* UpdateShardMapping begins when everyone is at rest.                     *)
(***************************************************************************)
LEMMA MappingKeeps ==
  ASSUME MoveInv, UpdateShardMapping
  PROVE  (/\ Constructed /\ FreshInv /\ PlanInv /\ WholeInv /\ RestInv
          /\ HoldInv /\ CopyInv)'
<1>1. /\ UNCHANGED <<smState, notify, pc, shards, data, job, peers, resp, now,
                     whole, disturbed>>
      /\ file' = Head(plan) /\ plan' = Tail(plan) /\ calls' = 2
      /\ calls = 0 /\ notify[Proc] = {} /\ plan # <<>>
  BY DEF UpdateShardMapping, Returned, copyVars
<1>2. FreshInv' /\ HoldInv' /\ CopyInv'
  BY <1>1, SameContents
<1>3. Constructed' /\ RestInv'
  BY <1>1 DEF MoveInv, Constructed, RestInv, AtRest, ShardsForNode
<1>4. /\ file = Mapping /\ disturbed \in BOOLEAN /\ Tail(plan) \in Seq(Mappings)
      /\ ~disturbed => Chained(file, plan)
  BY SMTT(30), <1>1 DEF MoveInv, PlanInv
<1>5. Mapping' = Mapping
  BY <1>1 DEF Mapping
<1>6. ~disturbed' => Graceful(Mapping', file') /\ Chained(file', plan')
  BY <1>1, <1>4, <1>5, RestOfPlan
<1>7. PlanInv'
  BY SMTT(30), <1>1, <1>4, <1>6 DEF PlanInv
<1>8. WholeInv'
  BY <1>1, <1>5 DEF MoveInv, WholeInv
<1> QED
  BY <1>2, <1>3, <1>7, <1>8

(***************************************************************************)
(* The sure replicas after an Update are replicas, and all are sure after  *)
(* a graceful one if all were.                                             *)
(***************************************************************************)
LEMMA SureAfter ==
  /\ \A a, b : (b # {} => a \cap b # {}) /\ (\A x, y \in b \ a : x = y)
               => Sure(a, a, b) = b
  /\ \A c, a, b : Sure(c, a, b) \subseteq b
<1>1. ASSUME NEW a, NEW b, b # {} => a \cap b # {},
             \A x, y \in b \ a : x = y
      PROVE  Sure(a, a, b) = b
  <2>1. b = {} => a \cap b = b
    OBVIOUS
  <2> QED
    BY <1>1, <2>1 DEF Sure
<1>2. ASSUME NEW c, NEW a, NEW b
      PROVE  Sure(c, a, b) \subseteq b
  BY DEF Sure
<1> QED
  BY <1>1, <1>2

(***************************************************************************)
(* The first Update puts the mapping in force over servers at rest: the    *)
(* replicas that stay have the contents, and those that come have not.     *)
(* The second changes nothing, and every server has seen the first.        *)
(***************************************************************************)
LEMMA CallUpdateKeeps ==
  ASSUME MoveInv, CallUpdate
  PROVE  (/\ Constructed /\ FreshInv /\ PlanInv /\ WholeInv /\ RestInv
          /\ HoldInv /\ CopyInv)'
<1> USE OneProc
<1>0. TypeOK /\ calls \in {1, 2} /\ IndInv /\ Constructed
  BY SMTT(30) DEF MoveInv, IndInv, PlanInv, CallUpdate
<1>1. /\ UNCHANGED <<file, pc, shards, data, job, peers, resp, now, plan,
                     disturbed>>
      /\ calls' = calls - 1
      /\ notify[Proc] = {}
      /\ Mapping' = file
      /\ notify'[Proc] = Listeners(Proc)
      /\ smState' = [smState EXCEPT ![Proc] = file]
  BY <1>0 DEF CallUpdate, Update, copyVars, TypeOK, Mapping
<1>2. Constructed'
  BY <1>1 DEF MoveInv, Constructed
<1>5. \A s \in Shards : whole'[s] = Sure(whole[s], Mapping[s], file[s])
  BY DEF CallUpdate
<1>6. /\ whole \in Mappings /\ Mapping \in Mappings /\ file \in Mappings
      /\ plan \in Seq(Mappings) /\ disturbed \in BOOLEAN
      /\ \A s \in Shards : whole[s] \subseteq Mapping[s]
      /\ ~disturbed => whole = Mapping
  BY <1>0 DEF MoveInv, WholeInv, PlanInv, TypeOK, Mapping, Mappings
<1>7. whole' \in Mappings /\ \A s \in Shards : whole'[s] \subseteq Mapping'[s]
  <2>1. \A s \in Shards : whole'[s] \subseteq file[s]
    <3> SUFFICES ASSUME NEW s \in Shards PROVE whole'[s] \subseteq file[s]
      OBVIOUS
    <3>1. Sure(whole[s], Mapping[s], file[s]) \subseteq file[s]
      BY SureAfter
    <3> QED
      BY <1>5, <3>1
  <2>2. \A s \in Shards : whole'[s] \in SUBSET Nodes
    BY <1>6, <2>1 DEF Mappings
  <2>3. whole' = [s \in Shards |-> whole'[s]]
    BY DEF CallUpdate
  <2>4. whole' \in Mappings
    BY <2>2, <2>3 DEF Mappings
  <2> QED
    BY <1>1, <2>1, <2>4
<1>8. ASSUME \A s \in Shards : whole'[s] = file[s]
      PROVE  whole' = Mapping'
  BY SMTT(30), <1>1, <1>6, <1>7, <1>8 DEF Mappings
<1>3. CASE calls = 2
  <2>1. ~disturbed => Graceful(Mapping, file) /\ Chained(file, plan)
    BY <1>3 DEF MoveInv, PlanInv
  <2>2. calls' = 1
    BY SMTT(30), <1>1, <1>3
  <2>3. \A n \in Nodes : AtRest(n)
    BY <1>3 DEF MoveInv, RestInv
  <2>4. \A n \in Nodes, s \in Shards : job[n]["loop"][s] = "none"
    BY <1>0, <2>3, LoopFacts DEF AtRest
  <2>5. \A n \in Nodes, s \in Shards : Lacks(n, s) <=> n \notin Mapping[s]
    BY SMTT(30), <2>3, <2>4 DEF Lacks, AtRest
  <2>6. \A n \in Nodes, s \in Shards :
          (Lacks(n, s)' <=> Lacks(n, s)) /\ (Has(n, s)' <=> Has(n, s))
    BY <1>1 DEF Lacks, Has, Found, HasExpired
  <2>7. Mapping \in Mappings /\ Mapping' \in Mappings
    BY <1>0, <1>1 DEF TypeOK, Mapping, Mappings
  <2>8. FreshInv'
    BY <1>1 DEF MoveInv, FreshInv
  <2>9. PlanInv'
    <3>1. /\ ~disturbed' => Chained(file', plan')
          /\ file' = Mapping' /\ plan' \in Seq(Mappings)
          /\ disturbed' \in BOOLEAN
      BY <1>1, <1>6, <2>1
    <3> QED
      BY SMTT(30), <2>2, <3>1 DEF PlanInv
  <2>13. WholeInv'
    <3>1. ASSUME ~disturbed, NEW s \in Shards
          PROVE  whole'[s] = file[s]
      <4>1. whole'[s] = Sure(Mapping[s], Mapping[s], file[s])
        BY <1>5, <1>6, <3>1
      <4>2. /\ file[s] # {} => Mapping[s] \cap file[s] # {}
            /\ \A x, y \in file[s] \ Mapping[s] : x = y
        BY <2>1, <3>1 DEF Graceful
      <4> QED
        BY <4>1, <4>2, SureAfter
    <3> QED
      BY <1>1, <1>7, <1>8, <3>1 DEF WholeInv
  <2>10. RestInv'
    BY SMTT(30), <2>2 DEF RestInv
  <2>11. CopyInv'
    BY <1>1, <2>4 DEF CopyInv
  <2>12. HoldInv'
    <3> SUFFICES ASSUME NEW s \in Shards PROVE HoldInv!(s)'
      BY DEF HoldInv
    <3>1. \A n \in Mapping'[s] : n \in Nodes /\
            (Lacks(n, s)' <=> n \notin Mapping[s])
      BY <2>5, <2>6, <2>7 DEF Mappings
    <3>2. \A n \in whole[s] : n \in Nodes /\ n \in Mapping[s] /\ Has(n, s)'
      BY <1>6, <2>5, <2>6, <2>7 DEF Mappings, MoveInv, HoldInv
    <3> DEFINE a == Mapping[s]
               b == Mapping'[s]
               c == whole[s]
    <3>3. whole'[s] = Sure(c, a, b)
      BY <1>1, <1>5
    <3>4. CASE a = c /\ a \cap b # {} /\ \A x, y \in b \ a : x = y
      <4>1. whole'[s] = b
        BY <3>3, <3>4 DEF Sure
      <4>2. \A n \in b : Lacks(n, s)' \/ Has(n, s)'
        BY <3>1, <3>2, <3>4
      <4>3. \A n \in b : Lacks(n, s)' => \A m \in b \ {n} : ~Lacks(m, s)'
        BY <3>1, <3>4
      <4>4. \E n \in b : ~Lacks(n, s)'
        BY <3>1, <3>4
      <4> QED
        BY <4>1, <4>2, <4>3, <4>4
    <3>5. CASE ~(a = c /\ a \cap b # {} /\ \A x, y \in b \ a : x = y)
      <4>1. whole'[s] = c \cap b
        BY <3>3, <3>5 DEF Sure
      <4>2. \A n \in c \cap b : ~Lacks(n, s)' /\ Has(n, s)'
        BY <3>1, <3>2
      <4> QED
        BY <4>1, <4>2
    <3> QED
      BY <3>4, <3>5
  <2> QED
    BY <1>2, <2>8, <2>9, <2>10, <2>11, <2>12, <2>13
<1>4. CASE calls = 1
  <2>1. file = Mapping /\ (~disturbed => Chained(file, plan))
    BY SMTT(30), <1>4 DEF MoveInv, PlanInv
  <2>2. smState' = smState
    BY SMTT(30), <1>0, <1>1, <2>1 DEF Mapping, TypeOK
  <2>8. whole' = whole
    <3>1. \A s \in Shards : whole'[s] = whole[s]
      <4> SUFFICES ASSUME NEW s \in Shards PROVE whole'[s] = whole[s]
        OBVIOUS
      <4>1. whole'[s] = Sure(whole[s], Mapping[s], Mapping[s])
        BY <1>5, <2>1
      <4>2. whole[s] \subseteq Mapping[s]
        BY <1>6
      <4>3. whole[s] \cap Mapping[s] = whole[s]
        BY <4>2
      <4> QED
        BY <4>1, <4>3 DEF Sure
    <3> QED
      BY SMTT(30), <1>6, <1>7, <3>1 DEF Mappings
  <2>3. FreshInv' /\ HoldInv' /\ CopyInv'
    BY <1>1, <2>2, <2>8, SameContents
  <2>9. WholeInv'
    BY <1>1, <1>6, <2>1, <2>8 DEF WholeInv
  <2>4. calls' = 0
    BY SMTT(30), <1>1, <1>4
  <2>5. PlanInv'
    <3>1. /\ ~disturbed' => Chained(file', plan')
          /\ file' = Mapping' /\ plan' \in Seq(Mappings)
          /\ disturbed' \in BOOLEAN
      BY <1>1, <1>6, <2>1
    <3> QED
      BY SMTT(30), <2>4, <3>1 DEF PlanInv
  <2>6. ASSUME NEW n \in Nodes
        PROVE  /\ n \in notify'[Proc]
               /\ shards[n] = ShardsForNode(n) \/ pc[n]["loop"] = "lock"
    <3>1. Listening(n)
      BY <1>0, LoopFacts
    <3>2. n \in Listeners(Proc)
      BY <3>1 DEF Listeners, NodesOf
    <3>3. NoLostUpdate /\ pc[n]["init"] = "done"
      BY <1>0 DEF IndInv, Constructed
    <3>4. shards[n] # ShardsForNode(n) => \E t \in Threads : pc[n][t] = "lock"
      BY <1>1, <3>1, <3>3 DEF NoLostUpdate
    <3> QED
      BY <1>1, <3>2, <3>3, <3>4
  <2>7. RestInv'
    BY SMTT(30), <1>1, <2>2, <2>4, <2>6 DEF RestInv, ShardsForNode
  <2> QED
    BY <1>2, <2>3, <2>5, <2>7, <2>9
<1> QED
  BY <1>0, <1>3, <1>4


-----------------------------------------------------------------------------
(***************************************************************************)
(* The steps of the servers leave the plan alone.                          *)
(***************************************************************************)
LEMMA LoopKeepsPlan ==
  ASSUME MoveInv, UNCHANGED <<file, smState, plan, calls, whole, disturbed>>
  PROVE  PlanInv' /\ WholeInv' /\ Mapping' = Mapping
         /\ \A n : ShardsForNode(n)' = ShardsForNode(n)
<1>1. Mapping' = Mapping /\ \A n : ShardsForNode(n)' = ShardsForNode(n)
  BY DEF Mapping, ShardsForNode
<1>2. PlanInv
  BY DEF MoveInv
<1>3. ~disturbed' => Chained(file', plan')
  BY <1>2 DEF PlanInv
<1>4. ~disturbed' => (calls' = 2 => Graceful(Mapping', file'))
  BY <1>1, <1>2 DEF PlanInv
<1>5. PlanInv'
  BY <1>1, <1>2, <1>3, <1>4 DEF PlanInv
<1>6. WholeInv'
  BY <1>1 DEF MoveInv, WholeInv
<1> QED
  BY <1>1, <1>5, <1>6

(***************************************************************************)
(* A listen loop takes its notification.                                   *)
(***************************************************************************)
LEMMA ListenKeeps ==
  ASSUME MoveInv, NEW n \in Nodes, ListenLoop(n), UNCHANGED moveVars
  PROVE  (/\ Constructed /\ FreshInv /\ PlanInv /\ WholeInv /\ RestInv
          /\ HoldInv /\ CopyInv)'
<1> USE OneProc
<1>1. UNCHANGED <<file, smState, shards, data, job, peers, resp, now, plan,
                  calls, whole, disturbed>>
  BY DEF ListenLoop, copyVars, moveVars
<1>2. TypeOK
  BY DEF MoveInv, IndInv
<1>3. /\ n \in notify[Proc] /\ pc[n]["loop"] = "select"
      /\ notify'[Proc] = notify[Proc] \ {n}
      /\ \A m \in Nodes : pc'[m]["init"] = pc[m]["init"]
      /\ \A m \in Nodes : pc'[m]["loop"] = IF m = n THEN "lock"
                                           ELSE pc[m]["loop"]
  BY SMTT(30), <1>2 DEF ListenLoop, TypeOK, Threads
<1>4. Constructed'
  BY <1>1, <1>3 DEF MoveInv, Constructed
<1>5. FreshInv' /\ HoldInv' /\ CopyInv'
  BY <1>1, SameContents
<1>6. PlanInv' /\ WholeInv'
  BY <1>1, LoopKeepsPlan
<1>7. RestInv'
  <2>1. calls # 2
    BY <1>3 DEF MoveInv, RestInv
  <2>2. ASSUME calls = 0, NEW m \in Nodes
        PROVE  /\ m \notin notify'[Proc] => AtRest(m)'
               /\ (shards[m] = ShardsForNode(m) \/ pc[m]["loop"] = "lock")'
    <3>1. /\ m \notin notify[Proc] => AtRest(m)
          /\ shards[m] = ShardsForNode(m) \/ pc[m]["loop"] = "lock"
      BY <2>2 DEF MoveInv, RestInv
    <3>2. ShardsForNode(m)' = ShardsForNode(m) /\ shards'[m] = shards[m]
      BY <1>1, LoopKeepsPlan
    <3> QED
      BY <1>3, <3>1, <3>2 DEF AtRest
  <2> QED
    BY <1>1, <2>1, <2>2 DEF RestInv
<1> QED
  BY <1>4, <1>5, <1>6, <1>7

(***************************************************************************)
(* A server follows the map: what it is to host and has not is to copy,    *)
(* and what goes is of shards it is not to host.                           *)
(***************************************************************************)
LEMMA HandleKeeps ==
  ASSUME MoveInv, NEW n \in Nodes, HandleShardMapUpdate(n, "loop"),
         UNCHANGED moveVars
  PROVE  (/\ Constructed /\ FreshInv /\ PlanInv /\ WholeInv /\ RestInv
          /\ HoldInv /\ CopyInv)'
<1> USE OneProc
<1>1. UNCHANGED <<file, smState, notify, peers, resp, now, plan, calls, whole,
                  disturbed>>
  BY DEF HandleShardMapUpdate, mapVars, moveVars
<1>2. TypeOK /\ IndInv /\ Constructed
  BY DEF MoveInv, IndInv
<1>3. \A m \in Nodes, u \in Threads : Handled(n, "loop", m, u)
  BY <1>2, HandleEntry
<1>4. /\ PlanInv' /\ WholeInv' /\ Mapping' = Mapping
      /\ \A m : ShardsForNode(m)' = ShardsForNode(m)
  BY <1>1, LoopKeepsPlan
<1>5. pc[n]["loop"] = "lock" /\ \A s \in Shards : job[n]["loop"][s] = "none"
  BY <1>2, LoopFacts DEF HandleShardMapUpdate
<1>6. Mapping \in Mappings
  BY <1>2 DEF TypeOK, Mapping, Mappings
<1>7. Constructed'
  BY <1>1, <1>2, <1>3 DEF Constructed, Handled, Threads
<1>8. FreshInv'
  BY SMTT(30), <1>1, <1>3 DEF MoveInv, FreshInv, Handled
<1>9. ASSUME NEW s \in Shards, NEW m \in Mapping[s]
      PROVE  /\ m \in Nodes
             /\ Lacks(m, s)' <=> Lacks(m, s)
             /\ Has(m, s) => Has(m, s)'
  <2>1. m \in Nodes /\ s \in ShardsForNode(m)
    BY <1>6 DEF Mappings
  <2>2. Handled(n, "loop", m, "loop")
    BY <1>3, <2>1
  <2>3. Lacks(m, s)' <=> Lacks(m, s)
    BY SMTT(30), <1>5, <2>1, <2>2 DEF Lacks, Handled
  <2>4. \A k \in RealKeys : ShardOf[k] = s => data'[m][k] = data[m][k]
    BY <2>1, <2>2 DEF Handled, RealKeys
  <2>5. Has(m, s) => Has(m, s)'
    BY <1>1, <2>4 DEF Has, Found, HasExpired
  <2> QED
    BY <2>1, <2>3, <2>5
<1>10. HoldInv'
  <2> SUFFICES ASSUME NEW s \in Shards PROVE HoldInv!(s)'
    BY DEF HoldInv
  <2>1. HoldInv!(s) /\ whole'[s] = whole[s] /\ whole[s] \subseteq Mapping[s]
    BY <1>1 DEF MoveInv, HoldInv, WholeInv
  <2> QED
    BY <1>4, <1>9, <2>1
<1>11. CopyInv'
  <2> SUFFICES ASSUME NEW m \in Nodes, NEW s \in Shards
               PROVE  CopyInv!(m, s)'
    BY DEF CopyInv
  <2>1. Handled(n, "loop", m, "loop")
    BY <1>3
  <2>2. CASE m = n
    <3>1. job'[m]["loop"][s] \in {"added", "none"}
          /\ (job'[m]["loop"][s] = "added" => s \in ShardsForNode(m))
      BY <2>1, <2>2 DEF Handled
    <3>2. job'[m]["loop"][s] = "added" => m \in Mapping'[s]
      BY <1>4, <3>1
    <3> QED
      BY <3>1, <3>2
  <2>3. CASE m # n
    <3>1. job'[m]["loop"][s] = job[m]["loop"][s]
      BY <2>1, <2>3 DEF Handled
    <3>2. CopyInv!(m, s)
      BY DEF MoveInv, CopyInv
    <3> QED
      BY <1>1, <1>4, <1>9, <3>1, <3>2
  <2> QED
    BY <2>2, <2>3
<1>12. RestInv'
  <2>1. ASSUME NEW m \in Nodes, AtRest(m)
        PROVE  AtRest(m)'
    <3>1. Handled(n, "loop", m, "loop")
      BY <1>3
    <3> QED
      BY SMTT(30), <1>4, <2>1, <3>1 DEF Handled, AtRest, Idle
  <2>2. ASSUME NEW m \in Nodes,
               shards[m] = ShardsForNode(m) \/ pc[m]["loop"] = "lock"
        PROVE  (shards[m] = ShardsForNode(m) \/ pc[m]["loop"] = "lock")'
    <3>1. Handled(n, "loop", m, "loop")
      BY <1>3
    <3> QED
      BY <1>4, <2>2, <3>1 DEF Handled
  <2> QED
    BY <1>1, <2>1, <2>2 DEF MoveInv, RestInv
<1> QED
  BY <1>4, <1>7, <1>8, <1>10, <1>11, <1>12


(***************************************************************************)
(* A step of a copy, which leaves what servers host and store alone, keeps *)
(* what is said of servers at rest.                                        *)
(***************************************************************************)
LEMMA CopyKeepsRest ==
  ASSUME MoveInv, UNCHANGED <<smState, notify, shards, calls>>,
         NEW n \in Nodes, pc[n]["loop"] \in {"spawn", "wait"},
         \A m \in Nodes : m # n => pc'[m]["loop"] = pc[m]["loop"]
  PROVE  RestInv'
<1>1. \A m : ShardsForNode(m)' = ShardsForNode(m)
  BY DEF ShardsForNode
<1>2. \A m \in Nodes : AtRest(m) => AtRest(m)'
  BY <1>1 DEF AtRest
<1>3. \A m \in Nodes :
        shards[m] = ShardsForNode(m) \/ pc[m]["loop"] = "lock"
          => (shards[m] = ShardsForNode(m) \/ pc[m]["loop"] = "lock")'
  BY <1>1
<1> QED
  BY <1>2, <1>3 DEF MoveInv, RestInv

(***************************************************************************)
(* A step after which the same replicas lack a shard or have it keeps what *)
(* is said of them.                                                        *)
(***************************************************************************)
LEMMA SameHold ==
  ASSUME MoveInv, Mapping' = Mapping, whole' = whole,
         \A m \in Nodes, i \in Shards :
           (Lacks(m, i)' <=> Lacks(m, i)) /\ (Has(m, i) => Has(m, i)')
  PROVE  HoldInv'
<1> SUFFICES ASSUME NEW s \in Shards PROVE HoldInv!(s)'
  BY DEF HoldInv
<1>3. HoldInv!(s) /\ whole[s] \subseteq Mapping[s]
  BY DEF MoveInv, HoldInv, WholeInv
<1>1. Mapping[s] \subseteq Nodes
  BY SMTT(30), OneProc DEF MoveInv, IndInv, TypeOK, Mapping
<1>2. \A m \in Mapping[s] :
        (Lacks(m, s)' <=> Lacks(m, s)) /\ (Has(m, s) => Has(m, s)')
  BY <1>1
<1> QED
  BY <1>2, <1>3

(***************************************************************************)
(* A copy is spawned, to ask all other replicas; there is one to ask if    *)
(* the copy is for a sure replica.                                         *)
(***************************************************************************)
LEMMA SpawnKeeps ==
  ASSUME MoveInv, NEW n \in Nodes, NEW s \in Shards,
         SpawnCopy(n, "loop", s), UNCHANGED moveVars
  PROVE  (/\ Constructed /\ FreshInv /\ PlanInv /\ WholeInv /\ RestInv
          /\ HoldInv /\ CopyInv)'
<1> USE OneProc
<1>1. UNCHANGED <<file, smState, notify, shards, data, resp, now, plan, calls,
                  whole, disturbed>>
  BY DEF SpawnCopy, mapVars, moveVars
<1>2. TypeOK /\ IndInv /\ Constructed
  BY DEF MoveInv, IndInv
<1>3. \A m \in Nodes, u \in Threads : Spawned(n, "loop", s, m, u)
  BY <1>2, SpawnEntry
<1>4. /\ PlanInv' /\ WholeInv' /\ Mapping' = Mapping
      /\ \A m : ShardsForNode(m)' = ShardsForNode(m)
  BY <1>1, LoopKeepsPlan
<1>5. pc[n]["loop"] = "spawn" /\ job[n]["loop"][s] = "added"
  BY DEF SpawnCopy
<1>6. n \in Mapping[s] /\ Lacks(n, s)
  BY <1>5 DEF MoveInv, CopyInv, Lacks
<1>7. n \in whole[s] => Mapping[s] # {n}
  BY <1>6 DEF MoveInv, HoldInv, WholeInv
<1>8. /\ job'[n]["loop"][s] = IF Mapping[s] = {n} THEN "got" ELSE "fetch"
      /\ peers'[n]["loop"][s] = Mapping[s] \ {n}
      /\ \A m \in Nodes, i \in Shards : m # n \/ i # s =>
           /\ job'[m]["loop"][i] = job[m]["loop"][i]
           /\ peers'[m]["loop"][i] = peers[m]["loop"][i]
  <2>1. NodesForShard(ProcOf[n], s) = Mapping[s]
    BY DEF NodesForShard, Mapping
  <2>2. Mapping[s] # {}
    BY <1>6
  <2>3. /\ job' = [job EXCEPT ![n]["loop"][s] =
                     IF Mapping[s] = {n} THEN "got" ELSE "fetch"]
        /\ peers' = [peers EXCEPT ![n]["loop"][s] = Mapping[s] \ {n}]
    BY <2>1, <2>2 DEF SpawnCopy
  <2> QED
    BY SMTT(30), <1>2, <2>3 DEF TypeOK
<1>9. \A m \in Nodes : pc'[m]["init"] = pc[m]["init"]
        /\ (m # n => pc'[m]["loop"] = pc[m]["loop"])
  BY <1>3 DEF Spawned, Threads
<1>10. Constructed'
  BY <1>1, <1>2, <1>9 DEF Constructed
<1>11. FreshInv'
  BY <1>1 DEF MoveInv, FreshInv
<1>12. \A m \in Nodes, i \in Shards :
         (Lacks(m, i)' <=> Lacks(m, i)) /\ (Has(m, i)' <=> Has(m, i))
  <2>1. \A m \in Nodes, i \in Shards : Has(m, i)' <=> Has(m, i)
    BY <1>1 DEF Has, Found, HasExpired
  <2>2. \A m \in Nodes, i \in Shards : Lacks(m, i)' <=> Lacks(m, i)
    BY SMTT(30), <1>1, <1>5, <1>8 DEF Lacks
  <2> QED
    BY <2>1, <2>2
<1>14. HoldInv'
  BY <1>1, <1>4, <1>12, SameHold
<1>15. CopyInv'
  <2> SUFFICES ASSUME NEW m \in Nodes, NEW i \in Shards
               PROVE  CopyInv!(m, i)'
    BY DEF CopyInv
  <2>1. CASE m = n /\ i = s
    BY <1>1, <1>4, <1>6, <1>7, <1>8, <2>1
  <2>2. CASE m # n \/ i # s
    <3>1. CopyInv!(m, i)
      BY DEF MoveInv, CopyInv
    <3>2. job'[m]["loop"][i] = job[m]["loop"][i]
          /\ peers'[m]["loop"][i] = peers[m]["loop"][i]
      BY <1>8, <2>2
    <3> QED
      BY <1>1, <1>4, <3>1, <3>2
  <2> QED
    BY <2>1, <2>2
<1>16. RestInv'
  BY <1>1, <1>5, <1>9, CopyKeepsRest
<1> QED
  BY <1>4, <1>10, <1>11, <1>14, <1>15, <1>16

(***************************************************************************)
(* A sure replica that copies a shard is the one that lacks it.            *)
(***************************************************************************)
LEMMA OnlyCopierLacks ==
  ASSUME MoveInv, NEW n \in Nodes, NEW s \in Shards,
         job[n]["loop"][s] # "none", n \in whole[s]
  PROVE  \A x \in Mapping[s] \ {n} : ~Lacks(x, s) /\ Has(x, s)
<1>1. Lacks(n, s)
  BY DEF Lacks
<1> QED
  BY <1>1 DEF MoveInv, HoldInv

(***************************************************************************)
(* The values that are sent have the time left that they need.             *)
(***************************************************************************)
LEMMA SentIsFresh ==
  ASSUME MoveInv, NEW n \in Nodes, NEW s \in Shards, NEW y \in Nodes,
         FetchShard(n, "loop", s, y), NEW k \in Keys, Found(y, k)
  PROVE  /\ TimeLeft(y, k, now') # None
         /\ MaxTime < now' + TimeLeft(y, k, now').ttl
<1>1. TypeOK /\ now' \in Nat /\ MaxTime \in Nat
  BY FetchClock, KvServerAssumption DEF MoveInv, IndInv
<1>2. data[y][k] \in Object /\ MaxTime < data[y][k].exp
  BY SMTT(30), <1>1 DEF Found, TypeOK, MoveInv, FreshInv
<1>3. data[y][k].exp \in Nat
  BY <1>2 DEF Object
<1>4. data[y][k].exp - now' \in Int
      /\ MaxTime < now' + (data[y][k].exp - now')
  BY SMTT(30), <1>1, <1>2, <1>3
<1>5. TimeLeft(y, k, now') \in ShardValue
      /\ TimeLeft(y, k, now').ttl = data[y][k].exp - now'
  BY <1>1, <1>2, <1>4 DEF TimeLeft, ShardValue, Object
<1> QED
  BY <1>4, <1>5, NoneAssumption

(***************************************************************************)
(* A copy for a sure replica asks one that has the contents, and gets all  *)
(* of them.                                                                *)
(***************************************************************************)
LEMMA FetchKeeps ==
  ASSUME MoveInv, NEW n \in Nodes, NEW s \in Shards, NEW y \in Nodes,
         FetchShard(n, "loop", s, y), UNCHANGED moveVars
  PROVE  (/\ Constructed /\ FreshInv /\ PlanInv /\ WholeInv /\ RestInv
          /\ HoldInv /\ CopyInv)'
<1> USE OneProc
<1>1. UNCHANGED <<file, smState, notify, pc, shards, data, peers, plan, calls,
                  whole, disturbed>>
  BY DEF FetchShard, mapVars, moveVars
<1>2. TypeOK /\ IndInv /\ Constructed
  BY DEF MoveInv, IndInv
<1>3. /\ PlanInv' /\ WholeInv' /\ Mapping' = Mapping
      /\ \A m : ShardsForNode(m)' = ShardsForNode(m)
  BY <1>1, LoopKeepsPlan
<1>4. job[n]["loop"][s] = "fetch" /\ y \in peers[n]["loop"][s]
  BY DEF FetchShard
<1>5. n \in whole[s] => Has(y, s)
  BY <1>4, OnlyCopierLacks DEF MoveInv, CopyInv
<1>6. \A m \in Nodes, i \in Shards : job'[m]["loop"][i] =
        IF m = n /\ i = s THEN "got" ELSE job[m]["loop"][i]
  BY SMTT(30), <1>2 DEF TypeOK, FetchShard
<1>7. \A m \in Nodes, k \in Keys : Fetched(n, "loop", s, y, m, "loop", k)
  BY <1>2, FetchEntry
<1>8. n \in whole[s] =>
        \A k \in RealKeys : ShardOf[k] = s => resp'[n]["loop"][k] # None
  <2> SUFFICES ASSUME n \in whole[s], NEW k \in RealKeys, ShardOf[k] = s
               PROVE  resp'[n]["loop"][k] # None
    OBVIOUS
  <2>1. k \in Keys /\ Found(y, k)
    BY <1>5 DEF Has, RealKeys
  <2> DEFINE values == GetShardContents(y, s, now')
             got == [i \in Keys |-> IF values[i] # None THEN values[i]
                                    ELSE resp[n]["loop"][i]]
  <2>2. values[k] = TimeLeft(y, k, now')
    BY <2>1 DEF GetShardContents
  <2>4. TimeLeft(y, k, now') # None
    BY <2>1, SentIsFresh
  <2>5. resp' = [resp EXCEPT ![n]["loop"] = got]
    BY DEF FetchShard
  <2> HIDE DEF values
  <2>6. got[k] = TimeLeft(y, k, now')
    BY <2>1, <2>2, <2>4
  <2> HIDE DEF got
  <2>7. resp'[n]["loop"] = got
    BY <1>2, <2>5 DEF TypeOK
  <2> QED
    BY <2>4, <2>6, <2>7
<1>17. now <= now' /\ now' <= MaxTime /\ now \in Nat /\ now' \in Nat
       /\ MaxTime \in Nat
  <2>1. now' \in now..MaxTime
    BY DEF FetchShard
  <2>2. now \in Nat /\ now' \in Nat /\ MaxTime \in Nat
    BY <1>2, FetchClock, KvServerAssumption DEF TypeOK
  <2> QED
    BY SMTT(30), <2>1, <2>2
<1>9. ASSUME NEW m \in Nodes, NEW k \in Keys
      PROVE  /\ resp[m]["loop"][k] # None => resp'[m]["loop"][k] # None
             /\ resp'[m]["loop"][k] # None
                  => MaxTime < now' + resp'[m]["loop"][k].ttl
  <2>1. CASE resp'[m]["loop"][k] = resp[m]["loop"][k]
    <3> SUFFICES ASSUME resp[m]["loop"][k] # None
                 PROVE  MaxTime < now' + resp[m]["loop"][k].ttl
      BY <2>1
    <3>1. MaxTime < now + resp[m]["loop"][k].ttl
      BY DEF MoveInv, FreshInv
    <3>2. resp[m]["loop"][k] \in ShardValue
      BY SMTT(30), <1>2 DEF TypeOK
    <3>3. resp[m]["loop"][k].ttl \in Int
      BY <3>2 DEF ShardValue
    <3> QED
      BY SMTT(30), <1>17, <3>1, <3>3
  <2>2. CASE resp'[m]["loop"][k] = TimeLeft(y, k, now') /\ Found(y, k)
    BY <2>2, SentIsFresh
  <2> QED
    BY <1>7, <2>1, <2>2 DEF Fetched
<1>10. Constructed'
  BY <1>1, <1>2 DEF Constructed
<1>11. FreshInv'
  BY <1>1, <1>9, <1>17 DEF MoveInv, FreshInv
<1>18. ASSUME NEW m \in Nodes, NEW k \in Keys, Found(m, k)
       PROVE  Found(m, k)'
  <2>1. data[m][k] \in Object /\ MaxTime < data[m][k].exp
    BY SMTT(30), <1>2, <1>18 DEF Found, TypeOK, MoveInv, FreshInv
  <2>2. data[m][k].exp \in Nat
    BY <2>1 DEF Object
  <2>3. ~(now' >= data[m][k].exp)
    BY SMTT(30), <1>17, <2>1, <2>2
  <2> QED
    BY <1>1, <1>18, <2>3 DEF Found, HasExpired
<1>12. \A m \in Nodes, i \in Shards :
         (Lacks(m, i)' <=> Lacks(m, i)) /\ (Has(m, i) => Has(m, i)')
  <2>1. \A m \in Nodes, i \in Shards : Has(m, i) => Has(m, i)'
    BY <1>18 DEF Has, RealKeys
  <2>2. \A m \in Nodes, i \in Shards : Lacks(m, i)' <=> Lacks(m, i)
    BY SMTT(30), <1>1, <1>4, <1>6 DEF Lacks
  <2> QED
    BY <2>1, <2>2
<1>14. HoldInv'
  BY <1>1, <1>3, <1>12, SameHold
<1>15. CopyInv'
  <2> SUFFICES ASSUME NEW m \in Nodes, NEW i \in Shards
               PROVE  CopyInv!(m, i)'
    BY DEF CopyInv
  <2>1. CASE m = n /\ i = s
    <3>1. n \in Mapping[s]
      BY <1>4 DEF MoveInv, CopyInv
    <3> QED
      BY <1>1, <1>3, <1>6, <1>8, <2>1, <3>1
  <2>2. CASE m # n \/ i # s
    <3>1. CopyInv!(m, i)
      BY DEF MoveInv, CopyInv
    <3>2. job'[m]["loop"][i] = job[m]["loop"][i]
      BY <1>6, <2>2
    <3> QED
      BY <1>1, <1>3, <1>9, <3>1, <3>2 DEF RealKeys
  <2> QED
    BY <2>1, <2>2
<1>16. RestInv'
  BY <1>1, <1>3 DEF MoveInv, RestInv, AtRest
<1> QED
  BY <1>3, <1>10, <1>11, <1>14, <1>15, <1>16


(***************************************************************************)
(* What becomes of the sure replicas when a peer of a copy fails: if it    *)
(* was the last one, the node that copies is not sure any more.            *)
(***************************************************************************)
LEMMA FailedCopy ==
  ASSUME MoveInv, NEW n \in Nodes, NEW s \in Shards, NEW y \in Nodes,
         FetchFails(n, "loop", s, y), Watched
  PROVE  /\ \A m \in Nodes, i \in Shards : m # n \/ i # s =>
              /\ job'[m]["loop"][i] = job[m]["loop"][i]
              /\ peers'[m]["loop"][i] = peers[m]["loop"][i]
         /\ peers'[n]["loop"][s] = peers[n]["loop"][s] \ {y}
         /\ job'[n]["loop"][s] \in {"fetch", "got"}
         /\ \A i \in Shards : /\ whole'[i] \subseteq whole[i]
                              /\ whole[i] \ {n} \subseteq whole'[i]
                              /\ i # s => whole'[i] = whole[i]
         /\ job'[n]["loop"][s] = "got" => n \notin whole'[s]
         /\ whole' \in Mappings
         /\ disturbed' \in BOOLEAN
         /\ ~disturbed' => ~disturbed /\ whole' = whole
<1> USE OneProc
<1>1. TypeOK /\ job[n]["loop"][s] = "fetch" /\ y \in peers[n]["loop"][s]
  BY DEF MoveInv, IndInv, FetchFails
<1>2. peers' = [peers EXCEPT ![n]["loop"][s] = peers[n]["loop"][s] \ {y}]
  BY DEF FetchFails
<1>3. /\ peers[n]["loop"][s] = {y}
           => job' = [job EXCEPT ![n]["loop"][s] = "got"]
      /\ peers[n]["loop"][s] # {y} => job' = job
  BY DEF FetchFails
<1>4. /\ \A m \in Nodes, i \in Shards : m # n \/ i # s =>
           peers'[m]["loop"][i] = peers[m]["loop"][i]
      /\ peers'[n]["loop"][s] = peers[n]["loop"][s] \ {y}
  BY SMTT(30), <1>1, <1>2 DEF TypeOK
<1>5. \A m \in Nodes, i \in Shards : m # n \/ i # s =>
        job'[m]["loop"][i] = job[m]["loop"][i]
  BY SMTT(30), <1>1, <1>3 DEF TypeOK
<1>6. /\ peers[n]["loop"][s] = {y} => job'[n]["loop"][s] = "got"
      /\ peers[n]["loop"][s] # {y} => job'[n]["loop"][s] = "fetch"
  BY SMTT(30), <1>1, <1>3 DEF TypeOK
<1>7. \A m \in Nodes, i \in Shards : GaveUp(m, i) => m = n /\ i = s
  BY <1>5 DEF GaveUp
<1>8. job'[n]["loop"][s] = "got" => GaveUp(n, s)
  <2> SUFFICES ASSUME job'[n]["loop"][s] = "got" PROVE GaveUp(n, s)
    OBVIOUS
  <2>1. peers[n]["loop"][s] = {y}
    BY <1>6
  <2>2. peers'[n]["loop"][s] = {}
    BY <1>4, <2>1
  <2> QED
    BY <1>1, <2>2 DEF GaveUp
<1>9. whole \in Mappings /\ disturbed \in BOOLEAN
  BY DEF MoveInv, WholeInv, PlanInv
<1>10. /\ whole' = [i \in Shards |-> whole[i] \ {m \in Nodes : GaveUp(m, i)}]
       /\ disturbed' = (disturbed \/ \E m \in Nodes, i \in Shards : GaveUp(m, i))
  BY DEF Watched
<1>11. \A i \in Shards : whole'[i] = whole[i] \ {m \in Nodes : GaveUp(m, i)}
  BY <1>10
<1>12. \A i \in Shards : /\ whole'[i] \subseteq whole[i]
                         /\ whole[i] \ {n} \subseteq whole'[i]
                         /\ i # s => whole'[i] = whole[i]
  BY <1>7, <1>11
<1>13. whole' \in Mappings
  BY <1>9, <1>10 DEF Mappings
<1>14. ~disturbed' => ~disturbed /\ whole' = whole
  BY <1>9, <1>10, NoneGaveUp DEF moveVars
<1>15. job'[n]["loop"][s] = "got" => n \notin whole'[s]
  BY <1>8, <1>11
<1>16. job'[n]["loop"][s] \in {"fetch", "got"}
  BY <1>6
<1>17. disturbed' \in BOOLEAN
  BY <1>9, <1>10
<1> QED
  BY <1>4, <1>5, <1>12, <1>13, <1>14, <1>15, <1>16, <1>17

(***************************************************************************)
(* A peer of a copy fails.                                                 *)
(***************************************************************************)
LEMMA FailKeeps ==
  ASSUME MoveInv, NEW n \in Nodes, NEW s \in Shards, NEW y \in Nodes,
         FetchFails(n, "loop", s, y), Watched
  PROVE  (/\ Constructed /\ FreshInv /\ PlanInv /\ WholeInv /\ RestInv
          /\ HoldInv /\ CopyInv)'
<1>1. UNCHANGED <<file, smState, notify, pc, shards, data, resp, now, plan,
                  calls>>
  BY DEF FetchFails, mapVars, Watched
<1>2. job[n]["loop"][s] = "fetch"
  BY DEF FetchFails
<1>3. Mapping' = Mapping /\ \A m : ShardsForNode(m)' = ShardsForNode(m)
  BY <1>1 DEF Mapping, ShardsForNode
<1>4. Constructed' /\ FreshInv'
  BY <1>1 DEF MoveInv, Constructed, FreshInv
<1>5. RestInv'
  BY <1>1, <1>3 DEF MoveInv, RestInv, AtRest
<1>6. ~disturbed' => ~disturbed /\ whole' = whole
  BY FailedCopy
<1>7. PlanInv'
  <2>1. /\ ~disturbed' => Chained(file', plan')
        /\ ~disturbed' => (calls' = 2 => Graceful(Mapping', file'))
    BY <1>1, <1>3, <1>6 DEF MoveInv, PlanInv
  <2>2. calls' \in 0..2 /\ (calls' < 2 => file' = Mapping')
        /\ plan' \in Seq(Mappings)
    BY <1>1, <1>3 DEF MoveInv, PlanInv
  <2>3. disturbed' \in BOOLEAN
    BY FailedCopy
  <2> QED
    BY <2>1, <2>2, <2>3 DEF PlanInv
<1>8. WholeInv'
  <2>1. whole' \in Mappings /\ \A i \in Shards : whole'[i] \subseteq whole[i]
    BY FailedCopy
  <2> QED
    BY <1>3, <1>6, <2>1 DEF MoveInv, WholeInv
<1>9. \A m \in Nodes, i \in Shards :
        (Lacks(m, i)' <=> Lacks(m, i)) /\ (Has(m, i)' <=> Has(m, i))
  <2>1. \A m \in Nodes, i \in Shards : Has(m, i)' <=> Has(m, i)
    BY <1>1 DEF Has, Found, HasExpired
  <2>2. \A m \in Nodes, i \in Shards :
          job'[m]["loop"][i] = "none" <=> job[m]["loop"][i] = "none"
    BY SMTT(30), <1>2, FailedCopy
  <2> QED
    BY <1>1, <2>1, <2>2 DEF Lacks
<1>10. HoldInv'
  <2> SUFFICES ASSUME NEW i \in Shards PROVE HoldInv!(i)'
    BY DEF HoldInv
  <2>1. HoldInv!(i) /\ whole[i] \subseteq Mapping[i]
    BY DEF MoveInv, HoldInv, WholeInv
  <2>2. Mapping[i] \subseteq Nodes
    BY SMTT(30), OneProc DEF MoveInv, IndInv, TypeOK, Mapping
  <2>3. /\ whole'[i] \subseteq whole[i] /\ whole[i] \ {n} \subseteq whole'[i]
        /\ i # s => whole'[i] = whole[i]
    BY FailedCopy
  <2>4. \A m \in Mapping[i] :
          (Lacks(m, i)' <=> Lacks(m, i)) /\ (Has(m, i)' <=> Has(m, i))
    BY <1>9, <2>2
  <2>5. i = s => Lacks(n, i)
    BY <1>2 DEF Lacks
  <2>6. \A m \in whole'[i] : Lacks(m, i)' \/ Has(m, i)'
    BY <2>1, <2>3, <2>4
  <2>7. whole'[i] # {} => \E m \in whole'[i] : ~Lacks(m, i)'
    <3> SUFFICES ASSUME whole'[i] # {}
                 PROVE  \E m \in whole'[i] : ~Lacks(m, i)'
      OBVIOUS
    <3>1. PICK m \in whole[i] : ~Lacks(m, i)
      BY <2>1, <2>3
    <3>2. m \in whole'[i]
      BY <2>3, <2>5, <3>1
    <3> QED
      BY <2>1, <2>4, <3>1, <3>2
  <2>8. ASSUME NEW m \in whole'[i], Lacks(m, i)',
               NEW x \in Mapping[i] \ {m}
        PROVE  x \in whole'[i] /\ ~Lacks(x, i)'
    <3>1. m \in whole[i] /\ m \in Mapping[i] /\ Lacks(m, i)
      BY <2>1, <2>3, <2>4, <2>8
    <3>2. x \in whole[i] /\ ~Lacks(x, i)
      BY <2>1, <3>1
    <3>3. x \in whole'[i]
      BY <2>3, <2>5, <3>2
    <3> QED
      BY <2>4, <3>2, <3>3
  <2> QED
    BY <1>3, <2>6, <2>7, <2>8
<1>11. CopyInv'
  <2> SUFFICES ASSUME NEW m \in Nodes, NEW i \in Shards
               PROVE  CopyInv!(m, i)'
    BY DEF CopyInv
  <2>1. CopyInv!(m, i)
    BY DEF MoveInv, CopyInv
  <2>2. CASE m = n /\ i = s
    <3>1. /\ peers'[n]["loop"][s] = peers[n]["loop"][s] \ {y}
          /\ job'[n]["loop"][s] \in {"fetch", "got"}
          /\ job'[n]["loop"][s] = "got" => n \notin whole'[s]
          /\ whole'[s] \subseteq whole[s]
      BY FailedCopy
    <3> QED
      BY <1>2, <1>3, <2>1, <2>2, <3>1
  <2>3. CASE m # n \/ i # s
    <3>1. /\ job'[m]["loop"][i] = job[m]["loop"][i]
          /\ peers'[m]["loop"][i] = peers[m]["loop"][i]
          /\ whole'[i] \subseteq whole[i]
      BY SMTT(30), <2>3, FailedCopy
    <3> QED
      BY <1>1, <1>3, <2>1, <3>1
  <2> QED
    BY <2>2, <2>3
<1> QED
  BY <1>4, <1>5, <1>7, <1>8, <1>10, <1>11

(***************************************************************************)
(* The copies are stored: the replica has the contents now, and no other   *)
(* copy of the shard is under way that would have to ask it.               *)
(***************************************************************************)
LEMMA SetKeeps ==
  ASSUME MoveInv, NEW n \in Nodes, SetCopies(n, "loop"), UNCHANGED moveVars
  PROVE  (/\ Constructed /\ FreshInv /\ PlanInv /\ WholeInv /\ RestInv
          /\ HoldInv /\ CopyInv)'
<1> USE OneProc
<1>1. UNCHANGED <<file, smState, notify, shards, now, plan, calls, whole,
                  disturbed>>
  BY DEF SetCopies, mapVars, moveVars
<1>2. TypeOK /\ IndInv /\ Constructed /\ InFlight
  BY DEF MoveInv, IndInv
<1>3. /\ PlanInv' /\ WholeInv' /\ Mapping' = Mapping
      /\ \A m : ShardsForNode(m)' = ShardsForNode(m)
  BY <1>1, LoopKeepsPlan
<1>4. \A m \in Nodes, u \in Threads : CopiesDone(n, "loop", m, u)
  BY <1>2, SetCopiesDone
<1>5. \A m \in Nodes, k \in Keys : Copied(n, "loop", m, k)
  BY <1>2, SetCopiesEntry
<1>6. pc[n]["loop"] = "wait"
      /\ \A s \in Shards : job[n]["loop"][s] \in {"none", "got"}
  BY DEF SetCopies, CopiesReady
<1>7. \A m \in Nodes, s \in Shards :
        /\ m # n => peers'[m]["loop"][s] = peers[m]["loop"][s]
        /\ job'[m]["loop"][s] = IF m = n THEN "none" ELSE job[m]["loop"][s]
  <2>1. \A m \in Nodes, s \in Shards :
          m # n => peers'[m]["loop"][s] = peers[m]["loop"][s]
    BY <1>2 DEF TypeOK, SetCopies
  <2> QED
    BY SMTT(30), <1>4, <2>1 DEF CopiesDone
<1>8. ASSUME NEW m \in Nodes, NEW k \in Keys
      PROVE  /\ data'[m][k] # None => MaxTime < data'[m][k].exp
             /\ Found(m, k) => Found(m, k)'
             /\ m = n /\ resp[n]["loop"][k] # None => Found(m, k)'
  <2>0. now \in Nat /\ MaxTime \in Nat /\ now <= MaxTime
    BY <1>2, KvServerAssumption DEF TypeOK, MoveInv, FreshInv
  <2>1. ASSUME resp[n]["loop"][k] # None
        PROVE  /\ CopyOf(resp[n]["loop"][k]) # None
               /\ MaxTime < CopyOf(resp[n]["loop"][k]).exp
               /\ ~(now >= CopyOf(resp[n]["loop"][k]).exp)
    <3> DEFINE v == resp[n]["loop"][k]
    <3>1. CopyOf(v) \in Object
      BY <1>2, <2>1, CopyType DEF CopyOf
    <3>2. v \in ShardValue /\ MaxTime < now + v.ttl
      BY SMTT(30), <1>2, <2>1 DEF TypeOK, MoveInv, FreshInv
    <3>3. CopyOf(v).exp = now + v.ttl
      BY DEF CopyOf
    <3>4. v.ttl \in Int
      BY <3>2 DEF ShardValue
    <3> HIDE DEF v
    <3>5. MaxTime < CopyOf(v).exp /\ ~(now >= CopyOf(v).exp)
      BY SMTT(30), <2>0, <3>2, <3>3, <3>4
    <3> QED
      BY <3>1, <3>5, NoneAssumption DEF v
  <2>2. data[m][k] # None
          => MaxTime < data[m][k].exp /\ ~(now >= data[m][k].exp)
    <3> SUFFICES ASSUME data[m][k] # None
                 PROVE  MaxTime < data[m][k].exp /\ ~(now >= data[m][k].exp)
      OBVIOUS
    <3>1. MaxTime < data[m][k].exp
      BY DEF MoveInv, FreshInv
    <3>2. data[m][k] \in Object
      BY SMTT(30), <1>2 DEF TypeOK
    <3>3. data[m][k].exp \in Nat
      BY <3>2 DEF Object
    <3> QED
      BY SMTT(30), <2>0, <3>1, <3>3
  <2>3. Copied(n, "loop", m, k)
    BY <1>5
  <2>4. m = n /\ resp[n]["loop"][k] # None
          => data'[m][k] = CopyOf(resp[n]["loop"][k])
    <3> SUFFICES ASSUME resp[n]["loop"][k] # None
                 PROVE  data'[n][k] = CopyOf(resp[n]["loop"][k])
      OBVIOUS
    <3> DEFINE new == [i \in Keys |->
                        IF resp[n]["loop"][i] = None THEN data[n][i]
                        ELSE CopyOf(resp[n]["loop"][i])]
    <3>1. data' = [data EXCEPT ![n] = new]
      BY DEF SetCopies, CopyOf
    <3>2. new[k] = CopyOf(resp[n]["loop"][k])
      OBVIOUS
    <3> HIDE DEF new
    <3>3. data'[n] = new
      BY <1>2, <3>1 DEF TypeOK
    <3> QED
      BY <3>2, <3>3
  <2> QED
    BY <1>1, <2>1, <2>2, <2>3, <2>4 DEF Copied, Found, HasExpired
<1>9. Constructed'
  BY <1>1, <1>2, <1>4 DEF Constructed, CopiesDone, Threads
<1>10. FreshInv'
  <2>1. \A m \in Nodes, k \in Keys : resp'[m]["loop"][k] # None
          => resp'[m]["loop"][k] = resp[m]["loop"][k]
    BY <1>4 DEF CopiesDone
  <2> QED
    BY <1>1, <1>8, <2>1 DEF MoveInv, FreshInv
<1>11. \A s \in Shards : /\ Mapping[s] \subseteq Nodes
                         /\ whole[s] \subseteq Mapping[s]
  BY SMTT(30), <1>2 DEF TypeOK, Mapping, MoveInv, WholeInv
<1>12. ASSUME NEW s \in Shards, NEW m \in Mapping[s]
       PROVE  /\ Lacks(m, s)' => Lacks(m, s)
              /\ m \in whole[s] => Lacks(m, s)' \/ Has(m, s)'
  <2>0. m \in Nodes
    BY <1>11
  <2>1. CASE m # n
    <3>1. Lacks(m, s)' <=> Lacks(m, s)
      BY <1>1, <1>7, <2>0, <2>1 DEF Lacks
    <3>2. Has(m, s) => Has(m, s)'
      BY <1>8, <2>0 DEF Has, RealKeys
    <3> QED
      BY <2>1, <3>1, <3>2 DEF MoveInv, HoldInv
  <2>2. CASE m = n /\ job[n]["loop"][s] = "got"
    <3>1. ~Lacks(m, s)'
      BY <1>1, <1>2, <1>7, <2>0, <2>2, LoopFacts DEF Lacks
    <3>2. m \in whole[s] =>
            \A k \in RealKeys : ShardOf[k] = s => resp[n]["loop"][k] # None
      BY <2>2 DEF MoveInv, CopyInv
    <3>3. m \in whole[s] => Has(m, s)'
      BY <1>8, <2>2, <3>2 DEF Has, RealKeys
    <3> QED
      BY <3>1, <3>3
  <2>3. CASE m = n /\ job[n]["loop"][s] = "none"
    <3>1. Lacks(m, s)' <=> Lacks(m, s)
      BY <1>1, <1>7, <2>0, <2>3 DEF Lacks
    <3>2. Has(m, s) => Has(m, s)'
      BY <1>8, <2>0 DEF Has, RealKeys
    <3> QED
      BY <3>1, <3>2 DEF MoveInv, HoldInv
  <2> QED
    BY <1>6, <2>1, <2>2, <2>3
<1>13. HoldInv'
  <2> SUFFICES ASSUME NEW s \in Shards PROVE HoldInv!(s)'
    BY DEF HoldInv
  <2>1. HoldInv!(s) /\ whole'[s] = whole[s]
    BY <1>1 DEF MoveInv, HoldInv
  <2> QED
    BY <1>3, <1>11, <1>12, <2>1
<1>14. CopyInv'
  <2> SUFFICES ASSUME NEW m \in Nodes, NEW s \in Shards
               PROVE  CopyInv!(m, s)'
    BY DEF CopyInv
  <2>1. CASE m = n
    BY <1>7, <2>1
  <2>2. CASE m # n
    <3>1. CopyInv!(m, s)
      BY DEF MoveInv, CopyInv
    <3>2. job'[m]["loop"][s] = job[m]["loop"][s]
          /\ peers'[m]["loop"][s] = peers[m]["loop"][s]
      BY <1>7, <2>2
    <3>3. \A k \in Keys : resp'[m]["loop"][k] = resp[m]["loop"][k]
      BY <1>4, <2>2 DEF CopiesDone
    <3> QED
      BY <1>1, <1>3, <3>1, <3>2, <3>3 DEF RealKeys
  <2> QED
    BY <2>1, <2>2
<1>15. RestInv'
  BY SMTT(30), <1>1, <1>4, <1>6, CopyKeepsRest DEF CopiesDone
<1> QED
  BY <1>3, <1>9, <1>10, <1>13, <1>14, <1>15

-----------------------------------------------------------------------------
(***************************************************************************)
(* Only a copy whose peer fails gives up: one that gets an answer has that *)
(* peer left, and no other step ends one that asks.                        *)
(***************************************************************************)
LEMMA OnlyFailsGiveUp ==
  ASSUME MoveInv, NEW n \in Nodes, LoopStep(n), Watched
  PROVE  \/ UNCHANGED moveVars
         \/ \E s \in Shards, x \in Nodes : FetchFails(n, "loop", s, x)
<1> USE OneProc
<1>0. TypeOK
  BY DEF MoveInv, IndInv
<1> SUFFICES ASSUME ~\E s \in Shards, x \in Nodes : FetchFails(n, "loop", s, x),
                    NEW m \in Nodes, NEW i \in Shards, GaveUp(m, i)
             PROVE  FALSE
  BY NoneGaveUp
<1>1. job[m]["loop"][i] = "fetch" /\ job'[m]["loop"][i] = "got"
      /\ peers'[m]["loop"][i] = {}
  BY DEF GaveUp
<1>2. CASE ListenLoop(n)
  BY <1>1, <1>2 DEF ListenLoop, copyVars
<1>3. CASE HandleShardMapUpdate(n, "loop")
  <2>1. Handled(n, "loop", m, "loop")
    BY <1>0, <1>3, HandleEntry
  <2> QED
    BY <1>1, <2>1 DEF Handled
<1>4. ASSUME NEW s \in Shards, SpawnCopy(n, "loop", s)
      PROVE  FALSE
  <2>1. Spawned(n, "loop", s, m, "loop")
    BY <1>0, <1>4, SpawnEntry
  <2> QED
    BY <1>1, <2>1 DEF Spawned
<1>5. ASSUME NEW s \in Shards, NEW x \in Nodes, FetchShard(n, "loop", s, x)
      PROVE  FALSE
  <2>1. /\ peers' = peers /\ x \in peers[n]["loop"][s]
        /\ job' = [job EXCEPT ![n]["loop"][s] = "got"]
    BY <1>5 DEF FetchShard
  <2>2. m = n /\ i = s
    BY SMTT(30), <1>0, <1>1, <2>1 DEF TypeOK
  <2> QED
    BY <1>1, <2>1, <2>2
<1>6. CASE SetCopies(n, "loop")
  <2>1. CopiesDone(n, "loop", m, "loop")
    BY <1>0, <1>6, SetCopiesDone
  <2> QED
    BY <1>1, <2>1 DEF CopiesDone
<1> QED
  BY <1>2, <1>3, <1>4, <1>5, <1>6 DEF LoopStep

(***************************************************************************)
(* Every step keeps MoveInv.                                               *)
(***************************************************************************)
LEMMA NextMoveInv == MoveInv /\ [MoveNext]_allVars => MoveInv'
<1> SUFFICES ASSUME MoveInv, [MoveNext]_allVars PROVE MoveInv'
  OBVIOUS
<1> DEFINE Q == (/\ Constructed /\ FreshInv /\ PlanInv /\ WholeInv /\ RestInv
                 /\ HoldInv /\ CopyInv)'
<1>1. IndInv'
  BY MoveKeepsServers
<1>2. ASSUME NEW n \in Nodes, LoopStep(n), Watched
      PROVE  Q
  <2>1. CASE UNCHANGED moveVars
    BY <1>2, <2>1, ListenKeeps, HandleKeeps, SpawnKeeps, FetchKeeps, FailKeeps,
       SetKeeps DEF LoopStep
  <2>2. CASE ~UNCHANGED moveVars
    BY <1>2, <2>2, OnlyFailsGiveUp, FailKeeps
  <2> QED
    BY <2>1, <2>2
<1>3. ASSUME UNCHANGED vars, UNCHANGED moveVars
      PROVE  Q
  <2>1. UNCHANGED <<file, smState, notify, pc, shards, data, job, peers, resp,
                    now, plan, calls, whole, disturbed>>
    BY <1>3 DEF vars, moveVars
  <2>2. Constructed' /\ RestInv'
    BY <2>1 DEF MoveInv, Constructed, RestInv, AtRest, ShardsForNode
  <2> QED
    BY <2>1, <2>2, SameContents, LoopKeepsPlan
<1>4. Q
  BY <1>2, <1>3, MoveCases, BeginKeeps, MappingKeeps, CallUpdateKeeps
<1> QED
  BY <1>1, <1>4 DEF MoveInv

(***************************************************************************)
(* MoveInv holds throughout.                                               *)
(***************************************************************************)
THEOREM MoveInvHolds == MoveSpec => []MoveInv
BY InitMoveInv, NextMoveInv, PTL DEF MoveSpec

(***************************************************************************)
(* When UpdateShardMapping returns, its mapping has been processed by      *)
(* every server: the second Update waits for the first, for any number of  *)
(* servers and shards, whatever mapping it is and whatever came before.    *)
(***************************************************************************)
THEOREM MappingIsProcessed == MoveSpec => []MappingProcessed
<1>1. MoveInv => MappingProcessed
  BY DEF MoveInv, RestInv, AtRest, MappingProcessed, Returned
<1> QED
  BY <1>1, MoveInvHolds, PTL

(***************************************************************************)
(* A key stays on one of the nodes the map names for it through every      *)
(* movement of test_setup.go: the replica that is added copies from one    *)
(* that has the key, and the one that is dropped goes only when the copy   *)
(* is there.  After a copy gave up, or a batch, it does as long as there   *)
(* is a replica that did not depend on either.                             *)
(***************************************************************************)
THEOREM KeysAreNeverLost == MoveSpec => []KeysNeverLost
<1>1. MoveInv => KeysNeverLost
  <2> SUFFICES ASSUME MoveInv, NEW k \in RealKeys, Reliable(ShardOf[k]) # {}
               PROVE  \E n \in Mapping[ShardOf[k]] : Found(n, k)
    BY DEF KeysNeverLost
  <2>1. ShardOf[k] \in Shards
    BY KvServerAssumption DEF RealKeys
  <2>2. whole[ShardOf[k]] # {} /\ whole[ShardOf[k]] \subseteq Mapping[ShardOf[k]]
    BY <2>1 DEF Reliable, MoveInv, WholeInv
  <2> QED
    BY <2>1, <2>2 DEF MoveInv, HoldInv, Has
<1> QED
  BY <1>1, MoveInvHolds, PTL

(***************************************************************************)
(* When UpdateShardMapping has returned, every replica of a shard has      *)
(* every key of it, whichever peers of its copy failed before one          *)
(* answered; after a copy gave up, or a batch, every replica that did not  *)
(* depend on either.                                                       *)
(***************************************************************************)
THEOREM ReplicasAreComplete == MoveSpec => []ReplicasComplete
<1>1. MoveInv => ReplicasComplete
  <2> SUFFICES ASSUME MoveInv, Returned, NEW k \in RealKeys,
                      NEW n \in Reliable(ShardOf[k])
               PROVE  Found(n, k)
    BY DEF ReplicasComplete
  <2>1. ShardOf[k] \in Shards
    BY KvServerAssumption DEF RealKeys
  <2>2. n \in whole[ShardOf[k]] /\ n \in Mapping[ShardOf[k]]
    BY <2>1 DEF Reliable, MoveInv, WholeInv
  <2>3. n \in Nodes
    BY SMTT(30), <2>1, <2>2, OneProc DEF MoveInv, IndInv, TypeOK, Mapping
  <2>4. AtRest(n)
    BY <2>3 DEF MoveInv, RestInv, Returned
  <2>5. ~Lacks(n, ShardOf[k])
    BY SMTT(30), <2>1, <2>2, <2>3, <2>4, LoopFacts, OneProc
       DEF Lacks, AtRest, MoveInv
  <2> QED
    BY <2>1, <2>2, <2>5 DEF MoveInv, HoldInv, Has
<1> QED
  BY <1>1, MoveInvHolds, PTL

=============================================================================
