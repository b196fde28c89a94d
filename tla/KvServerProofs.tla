--------------------------- MODULE KvServerProofs ---------------------------
(***************************************************************************)
(* Theorems about KvServer for any nodes, processes, shards, keys and      *)
(* bounds.  The lemmas come first: every step keeps the types; then the    *)
(* discipline of server.mu, and no update of the shard map is lost; then   *)
(* the objects and the copies under way, which stay with their shards and  *)
(* keep their expiry; and last the servers that are all constructed.       *)
(***************************************************************************)
EXTENDS KvServer, TLAPS

(***************************************************************************)
(* The prover of the leaves that do not name one: those with arithmetic    *)
(* name SMT.                                                               *)
(***************************************************************************)
USE ZenonT(30)

(***************************************************************************)
(* The initial state is well typed.                                        *)
(***************************************************************************)
LEMMA InitTypeOK == Init => TypeOK
<1> USE KvServerAssumption DEF HandlerPc, JobState
<1> SUFFICES ASSUME Init PROVE TypeOK
  OBVIOUS
<1>1. pc \in [Nodes -> [Threads -> HandlerPc]]
  BY DEF Init, InitServers, Threads, Idle
<1>2. data \in [Nodes -> [Keys -> Object \cup {None}]]
  BY DEF Init, InitServers, NoData
<1>3. job \in [Nodes -> [Threads -> [Shards -> JobState]]]
  BY DEF Init, InitServers, NoCopies
<1>4. peers \in [Nodes -> [Threads -> [Shards -> SUBSET Nodes]]]
  BY DEF Init, InitServers, NoPeers
<1>5. resp \in [Nodes -> [Threads -> [Keys -> ShardValue \cup {None}]]]
  BY DEF Init, InitServers, NoValues
<1> QED
  BY <1>1, <1>2, <1>3, <1>4, <1>5 DEF Init, InitServers, TypeOK

(***************************************************************************)
(* The death of a process keeps the types.                                 *)
(***************************************************************************)
LEMMA DiesTypeOK ==
  ASSUME TypeOK, NEW p \in Procs, Dies(p),
         panics' \subseteq {"noNodes", "missingShard", "mapRace"}
  PROVE  TypeOK'
<1> USE KvServerAssumption DEF HandlerPc, JobState
<1>1. pc' \in [Nodes -> [Threads -> HandlerPc]]
  BY DEF TypeOK, Dies
<1>2. data' \in [Nodes -> [Keys -> Object \cup {None}]]
  BY DEF TypeOK, Dies, NoData
<1>3. job' \in [Nodes -> [Threads -> [Shards -> JobState]]]
  BY DEF TypeOK, Dies, NoCopies
<1>4. peers' \in [Nodes -> [Threads -> [Shards -> SUBSET Nodes]]]
  BY DEF TypeOK, Dies, NoPeers
<1>5. resp' \in [Nodes -> [Threads -> [Keys -> ShardValue \cup {None}]]]
  BY DEF TypeOK, Dies, NoValues
<1>6. /\ mu' \in [Nodes -> Threads \cup {"free"}]
      /\ shards' \in [Nodes -> SUBSET Shards]
      /\ notify' \in [Procs -> SUBSET Nodes]
      /\ up' \subseteq Procs
      /\ UNCHANGED <<file, edits, starts, smState, now>>
  BY DEF TypeOK, Dies
<1> QED
  BY <1>1, <1>2, <1>3, <1>4, <1>5, <1>6 DEF TypeOK

(***************************************************************************)
(* A value on its way: it was read at some time that has been (the lag of  *)
(* a copy is not negative, which TypeOK alone does not tell), its time     *)
(* left agrees with its expiry, and its key is not empty.                  *)
(***************************************************************************)
InFlight ==
  \A n \in Nodes, t \in Threads, k \in Keys :
    LET v == resp[n][t][k]
    IN  v # None => v.at <= now /\ v.ttl + v.at = v.due + v.lag /\ k # EmptyKey

(***************************************************************************)
(* What GetShardContents answers is well typed and made at its second look *)
(* at the clock.                                                           *)
(***************************************************************************)
LEMMA ContentsType ==
  ASSUME TypeOK, NEW x \in Nodes, NEW s \in Shards, NEW k \in Keys,
         NEW later \in Nat
  PROVE  /\ GetShardContents(x, s, later)[k] \in ShardValue \cup {None}
         /\ GetShardContents(x, s, later)[k] # None
              => /\ GetShardContents(x, s, later)[k] = TimeLeft(x, k, later)
                 /\ ShardOf[k] = s
                 /\ Found(x, k)
                 /\ TimeLeft(x, k, later).at = later
<1>1. CASE ShardOf[k] = s /\ Found(x, k)
  <2>1. data[x][k] \in Object
    BY SMTT(30), <1>1 DEF Found, TypeOK
  <2>2. data[x][k].exp - later \in Int
    BY SMTT(30), <2>1 DEF Object
  <2>3. TimeLeft(x, k, later) \in ShardValue /\ TimeLeft(x, k, later).at = later
    BY <2>1, <2>2 DEF TimeLeft, ShardValue, Object
  <2> QED
    BY <1>1, <2>3 DEF GetShardContents
<1>2. CASE ~(ShardOf[k] = s /\ Found(x, k))
  BY <1>2 DEF GetShardContents
<1> QED
  BY <1>1, <1>2

(***************************************************************************)
(* The clock does not run back while GetShardContents answers.             *)
(***************************************************************************)
LEMMA FetchClock ==
  ASSUME TypeOK, NEW n, NEW t, NEW s, NEW x, FetchShard(n, t, s, x)
  PROVE  now' \in Nat /\ now <= now'
<1>1. now' \in now..MaxTime
  BY DEF FetchShard
<1> QED
  BY SMTT(30), <1>1, KvServerAssumption DEF TypeOK

(***************************************************************************)
(* What SetCopies stores is well typed.                                    *)
(***************************************************************************)
LEMMA CopyType ==
  ASSUME TypeOK, InFlight, NEW n \in Nodes, NEW t \in Threads,
         NEW k \in Keys, resp[n][t][k] # None
  PROVE  LET v == resp[n][t][k]
         IN  [val |-> v.val, exp |-> now + v.ttl, due |-> v.due,
              lag |-> v.lag + (now - v.at)] \in Object
<1> DEFINE v == resp[n][t][k]
<1>1. /\ v \in ShardValue /\ v.at <= now /\ now \in Nat
      /\ v.ttl + v.at = v.due + v.lag
  BY SMTT(30) DEF TypeOK, InFlight
<1>2. v.lag + (now - v.at) \in Nat /\ now + v.ttl \in Nat
  BY SMTT(30), <1>1 DEF ShardValue
<1> QED
  BY <1>1, <1>2 DEF ShardValue, Object

(***************************************************************************)
(* Every step keeps the types.                                             *)
(***************************************************************************)
LEMMA NextTypeOK == TypeOK /\ InFlight /\ [Next]_vars => TypeOK'
<1> USE KvServerAssumption DEF HandlerPc, JobState
<1> SUFFICES ASSUME TypeOK, InFlight, [Next]_vars PROVE TypeOK'
  OBVIOUS
<1>1. ASSUME NEW n \in Nodes, ListenLoop(n) PROVE TypeOK'
  BY <1>1 DEF TypeOK, ListenLoop, copyVars, Threads
<1>2. ASSUME NEW n \in Nodes, MakeKvServer(n) PROVE TypeOK'
  BY <1>2 DEF TypeOK, MakeKvServer, mapVars, copyVars, Threads
<1>3. ASSUME NEW n \in Nodes, NEW t \in Threads, HandleShardMapUpdate(n, t)
      PROVE TypeOK'
  <2>1. ShardsForNode(n) \in SUBSET Shards
    BY DEF ShardsForNode
  <2>2. shards' \in [Nodes -> SUBSET Shards]
    BY <1>3, <2>1 DEF TypeOK, HandleShardMapUpdate
  <2>3. data' \in [Nodes -> [Keys -> Object \cup {None}]]
    <3>1. DeleteShards(n, shards[n] \ ShardsForNode(n))
            \in [Keys -> Object \cup {None}]
      BY SMTT(30) DEF TypeOK, DeleteShards
    <3> QED
      BY <1>3, <3>1 DEF TypeOK, HandleShardMapUpdate
  <2>4. job' \in [Nodes -> [Threads -> [Shards -> JobState]]]
    <3> DEFINE new == [s \in Shards |->
                         IF s \in ShardsForNode(n) \ shards[n]
                         THEN "added" ELSE "none"]
    <3>1. new \in [Shards -> JobState]
      OBVIOUS
    <3>2. job' = [job EXCEPT ![n][t] = new]
      BY <1>3 DEF HandleShardMapUpdate
    <3> HIDE DEF new
    <3> QED
      BY <3>1, <3>2 DEF TypeOK
  <2>5. /\ pc' \in [Nodes -> [Threads -> HandlerPc]]
        /\ mu' \in [Nodes -> Threads \cup {"free"}]
    <3>1. Idle(t) \in HandlerPc
      BY DEF Idle
    <3>2. CASE ShardsForNode(n) \ shards[n] = {}
      <4>1. pc' = [pc EXCEPT ![n][t] = Idle(t)] /\ mu' = mu
        BY <1>3, <3>2 DEF HandleShardMapUpdate
      <4> QED
        BY <3>1, <4>1 DEF TypeOK
    <3>3. CASE ShardsForNode(n) \ shards[n] # {}
      <4>1. /\ pc' = [pc EXCEPT ![n][t] = "spawn"]
            /\ mu' = [mu EXCEPT ![n] = t]
        BY <1>3, <3>3 DEF HandleShardMapUpdate
      <4> QED
        BY <4>1 DEF TypeOK
    <3> QED
      BY <3>2, <3>3
  <2> QED
    BY <1>3, <2>2, <2>3, <2>4, <2>5
       DEF TypeOK, HandleShardMapUpdate, mapVars
<1>4. ASSUME NEW n \in Nodes, NEW t \in Threads, NEW s \in Shards,
             SpawnCopy(n, t, s)
      PROVE TypeOK'
  <2>1. NodesForShard(ProcOf[n], s) \subseteq Nodes
    BY SMTT(30) DEF TypeOK, NodesForShard
  <2>2. peers' \in [Nodes -> [Threads -> [Shards -> SUBSET Nodes]]]
    BY SMTT(30), <1>4, <2>1 DEF TypeOK, SpawnCopy
  <2>3. job' \in [Nodes -> [Threads -> [Shards -> JobState]]]
    BY SMTT(30), <1>4 DEF TypeOK, SpawnCopy
  <2>4. /\ pc' \in [Nodes -> [Threads -> HandlerPc]]
        /\ mu' \in [Nodes -> Threads \cup {"free"}]
    BY <1>4 DEF TypeOK, SpawnCopy, Unlock
  <2> QED
    BY <1>4, <2>2, <2>3, <2>4 DEF TypeOK, SpawnCopy, mapVars
<1>5. ASSUME NEW n \in Nodes, NEW t \in Threads, NEW s \in Shards,
             NEW x \in Nodes, FetchShard(n, t, s, x)
      PROVE TypeOK'
  <2>0. now' \in Nat
    BY <1>5, FetchClock
  <2> DEFINE values == GetShardContents(x, s, now')
             got == [k \in Keys |-> IF values[k] # None THEN values[k]
                                    ELSE resp[n][t][k]]
  <2>1. got \in [Keys -> ShardValue \cup {None}]
    <3>1. \A k \in Keys : values[k] \in ShardValue \cup {None}
      BY <2>0, ContentsType
    <3> HIDE DEF values
    <3> QED
      BY SMTT(30), <3>1 DEF TypeOK
  <2>2. resp' = [resp EXCEPT ![n][t] = got]
    BY SMTT(30), <1>5 DEF FetchShard
  <2>3. resp' \in [Nodes -> [Threads -> [Keys -> ShardValue \cup {None}]]]
    <3> HIDE DEF got
    <3> QED
      BY <2>1, <2>2 DEF TypeOK
  <2>4. job' \in [Nodes -> [Threads -> [Shards -> JobState]]]
    BY SMTT(30), <1>5 DEF TypeOK, FetchShard
  <2> QED
    BY <1>5, <2>0, <2>3, <2>4 DEF TypeOK, FetchShard, mapVars
<1>6. ASSUME NEW n \in Nodes, NEW t \in Threads, NEW s \in Shards,
             NEW x \in Nodes, FetchFails(n, t, s, x)
      PROVE TypeOK'
  <2>1. peers' \in [Nodes -> [Threads -> [Shards -> SUBSET Nodes]]]
    BY SMTT(30), <1>6 DEF TypeOK, FetchFails
  <2>2. job' \in [Nodes -> [Threads -> [Shards -> JobState]]]
    BY SMTT(30), <1>6 DEF TypeOK, FetchFails
  <2> QED
    BY <1>6, <2>1, <2>2 DEF TypeOK, FetchFails, mapVars
<1>7. ASSUME NEW p \in Procs, Dies(p), NEW m, panics' = panics \cup {m},
             m \in {"noNodes", "missingShard", "mapRace"}
      PROVE TypeOK'
  BY <1>7, DiesTypeOK DEF TypeOK
<1>8. ASSUME NEW n \in Nodes, NEW t \in Threads, SetCopies(n, t)
      PROVE TypeOK'
  <2> DEFINE Copy(v) == [val |-> v.val, exp |-> now + v.ttl, due |-> v.due,
                         lag |-> v.lag + (now - v.at)]
             new == [k \in Keys |-> IF resp[n][t][k] = None THEN data[n][k]
                                    ELSE Copy(resp[n][t][k])]
  <2>1. data' = [data EXCEPT ![n] = new]
    BY <1>8 DEF SetCopies
  <2>2. new \in [Keys -> Object \cup {None}]
    <3>1. \A k \in Keys : resp[n][t][k] # None
                             => Copy(resp[n][t][k]) \in Object
      BY CopyType
    <3> HIDE DEF Copy
    <3> QED
      BY SMTT(30), <3>1 DEF TypeOK
  <2>3. data' \in [Nodes -> [Keys -> Object \cup {None}]]
    <3> HIDE DEF new
    <3> QED
      BY <2>1, <2>2 DEF TypeOK
  <2>4. job' \in [Nodes -> [Threads -> [Shards -> JobState]]]
    BY <1>8 DEF TypeOK, SetCopies
  <2>5. peers' \in [Nodes -> [Threads -> [Shards -> SUBSET Nodes]]]
    BY <1>8 DEF TypeOK, SetCopies
  <2>6. resp' \in [Nodes -> [Threads -> [Keys -> ShardValue \cup {None}]]]
    BY <1>8 DEF TypeOK, SetCopies, NoData
  <2>7. pc' \in [Nodes -> [Threads -> HandlerPc]]
    BY <1>8 DEF TypeOK, SetCopies, Idle
  <2> QED
    BY <1>8, <2>3, <2>4, <2>5, <2>6, <2>7 DEF TypeOK, SetCopies, mapVars
<1>9. ASSUME NEW n \in Nodes, NEW k \in Keys, NEW v \in Values,
             NEW ttl \in Ttls, Set(n, k, v, ttl)
      PROVE TypeOK'
  <2> DEFINE obj == [val |-> v, exp |-> now + ttl, due |-> now + ttl,
                     lag |-> 0]
  <2>1. obj \in Object
    BY SMTT(30) DEF Object, TypeOK
  <2>2. data' = [data EXCEPT ![n][k] = obj]
    BY <1>9 DEF Set
  <2>3. data' \in [Nodes -> [Keys -> Object \cup {None}]]
    <3> HIDE DEF obj
    <3> QED
      BY <2>1, <2>2 DEF TypeOK
  <2> QED
    BY <1>9, <2>3 DEF TypeOK, Set, mapVars, copyVars
<1>10. ASSUME NEW n \in Nodes, NEW k \in Keys, Delete(n, k) PROVE TypeOK'
  BY <1>10 DEF TypeOK, Delete, mapVars, copyVars
<1>11. ASSUME NEW n \in Nodes, NEW s \in Shards, Cleanup(n, s) PROVE TypeOK'
  <2>1. data' \in [Nodes -> [Keys -> Object \cup {None}]]
    BY SMTT(30), <1>11 DEF TypeOK, Cleanup
  <2> QED
    BY <1>11, <2>1 DEF TypeOK, Cleanup, mapVars, copyVars
<1>12. ASSUME NEW a \in Assignments, Edit(a) PROVE TypeOK'
  BY SMTT(30), <1>12 DEF TypeOK, Edit, copyVars
<1>13. ASSUME NEW p \in Procs, Update(p) PROVE TypeOK'
  BY <1>13 DEF TypeOK, Update, Listeners, NodesOf, copyVars
<1>14. ASSUME NEW p \in Procs, Start(p) PROVE TypeOK'
  BY SMTT(30), <1>14 DEF TypeOK, Start, copyVars
<1>15. ASSUME NEW p \in Procs, Crash(p) PROVE TypeOK'
  BY <1>15, DiesTypeOK DEF TypeOK, Crash
<1>16. CASE Tick
  BY SMTT(30), <1>16 DEF TypeOK, Tick, mapVars, copyVars
<1>17. CASE UNCHANGED vars
  BY <1>17 DEF TypeOK, vars
<1>18. ASSUME NEW n \in Nodes, NEW t \in Threads, Handler(n, t) PROVE TypeOK'
  BY <1>3, <1>4, <1>5, <1>6, <1>7, <1>8, <1>18
     DEF Handler, PanicNoNodes, PanicMissingShard
<1> QED
  BY <1>1, <1>2, <1>7, <1>9, <1>10, <1>11, <1>12, <1>13, <1>14, <1>15, <1>16,
     <1>17, <1>18
     DEF Next, ServerStep, Rpc, MapStep, PanicMapRace

(***************************************************************************)
(* The store of a node is written without a look at the shard map.         *)
(***************************************************************************)
StoreStep(n) ==
  \/ \E k \in Keys, v \in Values, ttl \in Ttls : Set(n, k, v, ttl)
  \/ \E k \in Keys : Delete(n, k)
  \/ \E s \in Shards : Cleanup(n, s)

(***************************************************************************)
(* Nothing changes but the file and the clock.                             *)
(***************************************************************************)
Quiet ==
  /\ UNCHANGED <<starts, up, panics, smState, notify, pc, mu, shards, data,
                 job, peers, resp>>
  /\ now' = now \/ now' = now + 1

(***************************************************************************)
(* The steps, sorted by what they touch: the invariants below are proved   *)
(* case by case over this list.                                            *)
(***************************************************************************)
LEMMA NextCases ==
  ASSUME [Next]_vars
  PROVE  \/ \E n \in Nodes, t \in Threads : HandleShardMapUpdate(n, t)
         \/ \E n \in Nodes, t \in Threads, s \in Shards : SpawnCopy(n, t, s)
         \/ \E n, x \in Nodes, t \in Threads, s \in Shards :
              FetchShard(n, t, s, x)
         \/ \E n, x \in Nodes, t \in Threads, s \in Shards :
              FetchFails(n, t, s, x)
         \/ \E n \in Nodes, t \in Threads :
              SetCopies(n, t) \/ PanicMissingShard(n, t)
         \/ \E n \in Nodes : ListenLoop(n) \/ MakeKvServer(n) \/ StoreStep(n)
         \/ \E p \in Procs : Update(p) \/ Start(p)
         \/ \E p \in Procs : /\ Dies(p)
                             /\ panics' \subseteq
                                  panics \cup {"noNodes", "mapRace"}
         \/ Quiet
<1> USE KvServerAssumption
<1>1. CASE UNCHANGED vars
  BY <1>1 DEF vars, Quiet
<1>2. ASSUME NEW n \in Nodes, NEW t \in Threads, NEW s \in Shards,
             PanicNoNodes(n, t, s)
      PROVE  Dies(ProcOf[n]) /\ panics' \subseteq panics \cup {"noNodes"}
  BY <1>2 DEF PanicNoNodes
<1>3. ASSUME NEW n \in Nodes, NEW x \in Nodes, NEW t \in Threads,
             NEW s \in Shards, PanicMapRace(n, t, s, x)
      PROVE  Dies(ProcOf[x]) /\ panics' \subseteq panics \cup {"mapRace"}
  BY <1>3 DEF PanicMapRace
<1>4. CASE ServerStep
  BY <1>2, <1>3, <1>4 DEF ServerStep, Handler, StoreStep
<1>5. CASE Rpc
  BY <1>5 DEF Rpc, StoreStep
<1>6. ASSUME NEW a \in Assignments, Edit(a) PROVE Quiet
  BY <1>6 DEF Edit, Quiet, copyVars
<1>7. ASSUME Tick PROVE Quiet
  BY <1>7 DEF Tick, Quiet, mapVars, copyVars
<1>8. ASSUME NEW p \in Procs, Crash(p)
      PROVE  Dies(p) /\ panics' \subseteq panics
  BY <1>8 DEF Crash
<1> QED
  BY <1>1, <1>4, <1>5, <1>6, <1>7, <1>8 DEF Next, MapStep

-----------------------------------------------------------------------------
(***************************************************************************)
(* What FetchShard may do to a copied value: leave it alone, or replace it *)
(* by what the peer answered.                                              *)
(***************************************************************************)
Fetched(n, t, s, x, m, u, k) ==
  \/ resp'[m][u][k] = resp[m][u][k]
  \/ /\ m = n /\ u = t
     /\ resp'[m][u][k] = TimeLeft(x, k, now')
     /\ ShardOf[k] = s
     /\ Found(x, k)

(***************************************************************************)
(* FetchShard has this effect on every copied value.                       *)
(***************************************************************************)
LEMMA FetchEntry ==
  ASSUME TypeOK, NEW n \in Nodes, NEW t \in Threads, NEW s \in Shards,
         NEW x \in Nodes, FetchShard(n, t, s, x),
         NEW m \in Nodes, NEW u \in Threads, NEW k \in Keys
  PROVE  Fetched(n, t, s, x, m, u, k)
<1> SUFFICES ASSUME resp'[m][u][k] # resp[m][u][k]
             PROVE  /\ m = n /\ u = t
                    /\ resp'[m][u][k] = TimeLeft(x, k, now')
                    /\ ShardOf[k] = s
                    /\ Found(x, k)
  BY DEF Fetched
<1>0. now' \in Nat
  BY FetchClock
<1> DEFINE values == GetShardContents(x, s, now')
           got == [i \in Keys |-> IF values[i] # None THEN values[i]
                                  ELSE resp[n][t][i]]
<1>1. resp' = [resp EXCEPT ![n][t] = got]
  BY DEF FetchShard
<1>2. got \in [Keys -> ShardValue \cup {None}]
  <2>1. \A i \in Keys : values[i] \in ShardValue \cup {None}
    BY <1>0, ContentsType
  <2> HIDE DEF values
  <2> QED
    BY SMTT(30), <2>1 DEF TypeOK
<1>3. m = n /\ u = t /\ resp'[m][u] = got
  <2> HIDE DEF got
  <2> QED
    BY <1>1, <1>2 DEF TypeOK
<1>4. values[k] # None /\ resp'[m][u][k] = values[k]
  <2> HIDE DEF values
  <2> QED
    BY <1>3
<1> QED
  BY SMTT(30), <1>0, <1>3, <1>4, ContentsType

(***************************************************************************)
(* What SetCopies may do to an object: leave it alone, or replace it by a  *)
(* copied value.                                                           *)
(***************************************************************************)
CopyOf(v) ==
  [val |-> v.val, exp |-> now + v.ttl, due |-> v.due,
   lag |-> v.lag + (now - v.at)]

Copied(n, t, m, k) ==
  \/ data'[m][k] = data[m][k]
  \/ /\ m = n /\ resp[n][t][k] # None /\ ShardOf[k] \in shards[n]
     /\ data'[m][k] = CopyOf(resp[n][t][k])

(***************************************************************************)
(* SetCopies has this effect on every object.                              *)
(***************************************************************************)
LEMMA SetCopiesEntry ==
  ASSUME TypeOK, NEW n \in Nodes, NEW t \in Threads, SetCopies(n, t),
         NEW m \in Nodes, NEW k \in Keys
  PROVE  Copied(n, t, m, k)
<1> DEFINE new == [i \in Keys |-> IF resp[n][t][i] = None THEN data[n][i]
                                  ELSE CopyOf(resp[n][t][i])]
<1>1. data' = [data EXCEPT ![n] = new]
  BY DEF SetCopies, CopyOf
<1>2. m # n => data'[m][k] = data[m][k]
  <2> HIDE DEF new
  <2> QED
    BY <1>1 DEF TypeOK
<1>3. data'[n][k] = IF resp[n][t][k] = None THEN data[n][k]
                    ELSE CopyOf(resp[n][t][k])
  <2>1. data'[n] = new
    <3> HIDE DEF new
    <3> QED
      BY <1>1 DEF TypeOK
  <2> QED
    BY <2>1
<1>4. resp[n][t][k] # None => ShardOf[k] \in shards[n]
  BY DEF SetCopies, Misses
<1> QED
  BY <1>2, <1>3, <1>4 DEF Copied

(***************************************************************************)
(* SetCopies ends the copies of its handler and of no other.               *)
(***************************************************************************)
CopiesDone(n, t, m, u) ==
  IF m = n /\ u = t
  THEN /\ \A s \in Shards : job'[m][u][s] = "none"
       /\ \A k \in Keys : resp'[m][u][k] = None
       /\ pc'[m][u] = Idle(u)
  ELSE job'[m][u] = job[m][u] /\ resp'[m][u] = resp[m][u]
       /\ pc'[m][u] = pc[m][u]

(***************************************************************************)
(* SetCopies has this effect on every handler.                             *)
(***************************************************************************)
LEMMA SetCopiesDone ==
  ASSUME TypeOK, NEW n \in Nodes, NEW t \in Threads, SetCopies(n, t),
         NEW m \in Nodes, NEW u \in Threads
  PROVE  CopiesDone(n, t, m, u)
<1>1. job'[m][u] = IF m = n /\ u = t THEN [s \in Shards |-> "none"]
                   ELSE job[m][u]
  BY DEF TypeOK, SetCopies
<1>2. resp'[m][u] = IF m = n /\ u = t THEN [k \in Keys |-> None]
                    ELSE resp[m][u]
  BY DEF TypeOK, SetCopies, NoData
<1>3. pc'[m][u] = IF m = n /\ u = t THEN Idle(t) ELSE pc[m][u]
  BY DEF TypeOK, SetCopies
<1> QED
  BY <1>1, <1>2, <1>3 DEF CopiesDone

(***************************************************************************)
(* The death of a process empties its nodes and leaves the others alone.   *)
(***************************************************************************)
Died(p, m, u) ==
  IF ProcOf[m] = p
  THEN /\ pc'[m][u] = "off" /\ mu'[m] = "free" /\ shards'[m] = {}
       /\ \A s \in Shards : job'[m][u][s] = "none"
       /\ \A k \in Keys : data'[m][k] = None /\ resp'[m][u][k] = None
  ELSE /\ pc'[m] = pc[m] /\ mu'[m] = mu[m] /\ shards'[m] = shards[m]
       /\ job'[m] = job[m] /\ data'[m] = data[m] /\ resp'[m] = resp[m]
       /\ notify'[ProcOf[m]] = notify[ProcOf[m]]

(***************************************************************************)
(* Dies has this effect on every node.                                     *)
(***************************************************************************)
LEMMA DiesEntry ==
  ASSUME TypeOK, NEW p \in Procs, Dies(p), NEW m \in Nodes, NEW u \in Threads
  PROVE  Died(p, m, u)
<1> USE KvServerAssumption
<1>1. CASE ProcOf[m] # p
  BY <1>1 DEF TypeOK, Dies, Died
<1>2. CASE ProcOf[m] = p
  BY <1>2 DEF TypeOK, Dies, NoCopies, NoValues, NoData, Died
<1> QED
  BY <1>1, <1>2

(***************************************************************************)
(* What the locked part of handleShardMapUpdate does to each node.         *)
(***************************************************************************)
Handled(n, t, m, u) ==
  /\ shards'[m] = IF m = n THEN ShardsForNode(n) ELSE shards[m]
  /\ \A k \in Keys : data'[m][k] =
       IF m = n /\ ShardOf[k] \in shards[n] \ ShardsForNode(n)
       THEN None ELSE data[m][k]
  /\ \A s \in Shards : job'[m][u][s] =
       IF m = n /\ u = t
       THEN IF s \in ShardsForNode(n) \ shards[n]
            THEN "added" ELSE "none"
       ELSE job[m][u][s]
  /\ IF ShardsForNode(n) \ shards[n] = {}
     THEN /\ pc'[m][u] = IF m = n /\ u = t THEN Idle(t) ELSE pc[m][u]
          /\ mu'[m] = mu[m]
     ELSE /\ pc'[m][u] = IF m = n /\ u = t THEN "spawn" ELSE pc[m][u]
          /\ mu'[m] = IF m = n THEN t ELSE mu[m]

(***************************************************************************)
(* HandleShardMapUpdate has this effect on every node.                     *)
(***************************************************************************)
LEMMA HandleEntry ==
  ASSUME TypeOK, NEW n \in Nodes, NEW t \in Threads,
         HandleShardMapUpdate(n, t), NEW m \in Nodes, NEW u \in Threads
  PROVE  Handled(n, t, m, u)
<1>1. shards'[m] = IF m = n THEN ShardsForNode(n) ELSE shards[m]
  BY DEF TypeOK, HandleShardMapUpdate
<1>2. \A k \in Keys : data'[m][k] =
        IF m = n /\ ShardOf[k] \in shards[n] \ ShardsForNode(n)
        THEN None ELSE data[m][k]
  BY DEF TypeOK, HandleShardMapUpdate, DeleteShards
<1>3. \A s \in Shards : job'[m][u][s] =
        IF m = n /\ u = t
        THEN IF s \in ShardsForNode(n) \ shards[n] THEN "added" ELSE "none"
        ELSE job[m][u][s]
  <2> DEFINE new == [s \in Shards |-> IF s \in ShardsForNode(n) \ shards[n]
                                      THEN "added" ELSE "none"]
  <2>1. job' = [job EXCEPT ![n][t] = new]
    BY DEF HandleShardMapUpdate
  <2>2. job'[m][u] = IF m = n /\ u = t THEN new ELSE job[m][u]
    <3> HIDE DEF new
    <3> QED
      BY <2>1 DEF TypeOK
  <2> QED
    BY <2>2
<1>4. CASE ShardsForNode(n) \ shards[n] = {}
  <2>1. pc' = [pc EXCEPT ![n][t] = Idle(t)] /\ mu' = mu
    BY <1>4 DEF HandleShardMapUpdate
  <2> QED
    BY <1>1, <1>2, <1>3, <1>4, <2>1 DEF TypeOK, Handled
<1>5. CASE ShardsForNode(n) \ shards[n] # {}
  <2>1. /\ pc' = [pc EXCEPT ![n][t] = "spawn"]
        /\ mu' = [mu EXCEPT ![n] = t]
    BY <1>5 DEF HandleShardMapUpdate
  <2> QED
    BY <1>1, <1>2, <1>3, <1>5, <2>1 DEF TypeOK, Handled
<1> QED
  BY <1>4, <1>5

(***************************************************************************)
(* SpawnCopy changes one copy, and unlocks after the last.                 *)
(***************************************************************************)
Spawned(n, t, s, m, u) ==
  /\ \A i \in Shards : job'[m][u][i] # job[m][u][i]
       => m = n /\ u = t /\ i = s
  /\ \/ pc'[m][u] = pc[m][u] /\ mu'[m] = mu[m]
     \/ /\ m = n /\ mu'[m] = "free"
        /\ pc'[m][u] = IF u = t THEN "wait" ELSE pc[m][u]
  /\ pc[n][t] = "spawn" /\ job[n][t][s] = "added"

(***************************************************************************)
(* SpawnCopy has this effect on every node.                                *)
(***************************************************************************)
LEMMA SpawnEntry ==
  ASSUME TypeOK, NEW n \in Nodes, NEW t \in Threads, NEW s \in Shards,
         SpawnCopy(n, t, s), NEW m \in Nodes, NEW u \in Threads
  PROVE  Spawned(n, t, s, m, u)
<1>1. \A i \in Shards : job'[m][u][i] # job[m][u][i]
        => m = n /\ u = t /\ i = s
  BY SMTT(30) DEF TypeOK, SpawnCopy
<1>2. \/ pc' = pc /\ mu' = mu
      \/ pc' = [pc EXCEPT ![n][t] = "wait"] /\ mu' = [mu EXCEPT ![n] = "free"]
  BY DEF SpawnCopy, Unlock
<1>3. CASE pc' = pc /\ mu' = mu
  BY <1>1, <1>3 DEF SpawnCopy, Spawned
<1>4. CASE /\ pc' = [pc EXCEPT ![n][t] = "wait"]
           /\ mu' = [mu EXCEPT ![n] = "free"]
  BY SMTT(30), <1>1, <1>4 DEF TypeOK, SpawnCopy, Spawned
<1> QED
  BY <1>2, <1>3, <1>4

-----------------------------------------------------------------------------
(***************************************************************************)
(* The goroutines of a server are there from MakeKvServer on, both of      *)
(* them, and only while the process runs.                                  *)
(***************************************************************************)
UpInv ==
  \A n \in Nodes :
    /\ pc[n]["init"] = "off" <=> pc[n]["loop"] = "off"
    /\ pc[n]["loop"] # "off" => ProcOf[n] \in up

(***************************************************************************)
(* Every step keeps UpInv.                                                 *)
(***************************************************************************)
LEMMA NextUp == TypeOK /\ UpInv /\ [Next]_vars => UpInv'
<1> SUFFICES ASSUME TypeOK, UpInv, [Next]_vars, NEW m \in Nodes
             PROVE  UpInv!(m)'
  BY DEF UpInv
<1> USE DEF Threads, Idle
<1>1. UpInv!(m)
  BY DEF UpInv
<1>2. ASSUME NEW n \in Nodes, NEW t \in Threads, HandleShardMapUpdate(n, t)
      PROVE  UpInv!(m)'
  <2>1. pc[n][t] = "lock" /\ up' = up
    BY <1>2 DEF HandleShardMapUpdate
  <2>e. \A u \in Threads : Handled(n, t, m, u)
    BY <1>2, HandleEntry
  <2> QED
    BY <1>1, <2>1, <2>e DEF Handled
<1>3. ASSUME NEW n \in Nodes, NEW t \in Threads, NEW s \in Shards,
             SpawnCopy(n, t, s)
      PROVE  UpInv!(m)'
  <2>1. up' = up
    BY <1>3 DEF SpawnCopy
  <2>e. \A u \in Threads : Spawned(n, t, s, m, u)
    BY <1>3, SpawnEntry
  <2> QED
    BY <1>1, <2>1, <2>e DEF Spawned
<1>4. ASSUME NEW n \in Nodes, NEW t \in Threads, SetCopies(n, t)
      PROVE  UpInv!(m)'
  <2>1. up' = up /\ pc[n][t] = "wait"
    BY <1>4 DEF SetCopies, CopiesReady
  <2>e. \A u \in Threads : CopiesDone(n, t, m, u)
    BY <1>4, SetCopiesDone
  <2> QED
    BY <1>1, <2>1, <2>e DEF CopiesDone
<1>5. ASSUME NEW p \in Procs, Dies(p) PROVE UpInv!(m)'
  <2>1. up' = up \ {p}
    BY <1>5 DEF Dies
  <2>e. \A u \in Threads : Died(p, m, u)
    BY <1>5, DiesEntry
  <2> QED
    BY <1>1, <2>1, <2>e DEF Died
<1>6. ASSUME NEW n \in Nodes, ListenLoop(n) PROVE UpInv!(m)'
  BY SMTT(30), <1>1, <1>6 DEF ListenLoop, TypeOK
<1>7. ASSUME NEW n \in Nodes, MakeKvServer(n) PROVE UpInv!(m)'
  BY <1>1, <1>7 DEF MakeKvServer, TypeOK
<1>8. ASSUME pc' = pc, up \subseteq up' PROVE UpInv!(m)'
  BY <1>1, <1>8
<1>9. ASSUME NEW n \in Nodes, StoreStep(n) PROVE pc' = pc /\ up' = up
  BY <1>9 DEF StoreStep, Set, Delete, Cleanup
<1>10. ASSUME NEW p \in Procs, Update(p) \/ Start(p)
       PROVE  pc' = pc /\ up \subseteq up'
  BY <1>10 DEF Update, Start
<1>11. ASSUME NEW n \in Nodes, NEW x \in Nodes, NEW t \in Threads,
              NEW s \in Shards,
              FetchShard(n, t, s, x) \/ FetchFails(n, t, s, x)
       PROVE  pc' = pc /\ up' = up
  BY <1>11 DEF FetchShard, FetchFails
<1>12. ASSUME Quiet PROVE pc' = pc /\ up' = up
  BY <1>12 DEF Quiet
<1>13. ASSUME NEW n \in Nodes, NEW t \in Threads, PanicMissingShard(n, t)
       PROVE  UpInv!(m)'
  BY <1>5, <1>13, KvServerAssumption DEF PanicMissingShard
<1> HIDE DEF Threads, Idle
<1> QED
  BY <1>2, <1>3, <1>4, <1>5, <1>6, <1>7, <1>8, <1>9, <1>10, <1>11, <1>12,
     <1>13, NextCases

(***************************************************************************)
(* Every step keeps LockNotHeldWhileWaiting.                               *)
(***************************************************************************)
LEMMA NextLock ==
  TypeOK /\ UpInv /\ LockNotHeldWhileWaiting /\ [Next]_vars
    => LockNotHeldWhileWaiting'
<1> SUFFICES ASSUME TypeOK, UpInv, LockNotHeldWhileWaiting, [Next]_vars,
                    NEW m \in Nodes, NEW u \in Threads
             PROVE  mu'[m] = u <=> pc'[m][u] = "spawn"
  BY DEF LockNotHeldWhileWaiting
<1> USE DEF Threads, Idle
<1>1. mu[m] = u <=> pc[m][u] = "spawn"
  BY DEF LockNotHeldWhileWaiting
<1>2. ASSUME NEW n \in Nodes, NEW t \in Threads, HandleShardMapUpdate(n, t)
      PROVE  mu'[m] = u <=> pc'[m][u] = "spawn"
  <2>1. mu[n] = "free"
    BY <1>2 DEF HandleShardMapUpdate
  <2>e. Handled(n, t, m, u)
    BY <1>2, HandleEntry
  <2> QED
    BY <1>1, <2>1, <2>e DEF Handled
<1>3. ASSUME NEW n \in Nodes, NEW t \in Threads, NEW s \in Shards,
             SpawnCopy(n, t, s)
      PROVE  mu'[m] = u <=> pc'[m][u] = "spawn"
  <2>e. Spawned(n, t, s, m, u)
    BY <1>3, SpawnEntry
  <2>1. mu[n] = t
    BY <2>e DEF LockNotHeldWhileWaiting, Spawned
  <2> QED
    BY <1>1, <2>1, <2>e DEF Spawned
<1>4. ASSUME NEW n \in Nodes, NEW t \in Threads, SetCopies(n, t)
      PROVE  mu'[m] = u <=> pc'[m][u] = "spawn"
  <2>1. mu' = mu /\ pc[n][t] = "wait"
    BY <1>4 DEF SetCopies, CopiesReady
  <2>e. CopiesDone(n, t, m, u)
    BY <1>4, SetCopiesDone
  <2> QED
    BY <1>1, <2>1, <2>e DEF CopiesDone
<1>5. ASSUME NEW p \in Procs, Dies(p)
      PROVE  mu'[m] = u <=> pc'[m][u] = "spawn"
  <2>e. Died(p, m, u)
    BY <1>5, DiesEntry
  <2> QED
    BY <1>1, <2>e DEF Died
<1>6. ASSUME NEW n \in Nodes, ListenLoop(n)
      PROVE  mu'[m] = u <=> pc'[m][u] = "spawn"
  BY <1>1, <1>6 DEF ListenLoop, TypeOK
<1>7. ASSUME NEW n \in Nodes, MakeKvServer(n)
      PROVE  mu'[m] = u <=> pc'[m][u] = "spawn"
  BY <1>1, <1>7 DEF MakeKvServer, UpInv, TypeOK
<1>8. ASSUME NEW n \in Nodes, StoreStep(n) PROVE pc' = pc /\ mu' = mu
  BY <1>8 DEF StoreStep, Set, Delete, Cleanup
<1>9. ASSUME NEW p \in Procs, Update(p) \/ Start(p)
      PROVE  pc' = pc /\ mu' = mu
  BY <1>9 DEF Update, Start
<1>10. ASSUME NEW n \in Nodes, NEW x \in Nodes, NEW t \in Threads,
              NEW s \in Shards,
              FetchShard(n, t, s, x) \/ FetchFails(n, t, s, x)
       PROVE  pc' = pc /\ mu' = mu
  BY <1>10 DEF FetchShard, FetchFails
<1>11. ASSUME Quiet PROVE pc' = pc /\ mu' = mu
  BY <1>11 DEF Quiet
<1>12. ASSUME NEW n \in Nodes, NEW t \in Threads, PanicMissingShard(n, t)
       PROVE  mu'[m] = u <=> pc'[m][u] = "spawn"
  BY <1>5, <1>12, KvServerAssumption DEF PanicMissingShard
<1> HIDE DEF Threads, Idle
<1> QED
  BY <1>1, <1>2, <1>3, <1>4, <1>5, <1>6, <1>7, <1>8, <1>9, <1>10, <1>11,
     <1>12, NextCases

(***************************************************************************)
(* Every step keeps NoLostUpdate.                                          *)
(***************************************************************************)
LEMMA NextNoLostUpdate ==
  TypeOK /\ UpInv /\ NoLostUpdate /\ [Next]_vars => NoLostUpdate'
<1> USE KvServerAssumption
<1> SUFFICES ASSUME TypeOK, UpInv, [Next]_vars, NEW m \in Nodes,
                    Listening(m) /\ shards[m] # ShardsForNode(m)
                      => \/ m \in notify[ProcOf[m]]
                         \/ \E t \in Threads : pc[m][t] = "lock"
             PROVE  (Listening(m) /\ shards[m] # ShardsForNode(m)
                      => \/ m \in notify[ProcOf[m]]
                         \/ \E t \in Threads : pc[m][t] = "lock")'
  BY DEF NoLostUpdate
<1> DEFINE P == Listening(m) /\ shards[m] # ShardsForNode(m)
                  => \/ m \in notify[ProcOf[m]]
                     \/ \E t \in Threads : pc[m][t] = "lock"
<1>0. "loop" \in Threads
  BY DEF Threads
<1>1. ASSUME NEW n \in Nodes, NEW t \in Threads, HandleShardMapUpdate(n, t)
      PROVE  P'
  <2>1. smState' = smState /\ notify' = notify /\ pc[n][t] = "lock"
    BY <1>1 DEF HandleShardMapUpdate, mapVars
  <2>e. \A u \in Threads : Handled(n, t, m, u)
    BY <1>1, HandleEntry
  <2>2. CASE m = n
    BY <1>0, <2>1, <2>2, <2>e DEF ShardsForNode, Handled
  <2>3. CASE m # n
    <3>1. shards'[m] = shards[m] /\ \A u \in Threads : pc'[m][u] = pc[m][u]
      BY <1>0, <2>3, <2>e DEF Handled
    <3> QED
      BY <1>0, <2>1, <3>1 DEF ShardsForNode, Listening
  <2> QED
    BY <2>2, <2>3
<1>2. ASSUME NEW n \in Nodes, NEW t \in Threads, NEW s \in Shards,
             SpawnCopy(n, t, s)
      PROVE  P'
  <2>1. UNCHANGED <<smState, notify, shards>>
    BY <1>2 DEF SpawnCopy, mapVars
  <2>e. \A u \in Threads : Spawned(n, t, s, m, u)
    BY <1>2, SpawnEntry
  <2>2. \A u \in Threads : /\ pc'[m][u] = "off" <=> pc[m][u] = "off"
                           /\ pc[m][u] = "lock" => pc'[m][u] = "lock"
    BY <2>e DEF Spawned
  <2> QED
    BY <1>0, <2>1, <2>2 DEF ShardsForNode, Listening
<1>3. ASSUME NEW n \in Nodes, NEW t \in Threads, SetCopies(n, t)
      PROVE  P'
  <2>1. UNCHANGED <<smState, notify, shards>> /\ pc[n][t] = "wait"
    BY <1>3 DEF SetCopies, CopiesReady, mapVars
  <2>e. \A u \in Threads : CopiesDone(n, t, m, u)
    BY <1>3, SetCopiesDone
  <2>2. \A u \in Threads : /\ pc'[m][u] # "off" => pc[m][u] # "off"
                           /\ pc[m][u] = "lock" => pc'[m][u] = "lock"
    BY <2>1, <2>e DEF CopiesDone
  <2> QED
    BY <1>0, <2>1, <2>2 DEF ShardsForNode, Listening
<1>4. ASSUME NEW p \in Procs, Dies(p) PROVE P'
  <2>1. smState' = smState
    BY <1>4 DEF Dies
  <2>e. Died(p, m, "loop")
    BY <1>0, <1>4, DiesEntry
  <2>2. CASE ProcOf[m] = p
    BY <2>2, <2>e DEF Listening, Died
  <2>3. CASE ProcOf[m] # p
    BY <2>1, <2>3, <2>e DEF ShardsForNode, Listening, Died
  <2> QED
    BY <2>2, <2>3
<1>5. ASSUME NEW n \in Nodes, ListenLoop(n) PROVE P'
  <2>1. UNCHANGED <<smState, shards>>
    BY <1>5 DEF ListenLoop
  <2>2. CASE m = n
    BY SMTT(30), <1>0, <1>5, <2>2 DEF ListenLoop, TypeOK
  <2>3. CASE m # n
    <3>1. pc'[m] = pc[m]
      BY <1>5, <2>3 DEF ListenLoop, TypeOK
    <3>2. m \in notify[ProcOf[m]] => m \in notify'[ProcOf[m]]
      BY <1>5, <2>3 DEF ListenLoop, TypeOK
    <3> QED
      BY <2>1, <3>1, <3>2 DEF ShardsForNode, Listening
  <2> QED
    BY <2>2, <2>3
<1>6. ASSUME NEW n \in Nodes, MakeKvServer(n) PROVE P'
  <2>1. UNCHANGED <<smState, shards, notify>>
    BY <1>6 DEF MakeKvServer, mapVars
  <2>2. CASE m = n
    <3>1. "init" \in Threads /\ pc'[m]["init"] = "lock"
      BY <1>6, <2>2 DEF MakeKvServer, TypeOK, Threads
    <3> QED
      BY <3>1
  <2>3. CASE m # n
    <3>1. pc'[m] = pc[m]
      BY <1>6, <2>3 DEF MakeKvServer, TypeOK
    <3> QED
      BY <2>1, <3>1 DEF ShardsForNode, Listening
  <2> QED
    BY <2>2, <2>3
<1>7. ASSUME NEW p \in Procs, Update(p) PROVE P'
  <2>1. UNCHANGED <<shards, pc>>
    BY <1>7 DEF Update
  <2>2. CASE ProcOf[m] = p
    <3>1. notify'[p] = Listeners(p)
      BY <1>7 DEF Update, TypeOK
    <3> QED
      BY <2>1, <2>2, <3>1 DEF Listeners, NodesOf, Listening
  <2>3. CASE ProcOf[m] # p
    <3>1. /\ smState'[ProcOf[m]] = smState[ProcOf[m]]
          /\ notify'[ProcOf[m]] = notify[ProcOf[m]]
      BY <1>7, <2>3 DEF Update, TypeOK
    <3> QED
      BY <2>1, <3>1 DEF ShardsForNode, Listening
  <2> QED
    BY <2>2, <2>3
<1>8. ASSUME NEW p \in Procs, Start(p) PROVE P'
  <2>1. UNCHANGED <<shards, pc, notify>> /\ p \notin up
    BY <1>8 DEF Start
  <2>2. CASE ProcOf[m] = p
    BY <2>1, <2>2 DEF UpInv, Listening
  <2>3. CASE ProcOf[m] # p
    <3>1. smState'[ProcOf[m]] = smState[ProcOf[m]]
      BY <1>8, <2>3 DEF Start, TypeOK
    <3> QED
      BY <2>1, <3>1 DEF ShardsForNode, Listening
  <2> QED
    BY <2>2, <2>3
<1>9. ASSUME UNCHANGED <<shards, pc, notify, smState>> PROVE P'
  BY <1>9 DEF ShardsForNode, Listening
<1>10. ASSUME NEW n \in Nodes, StoreStep(n)
       PROVE  UNCHANGED <<shards, pc, notify, smState>>
  BY <1>10 DEF StoreStep, Set, Delete, Cleanup, mapVars
<1>11. ASSUME NEW n \in Nodes, NEW x \in Nodes, NEW t \in Threads,
              NEW s \in Shards,
              FetchShard(n, t, s, x) \/ FetchFails(n, t, s, x)
       PROVE  UNCHANGED <<shards, pc, notify, smState>>
  BY <1>11 DEF FetchShard, FetchFails, mapVars
<1>12. ASSUME Quiet PROVE UNCHANGED <<shards, pc, notify, smState>>
  BY <1>12, Zenon DEF Quiet
<1>13. ASSUME NEW n \in Nodes, NEW t \in Threads, PanicMissingShard(n, t)
       PROVE  P'
  BY <1>4, <1>13 DEF PanicMissingShard
<1> HIDE DEF P
<1> QED
  BY <1>1, <1>2, <1>3, <1>4, <1>5, <1>6, <1>7, <1>8, <1>9, <1>10, <1>11,
     <1>12, <1>13, NextCases DEF P

-----------------------------------------------------------------------------
(***************************************************************************)
(* Every step keeps InFlight.                                              *)
(***************************************************************************)
LEMMA NextInFlight ==
  /\ TypeOK /\ InFlight /\ StoredIsAccepted /\ CopyKeepsExpiry
  /\ [Next]_vars
  => InFlight'
<1> USE KvServerAssumption
<1> SUFFICES ASSUME TypeOK, InFlight, StoredIsAccepted, CopyKeepsExpiry,
                    [Next]_vars, NEW m \in Nodes, NEW u \in Threads,
                    NEW k \in Keys, resp'[m][u][k] # None
             PROVE  /\ resp'[m][u][k].at <= now'
                    /\ resp'[m][u][k].ttl + resp'[m][u][k].at
                         = resp'[m][u][k].due + resp'[m][u][k].lag
                    /\ k # EmptyKey
  BY DEF InFlight
<1> DEFINE P == /\ resp'[m][u][k].at <= now'
                /\ resp'[m][u][k].ttl + resp'[m][u][k].at
                     = resp'[m][u][k].due + resp'[m][u][k].lag
                /\ k # EmptyKey
<1>1. ASSUME resp'[m][u][k] = resp[m][u][k],
             \/ now' = now \/ now' = now + 1
             \/ now' \in Nat /\ now <= now'
      PROVE  P
  <2>1. resp[m][u][k] \in ShardValue /\ now \in Nat
    BY SMTT(30), <1>1 DEF TypeOK
  <2> QED
    BY SMTT(30), <1>1, <2>1 DEF InFlight, ShardValue
<1>2. ASSUME NEW n \in Nodes, NEW x \in Nodes, NEW t \in Threads,
             NEW s \in Shards, FetchShard(n, t, s, x)
      PROVE  P
  <2>1. now' \in Nat /\ now <= now'
    BY <1>2, FetchClock
  <2>2. CASE resp'[m][u][k] # resp[m][u][k]
    <3>e. Fetched(n, t, s, x, m, u, k)
      BY <1>2, FetchEntry
    <3>1. resp'[m][u][k] = TimeLeft(x, k, now') /\ Found(x, k)
      BY <2>2, <3>e DEF Fetched
    <3>2. data[x][k] \in Object /\ data[x][k] # None /\ now \in Nat
      BY SMTT(30), <3>1 DEF Found, TypeOK
    <3>3. data[x][k].exp = data[x][k].due + data[x][k].lag /\ k # EmptyKey
      BY <3>2 DEF CopyKeepsExpiry, StoredIsAccepted, Accepts
    <3>4. /\ TimeLeft(x, k, now').at = now'
          /\ TimeLeft(x, k, now').ttl = data[x][k].exp - now'
          /\ TimeLeft(x, k, now').due = data[x][k].due
          /\ TimeLeft(x, k, now').lag = data[x][k].lag
      BY DEF TimeLeft
    <3>5. /\ data[x][k].exp \in Nat /\ data[x][k].due \in Nat
          /\ data[x][k].lag \in Nat
      BY <3>2 DEF Object
    <3> QED
      BY SMTT(30), <2>1, <3>1, <3>2, <3>3, <3>4, <3>5
  <2> QED
    BY <1>1, <2>1, <2>2
<1>3. ASSUME NEW n \in Nodes, NEW t \in Threads, SetCopies(n, t) PROVE P
  <2>1. now' = now
    BY <1>3 DEF SetCopies
  <2>e. CopiesDone(n, t, m, u)
    BY <1>3, SetCopiesDone
  <2>2. resp'[m][u][k] = resp[m][u][k]
    BY <2>e DEF CopiesDone
  <2> QED
    BY <1>1, <2>1, <2>2
<1>4. ASSUME NEW p \in Procs, Dies(p) PROVE P
  <2>1. now' = now
    BY <1>4 DEF Dies
  <2>e. Died(p, m, u)
    BY <1>4, DiesEntry
  <2>2. resp'[m][u][k] = resp[m][u][k]
    BY <2>e DEF Died
  <2> QED
    BY <1>1, <2>1, <2>2
<1>5. ASSUME NEW n \in Nodes, NEW t \in Threads,
             HandleShardMapUpdate(n, t)
      PROVE  P
  BY <1>1, <1>5 DEF HandleShardMapUpdate
<1>6. ASSUME NEW n \in Nodes, NEW t \in Threads, NEW s \in Shards,
             SpawnCopy(n, t, s)
      PROVE  P
  BY <1>1, <1>6 DEF SpawnCopy
<1>7. ASSUME NEW n \in Nodes, NEW x \in Nodes, NEW t \in Threads,
             NEW s \in Shards, FetchFails(n, t, s, x)
      PROVE  P
  BY <1>1, <1>7 DEF FetchFails
<1>8. ASSUME NEW n \in Nodes, ListenLoop(n) \/ MakeKvServer(n) PROVE P
  BY <1>1, <1>8 DEF ListenLoop, MakeKvServer, copyVars
<1>9. ASSUME NEW n \in Nodes, StoreStep(n) PROVE P
  BY <1>1, <1>9 DEF StoreStep, Set, Delete, Cleanup, copyVars
<1>10. ASSUME NEW p \in Procs, Update(p) \/ Start(p) PROVE P
  BY <1>1, <1>10 DEF Update, Start, copyVars
<1>11. ASSUME Quiet PROVE P
  BY <1>1, <1>11 DEF Quiet
<1>12. ASSUME NEW n \in Nodes, NEW t \in Threads, PanicMissingShard(n, t)
       PROVE  P
  BY <1>4, <1>12 DEF PanicMissingShard
<1> HIDE DEF P
<1>13. P
  BY <1>2, <1>3, <1>4, <1>5, <1>6, <1>7, <1>8, <1>9, <1>10, <1>11, <1>12,
     NextCases
<1> QED
  BY <1>13 DEF P

(***************************************************************************)
(* Every step keeps StoredIsAccepted and CopyKeepsExpiry.                  *)
(***************************************************************************)
LEMMA NextStored ==
  /\ TypeOK /\ InFlight /\ StoredIsAccepted /\ CopyKeepsExpiry
  /\ [Next]_vars
  => StoredIsAccepted' /\ CopyKeepsExpiry'
<1> USE KvServerAssumption
<1> SUFFICES ASSUME TypeOK, InFlight, StoredIsAccepted, CopyKeepsExpiry,
                    [Next]_vars, NEW m \in Nodes,
                    NEW k \in Keys, data'[m][k] # None
             PROVE  /\ ShardOf[k] \in shards'[m] /\ k # EmptyKey
                    /\ data'[m][k].exp = data'[m][k].due + data'[m][k].lag
  BY DEF StoredIsAccepted, CopyKeepsExpiry, Accepts
<1> DEFINE P == /\ ShardOf[k] \in shards'[m] /\ k # EmptyKey
                /\ data'[m][k].exp = data'[m][k].due + data'[m][k].lag
<1>1. ASSUME data'[m][k] = data[m][k], shards'[m] = shards[m]
      PROVE  P
  BY <1>1 DEF StoredIsAccepted, CopyKeepsExpiry, Accepts
<1>2. ASSUME NEW n \in Nodes, NEW t \in Threads, HandleShardMapUpdate(n, t)
      PROVE  P
  <2>e. \A u \in Threads : Handled(n, t, m, u)
    BY <1>2, HandleEntry
  <2>1. data'[m][k] = data[m][k]
    BY <2>e DEF Handled
  <2>2. ShardOf[k] \in shards[m]
    BY <2>1 DEF StoredIsAccepted, Accepts
  <2>3. ShardOf[k] \in shards'[m]
    BY <2>2, <2>e DEF Handled
  <2> QED
    BY <2>1, <2>3 DEF StoredIsAccepted, CopyKeepsExpiry, Accepts
<1>3. ASSUME NEW n \in Nodes, NEW t \in Threads, SetCopies(n, t) PROVE P
  <2>1. shards' = shards
    BY <1>3 DEF SetCopies
  <2>2. CASE data'[m][k] # data[m][k]
    <3> DEFINE v == resp[n][t][k]
    <3>e. Copied(n, t, m, k)
      BY <1>3, SetCopiesEntry
    <3>1. /\ m = n /\ v # None /\ ShardOf[k] \in shards[n]
          /\ data'[m][k] = CopyOf(v)
      BY <2>2, <3>e DEF Copied
    <3>2. v \in ShardValue /\ now \in Nat
      BY SMTT(30), <3>1 DEF TypeOK
    <3>3. v.ttl + v.at = v.due + v.lag /\ k # EmptyKey
      BY <3>1 DEF InFlight
    <3> HIDE DEF v
    <3>4. now + v.ttl = v.due + (v.lag + (now - v.at))
      BY SMTT(30), <3>2, <3>3 DEF ShardValue
    <3>5. CopyOf(v).exp = CopyOf(v).due + CopyOf(v).lag
      BY <3>4 DEF CopyOf
    <3> QED
      BY <2>1, <3>1, <3>3, <3>5
  <2> QED
    BY <1>1, <2>1, <2>2
<1>4. ASSUME NEW p \in Procs, Dies(p) PROVE P
  <2>e. Died(p, m, "loop")
    BY <1>4, DiesEntry DEF Threads
  <2>1. data'[m][k] = data[m][k] /\ shards'[m] = shards[m]
    BY <2>e DEF Died
  <2> QED
    BY <1>1, <2>1
<1>5. ASSUME NEW n \in Nodes, NEW i \in Keys, NEW v \in Values,
             NEW ttl \in Ttls, Set(n, i, v, ttl)
      PROVE  P
  <2> DEFINE obj == [val |-> v, exp |-> now + ttl, due |-> now + ttl,
                     lag |-> 0]
  <2>1. shards' = shards /\ Accepts(n, i)
    BY <1>5 DEF Set
  <2>2. data' = [data EXCEPT ![n][i] = obj]
    BY <1>5 DEF Set
  <2>3. \/ data'[m][k] = data[m][k]
        \/ m = n /\ k = i /\ data'[m][k] = obj
    <3> HIDE DEF obj
    <3> QED
      BY <2>2 DEF TypeOK
  <2>4. obj.exp = obj.due + obj.lag
    BY SMTT(30) DEF TypeOK
  <2> HIDE DEF obj
  <2> QED
    BY <1>1, <2>1, <2>3, <2>4 DEF Accepts
<1>6. ASSUME NEW n \in Nodes, NEW i \in Keys, Delete(n, i) PROVE P
  BY <1>1, <1>6 DEF Delete, TypeOK
<1>7. ASSUME NEW n \in Nodes, NEW s \in Shards, Cleanup(n, s) PROVE P
  BY <1>1, <1>7 DEF Cleanup, TypeOK
<1>8. ASSUME NEW n \in Nodes, NEW t \in Threads, NEW s \in Shards,
             SpawnCopy(n, t, s)
      PROVE  P
  BY <1>1, <1>8 DEF SpawnCopy
<1>9. ASSUME NEW n \in Nodes, NEW x \in Nodes, NEW t \in Threads,
             NEW s \in Shards,
             FetchShard(n, t, s, x) \/ FetchFails(n, t, s, x)
      PROVE  P
  BY <1>1, <1>9 DEF FetchShard, FetchFails
<1>10. ASSUME NEW n \in Nodes, ListenLoop(n) \/ MakeKvServer(n) PROVE P
  BY <1>1, <1>10 DEF ListenLoop, MakeKvServer
<1>11. ASSUME NEW p \in Procs, Update(p) \/ Start(p) PROVE P
  BY <1>1, <1>11 DEF Update, Start
<1>12. ASSUME Quiet PROVE P
  BY <1>1, <1>12 DEF Quiet
<1>13. ASSUME NEW n \in Nodes, NEW t \in Threads, PanicMissingShard(n, t)
       PROVE  P
  BY <1>4, <1>13 DEF PanicMissingShard
<1> HIDE DEF P
<1>14. P
  BY SMTT(30), <1>2, <1>3, <1>4, <1>5, <1>6, <1>7, <1>8, <1>9, <1>10, <1>11, <1>12,
     <1>13, NextCases DEF StoreStep
<1> QED
  BY <1>14 DEF P

-----------------------------------------------------------------------------
(***************************************************************************)
(* Copies and what they brought back belong to a handler that is in them.  *)
(***************************************************************************)
JobInv ==
  \A n \in Nodes, t \in Threads :
    pc[n][t] \notin {"spawn", "wait"}
      => /\ \A s \in Shards : job[n][t][s] = "none"
         /\ \A k \in Keys : resp[n][t][k] = None

(***************************************************************************)
(* Every step keeps JobInv.                                                *)
(***************************************************************************)
LEMMA NextJob == TypeOK /\ UpInv /\ JobInv /\ [Next]_vars => JobInv'
<1> USE KvServerAssumption
<1> SUFFICES ASSUME TypeOK, UpInv, JobInv, [Next]_vars, NEW m \in Nodes,
                    NEW u \in Threads
             PROVE  JobInv!(m, u)'
  BY DEF JobInv
<1>1. JobInv!(m, u)
  BY DEF JobInv
<1>2. ASSUME pc'[m][u] = pc[m][u], job'[m][u] = job[m][u],
             resp'[m][u] = resp[m][u]
      PROVE  JobInv!(m, u)'
  BY <1>1, <1>2
<1>3. ASSUME NEW n \in Nodes, NEW t \in Threads, HandleShardMapUpdate(n, t)
      PROVE  JobInv!(m, u)'
  <2>1. resp' = resp /\ pc[n][t] = "lock"
    BY <1>3 DEF HandleShardMapUpdate
  <2>e. Handled(n, t, m, u)
    BY <1>3, HandleEntry
  <2>2. CASE m = n /\ u = t
    <3>1. CASE ShardsForNode(n) \ shards[n] = {}
      <4>1. \A s \in Shards : job'[m][u][s] = "none"
        BY <2>2, <2>e, <3>1 DEF Handled
      <4>2. \A k \in Keys : resp'[m][u][k] = None
        BY <1>1, <2>1, <2>2
      <4> QED
        BY <4>1, <4>2
    <3>2. CASE ShardsForNode(n) \ shards[n] # {}
      <4>1. pc'[m][u] = "spawn"
        BY <2>2, <2>e, <3>2 DEF Handled
      <4> QED
        BY <4>1
    <3> QED
      BY <3>1, <3>2
  <2>3. CASE ~(m = n /\ u = t)
    <3>1. /\ pc'[m][u] = pc[m][u]
          /\ \A s \in Shards : job'[m][u][s] = job[m][u][s]
      BY <2>3, <2>e DEF Handled
    <3> QED
      BY <1>1, <2>1, <3>1
  <2> QED
    BY <2>2, <2>3
<1>4. ASSUME NEW n \in Nodes, NEW t \in Threads, NEW s \in Shards,
             SpawnCopy(n, t, s)
      PROVE  JobInv!(m, u)'
  <2>1. resp' = resp
    BY <1>4 DEF SpawnCopy
  <2>e. Spawned(n, t, s, m, u)
    BY <1>4, SpawnEntry
  <2>2. CASE m = n /\ u = t
    <3>1. pc'[m][u] \in {"spawn", "wait"}
      BY <2>2, <2>e DEF Spawned
    <3> QED
      BY <3>1
  <2>3. CASE ~(m = n /\ u = t)
    <3>1. /\ pc'[m][u] = pc[m][u]
          /\ \A i \in Shards : job'[m][u][i] = job[m][u][i]
      BY <2>3, <2>e DEF Spawned
    <3> QED
      BY <1>1, <2>1, <3>1
  <2> QED
    BY <2>2, <2>3
<1>5. ASSUME NEW n \in Nodes, NEW x \in Nodes, NEW t \in Threads,
             NEW s \in Shards, FetchShard(n, t, s, x)
      PROVE  JobInv!(m, u)'
  <2>1. pc' = pc /\ job[n][t][s] = "fetch"
    BY <1>5 DEF FetchShard
  <2>2. CASE m = n /\ u = t
    BY <1>1, <2>1, <2>2
  <2>3. CASE ~(m = n /\ u = t)
    <3>1. job'[m][u] = job[m][u]
      BY SMTT(30), <1>5, <2>3 DEF FetchShard, TypeOK
    <3>e. \A k \in Keys : Fetched(n, t, s, x, m, u, k)
      BY <1>5, FetchEntry
    <3>2. \A k \in Keys : resp'[m][u][k] = resp[m][u][k]
      BY <2>3, <3>e DEF Fetched
    <3> QED
      BY <1>1, <2>1, <3>1, <3>2
  <2> QED
    BY <2>2, <2>3
<1>6. ASSUME NEW n \in Nodes, NEW x \in Nodes, NEW t \in Threads,
             NEW s \in Shards, FetchFails(n, t, s, x)
      PROVE  JobInv!(m, u)'
  <2>1. pc' = pc /\ resp' = resp /\ job[n][t][s] = "fetch"
    BY <1>6 DEF FetchFails
  <2>2. CASE m = n /\ u = t
    BY <1>1, <2>1, <2>2
  <2>3. CASE ~(m = n /\ u = t)
    <3>1. job'[m][u] = job[m][u]
      BY <1>6, <2>3 DEF FetchFails, TypeOK
    <3> QED
      BY <1>2, <2>1, <3>1
  <2> QED
    BY <2>2, <2>3
<1>7. ASSUME NEW n \in Nodes, NEW t \in Threads, SetCopies(n, t)
      PROVE  JobInv!(m, u)'
  <2>e. CopiesDone(n, t, m, u)
    BY <1>7, SetCopiesDone
  <2> QED
    BY <1>2, <2>e DEF CopiesDone
<1>8. ASSUME NEW p \in Procs, Dies(p) PROVE JobInv!(m, u)'
  <2>e. Died(p, m, u)
    BY <1>8, DiesEntry
  <2> QED
    BY <1>2, <2>e DEF Died
<1>9. ASSUME NEW n \in Nodes, ListenLoop(n) PROVE JobInv!(m, u)'
  <2>1. job' = job /\ resp' = resp /\ pc[n]["loop"] = "select"
    BY <1>9 DEF ListenLoop, copyVars
  <2>2. pc'[m][u] = pc[m][u] \/ pc[m][u] = "select"
    BY <1>9, <2>1 DEF ListenLoop, TypeOK
  <2> QED
    BY <1>1, <2>1, <2>2
<1>10. ASSUME NEW n \in Nodes, MakeKvServer(n)
       PROVE  JobInv!(m, u)'
  <2>1. job' = job /\ resp' = resp /\ pc[n]["init"] = "off"
    BY <1>10 DEF MakeKvServer, copyVars
  <2>2. pc'[m][u] = pc[m][u] \/ pc[m][u] = "off"
    BY <1>10, <2>1 DEF MakeKvServer, TypeOK, UpInv, Threads
  <2> QED
    BY <1>1, <2>1, <2>2
<1>11. ASSUME NEW n \in Nodes, StoreStep(n) PROVE JobInv!(m, u)'
  BY <1>2, <1>11 DEF StoreStep, Set, Delete, Cleanup, copyVars
<1>12. ASSUME NEW p \in Procs, Update(p) \/ Start(p) PROVE JobInv!(m, u)'
  BY <1>2, <1>12 DEF Update, Start, copyVars
<1>13. ASSUME Quiet PROVE JobInv!(m, u)'
  BY <1>2, <1>13 DEF Quiet
<1>14. ASSUME NEW n \in Nodes, NEW t \in Threads, PanicMissingShard(n, t)
       PROVE  JobInv!(m, u)'
  BY <1>8, <1>14 DEF PanicMissingShard
<1> QED
  BY <1>3, <1>4, <1>5, <1>6, <1>7, <1>8, <1>9, <1>10, <1>11, <1>12, <1>13,
     <1>14, NextCases

-----------------------------------------------------------------------------
(***************************************************************************)
(* Where all servers are constructed and none starts again, the listen     *)
(* loop is alone, and all it copies is of shards the node hosts.           *)
(***************************************************************************)
SteadyNode(n) ==
  /\ pc[n]["init"] \in {"done", "off"}
  /\ pc[n]["init"] = "off" => ProcOf[n] \notin up
  /\ \A s \in Shards : job[n]["loop"][s] # "none" => s \in shards[n]
  /\ \A k \in Keys : resp[n]["loop"][k] # None => ShardOf[k] \in shards[n]

SteadyInv ==
  Steady => /\ "missingShard" \notin panics
            /\ \A n \in Nodes : SteadyNode(n)

(***************************************************************************)
(* Every step keeps SteadyInv.                                             *)
(***************************************************************************)
LEMMA NextSteady ==
  TypeOK /\ UpInv /\ JobInv /\ SteadyInv /\ [Next]_vars => SteadyInv'
<1> USE KvServerAssumption
<1> SUFFICES ASSUME TypeOK, UpInv, JobInv, Steady,
                    "missingShard" \notin panics,
                    \A n \in Nodes : SteadyNode(n),
                    [Next]_vars
             PROVE  /\ "missingShard" \notin panics'
                    /\ \A n \in Nodes : SteadyNode(n)'
  BY DEF SteadyInv, Steady
<1>0. "loop" \in Threads /\ "init" \in Threads /\ \A t \in Threads :
         t = "loop" \/ t = "init"
  BY DEF Threads
<1>1. ASSUME NEW m \in Nodes, up' = up,
             pc'[m]["init"] = pc[m]["init"], shards'[m] = shards[m],
             \A s \in Shards : job'[m]["loop"][s] # "none"
                                 => job[m]["loop"][s] # "none",
             \A k \in Keys : resp'[m]["loop"][k] = resp[m]["loop"][k]
      PROVE  SteadyNode(m)'
  BY <1>1 DEF SteadyNode
<1>2. ASSUME NEW n \in Nodes, NEW t \in Threads, HandleShardMapUpdate(n, t),
             NEW m \in Nodes
      PROVE  SteadyNode(m)'
  <2>1. UNCHANGED <<up, resp>> /\ pc[n][t] = "lock"
    BY <1>2 DEF HandleShardMapUpdate
  <2>2. t = "loop"
    BY <1>0, <2>1 DEF SteadyNode
  <2>e. Handled(n, t, m, "init") /\ Handled(n, t, m, "loop")
    BY <1>0, <1>2, HandleEntry
  <2>3. pc'[m]["init"] = pc[m]["init"]
    BY <2>2, <2>e DEF Handled
  <2>4. CASE m = n
    <3>1. shards'[m] = ShardsForNode(n)
      BY <2>4, <2>e DEF Handled
    <3>2. ASSUME NEW s \in Shards, s \notin ShardsForNode(n)
          PROVE  job'[m]["loop"][s] = "none"
      <4>1. job'[m]["loop"][s] =
              IF m = n /\ "loop" = t
              THEN IF s \in ShardsForNode(n) \ shards[n]
                   THEN "added" ELSE "none"
              ELSE job[m]["loop"][s]
        BY <2>e DEF Handled
      <4> QED
        BY <2>2, <2>4, <3>2, <4>1
    <3>3. \A k \in Keys : resp'[m]["loop"][k] = None
      <4>1. pc[n]["loop"] \notin {"spawn", "wait"}
        BY <2>1, <2>2
      <4>2. \A k \in Keys : resp[n]["loop"][k] = None
        BY <1>0, <4>1 DEF JobInv
      <4> QED
        BY <2>1, <2>4, <4>2
    <3> QED
      BY <2>1, <2>3, <3>1, <3>2, <3>3 DEF SteadyNode
  <2>5. CASE m # n
    <3>1. /\ shards'[m] = shards[m]
          /\ \A s \in Shards : job'[m]["loop"][s] = job[m]["loop"][s]
      BY <2>5, <2>e DEF Handled
    <3> QED
      BY <1>1, <2>1, <2>3, <3>1
  <2> QED
    BY <2>4, <2>5
<1>3. ASSUME NEW n \in Nodes, NEW t \in Threads, NEW s \in Shards,
             SpawnCopy(n, t, s), NEW m \in Nodes
      PROVE  SteadyNode(m)'
  <2>1. UNCHANGED <<up, shards, resp>>
    BY <1>3 DEF SpawnCopy
  <2>e. Spawned(n, t, s, m, "init") /\ Spawned(n, t, s, m, "loop")
    BY <1>0, <1>3, SpawnEntry
  <2>2. pc[n][t] = "spawn" /\ job[n][t][s] = "added" /\ t = "loop"
    BY <1>0, <2>e DEF SteadyNode, Spawned
  <2>3. pc'[m]["init"] = pc[m]["init"]
    BY <2>2, <2>e DEF Spawned
  <2>4. \A i \in Shards : job'[m]["loop"][i] # "none"
                            => job[m]["loop"][i] # "none"
    BY <2>2, <2>e DEF Spawned
  <2> QED
    BY <1>1, <2>1, <2>3, <2>4
<1>4. ASSUME NEW n \in Nodes, NEW x \in Nodes, NEW t \in Threads,
             NEW s \in Shards, FetchShard(n, t, s, x), NEW m \in Nodes
      PROVE  SteadyNode(m)'
  <2>1. UNCHANGED <<up, shards, pc>> /\ job[n][t][s] = "fetch"
    BY <1>4 DEF FetchShard
  <2>2. \A i \in Shards : job'[m]["loop"][i] # "none"
                            => job[m]["loop"][i] # "none"
    BY SMTT(30), <1>0, <1>4, <2>1 DEF FetchShard, TypeOK
  <2>3. \A k \in Keys : resp'[m]["loop"][k] # resp[m]["loop"][k]
                          => ShardOf[k] \in shards[m]
    <3> TAKE k \in Keys
    <3> HAVE resp'[m]["loop"][k] # resp[m]["loop"][k]
    <3>e. Fetched(n, t, s, x, m, "loop", k)
      BY <1>0, <1>4, FetchEntry
    <3>1. m = n /\ t = "loop" /\ ShardOf[k] = s
      BY <3>e DEF Fetched
    <3> QED
      BY <2>1, <3>1 DEF SteadyNode
  <2> QED
    BY <2>1, <2>2, <2>3 DEF SteadyNode
<1>5. ASSUME NEW n \in Nodes, NEW x \in Nodes, NEW t \in Threads,
             NEW s \in Shards, FetchFails(n, t, s, x), NEW m \in Nodes
      PROVE  SteadyNode(m)'
  <2>1. UNCHANGED <<up, shards, pc, resp>> /\ job[n][t][s] = "fetch"
    BY <1>5 DEF FetchFails
  <2>2. \A i \in Shards : job'[m]["loop"][i] # "none"
                            => job[m]["loop"][i] # "none"
    BY SMTT(30), <1>0, <1>5, <2>1 DEF FetchFails, TypeOK
  <2> QED
    BY <1>1, <2>1, <2>2
<1>6. ASSUME NEW n \in Nodes, NEW t \in Threads, SetCopies(n, t),
             NEW m \in Nodes
      PROVE  SteadyNode(m)'
  <2>1. UNCHANGED <<up, shards>> /\ pc[n][t] = "wait"
    BY <1>6 DEF SetCopies, CopiesReady
  <2>2. t = "loop"
    BY <1>0, <2>1 DEF SteadyNode
  <2>e. CopiesDone(n, t, m, "init") /\ CopiesDone(n, t, m, "loop")
    BY <1>0, <1>6, SetCopiesDone
  <2>3. pc'[m]["init"] = pc[m]["init"]
    BY <2>2, <2>e DEF CopiesDone
  <2>4. /\ \A i \in Shards : job'[m]["loop"][i] # "none"
                               => job[m]["loop"][i] # "none"
        /\ \A k \in Keys : resp'[m]["loop"][k] # None
                             => resp'[m]["loop"][k] = resp[m]["loop"][k]
    BY <2>2, <2>e DEF CopiesDone
  <2> QED
    BY <2>1, <2>3, <2>4 DEF SteadyNode
<1>7. ASSUME NEW p \in Procs, Dies(p), NEW m \in Nodes
      PROVE  SteadyNode(m)'
  <2>1. up' = up \ {p}
    BY <1>7 DEF Dies
  <2>e. Died(p, m, "init") /\ Died(p, m, "loop")
    BY <1>0, <1>7, DiesEntry
  <2>2. CASE ProcOf[m] = p
    BY <2>1, <2>2, <2>e DEF Died, SteadyNode
  <2>3. CASE ProcOf[m] # p
    BY <2>1, <2>3, <2>e DEF Died, SteadyNode
  <2> QED
    BY <2>2, <2>3
<1>8. ASSUME NEW n \in Nodes, ListenLoop(n), NEW m \in Nodes
      PROVE  SteadyNode(m)'
  <2>1. UNCHANGED <<up, shards, job, resp>>
    BY <1>8 DEF ListenLoop, copyVars
  <2>2. pc'[m]["init"] = pc[m]["init"]
    BY <1>0, <1>8 DEF ListenLoop, TypeOK
  <2> QED
    BY <1>1, <2>1, <2>2
<1>9. ASSUME NEW n \in Nodes, MakeKvServer(n) PROVE FALSE
  BY <1>9 DEF MakeKvServer, SteadyNode
<1>10. ASSUME NEW n \in Nodes, StoreStep(n), NEW m \in Nodes
       PROVE  SteadyNode(m)'
  <2>1. UNCHANGED <<up, shards, pc, job, resp>>
    BY <1>10 DEF StoreStep, Set, Delete, Cleanup, copyVars
  <2> QED
    BY <1>1, <2>1
<1>11. ASSUME NEW p \in Procs, Update(p), NEW m \in Nodes
       PROVE  SteadyNode(m)'
  <2>1. UNCHANGED <<up, shards, pc, job, resp>>
    BY SMTT(30), <1>11 DEF Update, copyVars
  <2> QED
    BY <1>1, <2>1
<1>12. ASSUME NEW p \in Procs, Start(p) PROVE FALSE
  BY SMTT(30), <1>12 DEF Start, Steady, TypeOK
<1>13. ASSUME Quiet, NEW m \in Nodes PROVE SteadyNode(m)'
  BY <1>1, <1>13 DEF Quiet
<1>14. ASSUME NEW n \in Nodes, NEW t \in Threads, PanicMissingShard(n, t)
       PROVE  FALSE
  <2>1. pc[n][t] = "wait"
    BY <1>14 DEF PanicMissingShard, CopiesReady
  <2>2. t = "loop"
    BY <1>0, <2>1 DEF SteadyNode
  <2> QED
    BY <1>14, <2>2 DEF PanicMissingShard, Misses, SteadyNode
<1>15. \A n \in Nodes : SteadyNode(n)'
  BY <1>2, <1>3, <1>4, <1>5, <1>6, <1>7, <1>8, <1>9, <1>10, <1>11, <1>12,
     <1>13, <1>14, NextCases
<1>16. "missingShard" \notin panics'
  <2>1. ASSUME NEW n \in Nodes, NEW t \in Threads,
               HandleShardMapUpdate(n, t) \/ SetCopies(n, t)
        PROVE  panics' = panics
    BY <2>1 DEF HandleShardMapUpdate, SetCopies
  <2>2. ASSUME NEW n \in Nodes, NEW x \in Nodes, NEW t \in Threads,
               NEW s \in Shards,
               \/ SpawnCopy(n, t, s)
               \/ FetchShard(n, t, s, x)
               \/ FetchFails(n, t, s, x)
        PROVE  panics' = panics
    BY <2>2 DEF SpawnCopy, FetchShard, FetchFails
  <2>3. ASSUME NEW n \in Nodes, ListenLoop(n) \/ StoreStep(n)
        PROVE  panics' = panics
    BY <2>3 DEF ListenLoop, StoreStep, Set, Delete, Cleanup
  <2>4. ASSUME NEW p \in Procs, Update(p) PROVE panics' = panics
    BY <2>4 DEF Update
  <2>5. ASSUME Quiet PROVE panics' = panics
    BY <2>5 DEF Quiet
  <2>6. \/ panics' = panics
        \/ panics' \subseteq panics \cup {"noNodes", "mapRace"}
    BY <1>9, <1>12, <1>14, <2>1, <2>2, <2>3, <2>4, <2>5, NextCases
  <2> QED
    BY <2>6
<1> QED
  BY <1>15, <1>16

-----------------------------------------------------------------------------
(***************************************************************************)
(* The inductive invariant: the properties of KvServer that are proved,    *)
(* and what they lean on.                                                  *)
(***************************************************************************)
IndInv ==
  /\ TypeOK
  /\ UpInv
  /\ LockNotHeldWhileWaiting
  /\ NoLostUpdate
  /\ InFlight
  /\ StoredIsAccepted
  /\ CopyKeepsExpiry
  /\ JobInv
  /\ SteadyInv

(***************************************************************************)
(* IndInv holds initially.                                                 *)
(***************************************************************************)
LEMMA InitIndInv == Init => IndInv
<1> USE KvServerAssumption
<1> SUFFICES ASSUME Init PROVE IndInv
  OBVIOUS
<1>1. TypeOK
  BY InitTypeOK
<1>2. \A n \in Nodes, t \in Threads :
         pc[n][t] = IF ProcOf[n] \in Started THEN Idle(t) ELSE "off"
  BY DEF Init, InitServers
<1>3. \A n \in Nodes, t \in Threads, s \in Shards : job[n][t][s] = "none"
  BY DEF Init, InitServers, NoCopies
<1>4. \A n \in Nodes, t \in Threads, k \in Keys : resp[n][t][k] = None
  BY DEF Init, InitServers, NoValues
<1>5. \A n \in Nodes, k \in Keys : data[n][k] = None
  BY DEF Init, InitServers, NoData
<1>6. UpInv
  BY <1>2 DEF UpInv, Init, InitServers, Idle, Threads
<1>7. LockNotHeldWhileWaiting
  BY <1>2 DEF LockNotHeldWhileWaiting, Init, InitServers, Idle, Threads
<1>8. NoLostUpdate
  <2> SUFFICES ASSUME NEW n \in Nodes, Listening(n)
               PROVE  shards[n] = ShardsForNode(n)
    BY DEF NoLostUpdate
  <2>1. ProcOf[n] \in Started
    BY <1>2 DEF Listening, Threads
  <2> QED
    BY <2>1 DEF Init, InitServers, ShardsForNode
<1>9. InFlight /\ StoredIsAccepted /\ CopyKeepsExpiry /\ JobInv
  BY SMTT(30), <1>3, <1>4, <1>5
     DEF InFlight, StoredIsAccepted, CopyKeepsExpiry, JobInv
<1>10. SteadyInv
  BY SMTT(30), <1>2, <1>3, <1>4
     DEF SteadyInv, SteadyNode, Steady, Init, InitServers, Idle, Threads
<1> QED
  BY <1>1, <1>6, <1>7, <1>8, <1>9, <1>10 DEF IndInv

(***************************************************************************)
(* Every step keeps IndInv.                                                *)
(***************************************************************************)
LEMMA NextIndInv == IndInv /\ [Next]_vars => IndInv'
BY NextTypeOK, NextUp, NextLock, NextNoLostUpdate, NextInFlight, NextStored,
   NextJob, NextSteady DEF IndInv

(***************************************************************************)
(* The state of the servers keeps its types: a copy, though it may have    *)
(* been sent with less than no time left, is never stored as one that      *)
(* expires before time 0, nor as one that was under way for less than no   *)
(* time.                                                                   *)
(***************************************************************************)
THEOREM TypeCorrect == Spec => []TypeOK
<1>1. IndInv => TypeOK
  BY DEF IndInv
<1> QED
  BY <1>1, InitIndInv, NextIndInv, PTL DEF Spec

(***************************************************************************)
(* No update of the shard map is ever lost by a server that listens.       *)
(***************************************************************************)
THEOREM UpdatesNotLost == Spec => []NoLostUpdate
<1>1. IndInv => NoLostUpdate
  BY DEF IndInv
<1> QED
  BY <1>1, InitIndInv, NextIndInv, PTL DEF Spec

(***************************************************************************)
(* handleShardMapUpdate excludes itself while it changes the hosted        *)
(* shards and never waits for a peer with server.mu in its hands.          *)
(***************************************************************************)
THEOREM LockDiscipline == Spec => []LockNotHeldWhileWaiting
<1>1. IndInv => LockNotHeldWhileWaiting
  BY DEF IndInv
<1> QED
  BY <1>1, InitIndInv, NextIndInv, PTL DEF Spec

(***************************************************************************)
(* Every stored object is of a hosted shard and has a key, whoever stored  *)
(* it: what a dropped shard held is gone.                                  *)
(***************************************************************************)
THEOREM OnlyHostedIsStored == Spec => []StoredIsAccepted
<1>1. IndInv => StoredIsAccepted
  BY DEF IndInv
<1> QED
  BY <1>1, InitIndInv, NextIndInv, PTL DEF Spec

(***************************************************************************)
(* A value expires when its Set said, plus the time its copies were on     *)
(* their way, after any number of copies.                                  *)
(***************************************************************************)
THEOREM ExpiryIsKept == Spec => []CopyKeepsExpiry
<1>1. IndInv => CopyKeepsExpiry
  BY DEF IndInv
<1> QED
  BY <1>1, InitIndInv, NextIndInv, PTL DEF Spec

(***************************************************************************)
(* Servers that are all constructed and do not restart never insert a copy *)
(* into a shard that is gone.                                              *)
(***************************************************************************)
THEOREM CopiesLand == Spec => []SteadyCopiesLand
<1>1. IndInv => SteadyCopiesLand
  BY DEF IndInv, SteadyInv, SteadyCopiesLand
<1> QED
  BY <1>1, InitIndInv, NextIndInv, PTL DEF Spec
=============================================================================
