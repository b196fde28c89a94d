------------------------------ MODULE KvServer ------------------------------
(***************************************************************************)
(* The servers of the sharded key-value cache (lab4/kv/server.go) and the  *)
(* shard maps they follow (lab4/kv/shardmap.go, file_shardmap.go).         *)
(*                                                                         *)
(* A process holds one ShardMap and the servers (nodes) that share it: one *)
(* in production (cmd/server), all of them in the tests (test_setup.go).   *)
(* Two goroutines of a node run handleShardMapUpdate: its constructor,     *)
(* "init", and its shardMapListenLoop, "loop".  The handler holds          *)
(* server.mu, lets go of it while the contents of the added shards are     *)
(* fetched from peers, and takes it again to insert them.                  *)
(*                                                                         *)
(* The entries of all the shards of a node are kept in one function from   *)
(* keys: server.shards[s].data is its restriction to the keys of s.  An    *)
(* object is kept by its expiry time, stored_time + ttlMs, which is all    *)
(* that hasExpired and TtlMsRemaining depend on.                           *)
(***************************************************************************)
EXTENDS Integers

CONSTANTS
  Nodes,        \* the node names
  Procs,        \* the processes, each with its own ShardMap
  ProcOf,       \* the process of a node
  Shards,       \* the shards 1..NumShards, a set that never changes
  Keys,         \* the keys clients use, EmptyKey ("") among them
  EmptyKey,
  ShardOf,      \* GetShardForKey: the hash of a key, modulo NumShards
  Values,       \* the values of the keys
  Ttls,         \* the ttlMs of the Set requests, in ticks
  Assignments,  \* the ShardsToNodes maps the shard map file goes through
  FirstMap,     \* the one it starts with
  Started,      \* the processes whose servers are constructed in Init
  None,         \* no object under a key
  Unreliable,   \* whether an RPC to a live peer may fail
  MaxEdits,     \* bound: edits of the shard map file
  MaxRestarts,  \* bound: processes started after Init
  MaxTime       \* bound: ticks of the clock

ASSUME KvServerAssumption ==
  /\ ProcOf \in [Nodes -> Procs]
  /\ EmptyKey \in Keys
  /\ ShardOf \in [Keys -> Shards]
  /\ Ttls \subseteq Nat
  /\ Assignments \subseteq [Shards -> SUBSET Nodes]
  /\ FirstMap \in Assignments
  /\ Started \subseteq Procs
  /\ Unreliable \in BOOLEAN
  /\ MaxEdits \in Nat /\ MaxRestarts \in Nat /\ MaxTime \in Nat

VARIABLES
  file,     \* the shard map file: the latest assignment
  edits,    \* how often it was edited
  starts,   \* how many processes were started after Init
  up,       \* the processes that run
  panics,   \* history: what made processes panic
  smState,  \* ShardMap.state of a process
  notify,   \* the listeners an Update in progress still has to notify
  pc,       \* where the constructor and the listen loop of a node are
  mu,       \* who holds server.mu across steps: "free", "init" or "loop"
  shards,   \* the keys of server.shards: the shards a node hosts
  data,     \* the objects of a node, by key
  job,      \* the goroutine that copies a shard for a handler
  peers,    \* the nodes that goroutine has not tried yet
  resp,     \* the values the goroutines brought back, by key
  now       \* the clock

mapVars  == <<file, edits, starts, smState, notify>>
copyVars == <<job, peers, resp>>
vars == <<file, edits, starts, up, panics, smState, notify, pc, mu, shards,
          data, job, peers, resp, now>>

Threads == {"init", "loop"}

(***************************************************************************)
(* A goroutine that may handle updates is not there, waits for server.mu,  *)
(* spawns the copies, waits for them, is in the loop's select, or is done  *)
(* (a constructor).                                                        *)
(***************************************************************************)
HandlerPc == {"off", "lock", "spawn", "wait", "select", "done"}

(***************************************************************************)
(* A copy: none, to be spawned, asking peers, finished, or about to panic. *)
(***************************************************************************)
JobState == {"none", "added", "fetch", "got", "doomed"}

(***************************************************************************)
(* A kvObject: its value and when it expires.  "due" and "lag" are history *)
(* (the program has no such fields): when the Set that made the value said *)
(* it should expire, and how long copies of it were under way since.       *)
(***************************************************************************)
Object == [val: Values, exp: Nat, due: Nat, lag: Nat]

(***************************************************************************)
(* A GetShardValue of a GetShardContents response: the value and           *)
(* TtlMsRemaining, which may be negative; "at" is history, the time the    *)
(* response was made.                                                      *)
(***************************************************************************)
ShardValue == [val: Values, ttl: Int, due: Nat, lag: Nat, at: Nat]

ASSUME NoneAssumption == None \notin Object \cup ShardValue

NodesOf(p) == {n \in Nodes : ProcOf[n] = p}

NoCopies == [t \in Threads |-> [s \in Shards |-> "none"]]
NoPeers  == [t \in Threads |-> [s \in Shards |-> {}]]
NoValues == [t \in Threads |-> [k \in Keys |-> None]]
NoData   == [k \in Keys |-> None]

-----------------------------------------------------------------------------
(***************************************************************************)
(* ShardMap: the reads are single atomic loads of the state.               *)
(***************************************************************************)
ShardsForNode(n) == {s \in Shards : n \in smState[ProcOf[n]][s]}

NodesForShard(p, s) == smState[p][s]

(***************************************************************************)
(* MakeListener is the first thing MakeKvServer does.                      *)
(***************************************************************************)
Listening(n) == pc[n]["loop"] # "off"

(***************************************************************************)
(* RPCs reach a node once the constructors of its process have returned:   *)
(* cmd/server serves, and the tests fill the client pool, after that.      *)
(***************************************************************************)
Serving(n) == \A x \in NodesOf(ProcOf[n]) : pc[x]["init"] = "done"

(***************************************************************************)
(* Where a handler's goroutine is once handleShardMapUpdate has returned.  *)
(***************************************************************************)
Idle(t) == IF t = "init" THEN "done" ELSE "select"

HasExpired(obj) == now >= obj.exp

(***************************************************************************)
(* What Get answers: the object unless it is absent or expired.            *)
(***************************************************************************)
Found(n, k) == data[n][k] # None /\ ~HasExpired(data[n][k])

(***************************************************************************)
(* How the RPC handlers treat a key before they touch the store.           *)
(***************************************************************************)
Accepts(n, k) == ShardOf[k] \in shards[n] /\ k # EmptyKey

-----------------------------------------------------------------------------
(***************************************************************************)
(* The servers of the processes in Started are constructed, from the first *)
(* contents of the file; clients have not written anything yet.            *)
(***************************************************************************)
InitServers ==
  /\ file = FirstMap
  /\ edits = 0 /\ starts = 0 /\ now = 0
  /\ up = Started
  /\ panics = {}
  /\ smState = [p \in Procs |-> FirstMap]
  /\ notify = [p \in Procs |-> {}]
  /\ pc = [n \in Nodes |-> IF ProcOf[n] \in Started
                           THEN [t \in Threads |-> Idle(t)]
                           ELSE [t \in Threads |-> "off"]]
  /\ mu = [n \in Nodes |-> "free"]
  /\ shards = [n \in Nodes |-> IF ProcOf[n] \in Started
                               THEN {s \in Shards : n \in FirstMap[s]} ELSE {}]
  /\ job = [n \in Nodes |-> NoCopies]
  /\ peers = [n \in Nodes |-> NoPeers]
  /\ resp = [n \in Nodes |-> NoValues]

Init == InitServers /\ data = [n \in Nodes |-> NoData]

(***************************************************************************)
(* An operator, or a test, writes a new assignment.                        *)
(***************************************************************************)
Edit(a) ==
  /\ edits < MaxEdits
  /\ file' = a
  /\ edits' = edits + 1
  /\ UNCHANGED <<starts, up, panics, smState, notify, pc, mu, shards, data,
                 copyVars, now>>

(***************************************************************************)
(* The channels Update sends to: those of all the listeners there are.     *)
(***************************************************************************)
ReadyListeners(p) ==          \* mutant: a send that does not block
  {n \in NodesOf(p) : pc[n]["loop"] = "select"}

Listeners(p) == {n \in NodesOf(p) : Listening(n)}

(***************************************************************************)
(* applyFromFile and Update: the state is swapped, and then every channel  *)
(* is sent to.  The sends are unbuffered: Update waits for each listener.  *)
(* The goroutine that calls Update makes one call at a time.  (A listener  *)
(* made between the swap and sm.mutex.RLock() is told as well: the process *)
(* then has no other server, and this is a second Update after it.)        *)
(***************************************************************************)
Update(p) ==
  /\ p \in up
  /\ notify[p] = {}
  /\ smState' = [smState EXCEPT ![p] = file]
  /\ notify' = [notify EXCEPT ![p] = Listeners(p)]
  /\ UNCHANGED <<file, edits, starts, up, panics, pc, mu, shards, data,
                 copyVars, now>>

(***************************************************************************)
(* The loop is in its select and takes the notification.                   *)
(***************************************************************************)
ListenLoop(n) ==
  /\ n \in notify[ProcOf[n]]
  /\ pc[n]["loop"] = "select"
  /\ notify' = [notify EXCEPT ![ProcOf[n]] = @ \ {n}]
  /\ pc' = [pc EXCEPT ![n]["loop"] = "lock"]
  /\ UNCHANGED <<file, edits, starts, up, panics, smState, mu, shards, data,
                 copyVars, now>>

(***************************************************************************)
(* A process starts: WatchShardMapFile reads the file.                     *)
(***************************************************************************)
Start(p) ==
  /\ p \notin up
  /\ starts < MaxRestarts
  /\ starts' = starts + 1
  /\ up' = up \cup {p}
  /\ smState' = [smState EXCEPT ![p] = file]
  /\ UNCHANGED <<file, edits, panics, notify, pc, mu, shards, data, copyVars,
                 now>>

(***************************************************************************)
(* MakeKvServer: MakeListener (whose Lock waits for an Update in progress),*)
(* the listen loop as a goroutine, and then the constructor's own call of  *)
(* handleShardMapUpdate.  A process constructs its servers one by one.     *)
(***************************************************************************)
MakeKvServer(n) ==
  /\ ProcOf[n] \in up
  /\ pc[n]["init"] = "off"
  /\ \A x \in NodesOf(ProcOf[n]) : pc[x]["init"] \in {"off", "done"}
  /\ notify[ProcOf[n]] = {}
  /\ pc' = [pc EXCEPT ![n] = [t \in Threads |->
                                IF t = "init" THEN "lock" ELSE "select"]]
  /\ UNCHANGED <<mapVars, up, panics, mu, shards, data, copyVars, now>>

(***************************************************************************)
(* The objects of n without those of the removed shards.                   *)
(***************************************************************************)
KeepsData(n, removed) ==      \* mutant: only the hosting is forgotten
  data[n]

DeleteShards(n, removed) ==
  [k \in Keys |-> IF ShardOf[k] \in removed THEN None ELSE data[n][k]]

(***************************************************************************)
(* handleShardMapUpdate up to its loop over the added shards, with         *)
(* server.mu: the removed shards and their data go, the added ones are     *)
(* there, empty.  If there are none the handler returns.                   *)
(***************************************************************************)
HandleShardMapUpdate(n, t) ==
  LET assigned == ShardsForNode(n)
      added    == assigned \ shards[n]
      removed  == shards[n] \ assigned
  IN /\ pc[n][t] = "lock"
     /\ mu[n] = "free"
     /\ shards' = [shards EXCEPT ![n] = assigned]
     /\ data' = [data EXCEPT ![n] = DeleteShards(n, removed)]
     /\ job' = [job EXCEPT ![n][t] = [s \in Shards |->
                   IF s \in added THEN "added" ELSE "none"]]
     /\ IF added = {}
        THEN /\ pc' = [pc EXCEPT ![n][t] = Idle(t)]
             /\ mu' = mu
        ELSE /\ pc' = [pc EXCEPT ![n][t] = "spawn"]
             /\ mu' = [mu EXCEPT ![n] = t]
     /\ UNCHANGED <<mapVars, up, panics, peers, resp, now>>

(***************************************************************************)
(* server.mu.Unlock() before the handler waits for the copies.             *)
(***************************************************************************)
KeepsLock(n) == mu            \* mutant: the deferred Unlock only

Unlock(n) == [mu EXCEPT ![n] = "free"]

(***************************************************************************)
(* One turn of the loop that spawns fetchShardContent: the nodes to ask    *)
(* are read from the shard map here, which may have moved on since         *)
(* fetchShards.  After the last turn server.mu is released.                *)
(* fetchShardContent skips its own node and tries the others in turn, from *)
(* a random start: any order, here.  With no other node it is done, with   *)
(* an empty response; with no node at all rand.Intn(0) panics ("doomed").  *)
(***************************************************************************)
SpawnCopy(n, t, s) ==
  LET nodes == NodesForShard(ProcOf[n], s)
      last  == \A x \in Shards \ {s} : job[n][t][x] # "added"
  IN /\ pc[n][t] = "spawn"
     /\ job[n][t][s] = "added"
     /\ peers' = [peers EXCEPT ![n][t][s] = nodes \ {n}]
     /\ job' = [job EXCEPT ![n][t][s] = IF nodes = {} THEN "doomed"
                                        ELSE IF nodes = {n} THEN "got"
                                        ELSE "fetch"]
     /\ mu' = IF last THEN Unlock(n) ELSE mu
     /\ pc' = IF last THEN [pc EXCEPT ![n][t] = "wait"] ELSE pc
     /\ UNCHANGED <<mapVars, up, panics, shards, data, resp, now>>

(***************************************************************************)
(* A GetShardValue for key k of node x: the value and the time it has left *)
(* at the time "later" of time.Since.                                      *)
(***************************************************************************)
FullTtl(x, k, later) ==       \* mutant: the time that has passed is ignored
  LET obj == data[x][k]
  IN [val |-> obj.val, ttl |-> obj.exp, due |-> obj.due, lag |-> obj.lag,
      at |-> later]

TimeOver(x, k, later) ==      \* mutant: the difference the wrong way round
  LET obj == data[x][k]
  IN [val |-> obj.val, ttl |-> later - obj.exp, due |-> obj.due,
      lag |-> obj.lag, at |-> later]

TimeLeft(x, k, later) ==
  LET obj == data[x][k]
  IN [val |-> obj.val, ttl |-> obj.exp - later, due |-> obj.due,
      lag |-> obj.lag, at |-> later]

(***************************************************************************)
(* GetShardContents of node x, under its read lock: the objects of shard s *)
(* that have not expired.  Whether one has is seen at the time "now"; an   *)
(* object that expires until the second look at the clock is sent, with no *)
(* time left or less.                                                      *)
(***************************************************************************)
AllContents(x, s, later) ==   \* mutant: the whole store is sent
  [k \in Keys |-> IF Found(x, k) THEN TimeLeft(x, k, later) ELSE None]

GetShardContents(x, s, later) ==
  [k \in Keys |-> IF ShardOf[k] = s /\ Found(x, k) THEN TimeLeft(x, k, later)
                  ELSE None]

(***************************************************************************)
(* fetchNodeShardContent succeeds: x is served, not locked, and hosts s.   *)
(* The clock may move on while it answers.                                 *)
(***************************************************************************)
FetchShard(n, t, s, x) ==
  \E later \in now..MaxTime :
    LET values == GetShardContents(x, s, later)
    IN /\ job[n][t][s] = "fetch"
       /\ x \in peers[n][t][s]
       /\ Serving(x)
       /\ mu[x] = "free"
       /\ s \in shards[x]
       /\ resp' = [resp EXCEPT ![n][t] =
                     [k \in Keys |-> IF values[k] # None THEN values[k]
                                     ELSE resp[n][t][k]]]
       /\ job' = [job EXCEPT ![n][t][s] = "got"]
       /\ now' = later
       /\ UNCHANGED <<mapVars, up, panics, pc, mu, shards, data, peers>>

FirstPeerOnly(n, t, s, x) ==  \* mutant: the other nodes are not tried
  /\ job[n][t][s] = "fetch"
  /\ x \in peers[n][t][s]
  /\ \/ Unreliable
     \/ ~Serving(x)
     \/ mu[x] = "free" /\ s \notin shards[x]
  /\ peers' = [peers EXCEPT ![n][t][s] = @ \ {x}]
  /\ job' = [job EXCEPT ![n][t][s] = "got"]
  /\ UNCHANGED <<mapVars, up, panics, pc, mu, shards, data, resp, now>>

(***************************************************************************)
(* It fails (no client, no connection, shard not hosted): the next node is *)
(* tried; after the last one the response is empty and the error ignored.  *)
(***************************************************************************)
FetchFails(n, t, s, x) ==
  /\ job[n][t][s] = "fetch"
  /\ x \in peers[n][t][s]
  /\ \/ Unreliable
     \/ ~Serving(x)
     \/ mu[x] = "free" /\ s \notin shards[x]
  /\ peers' = [peers EXCEPT ![n][t][s] = @ \ {x}]
  /\ job' = IF peers[n][t][s] = {x} THEN [job EXCEPT ![n][t][s] = "got"]
            ELSE job
  /\ UNCHANGED <<mapVars, up, panics, pc, mu, shards, data, resp, now>>

(***************************************************************************)
(* The process dies, and what its servers held in memory with it.          *)
(***************************************************************************)
Dies(p) ==
  LET Reset(f, v) == [n \in Nodes |-> IF ProcOf[n] = p THEN v ELSE f[n]]
  IN /\ up' = up \ {p}
     /\ notify' = [notify EXCEPT ![p] = {}]
     /\ pc' = Reset(pc, [t \in Threads |-> "off"])
     /\ mu' = Reset(mu, "free")
     /\ shards' = Reset(shards, {})
     /\ data' = Reset(data, NoData)
     /\ job' = Reset(job, NoCopies)
     /\ peers' = Reset(peers, NoPeers)
     /\ resp' = Reset(resp, NoValues)
     /\ UNCHANGED <<file, edits, starts, smState, now>>

(***************************************************************************)
(* rand.Intn(len(nodes)) in fetchShardContent with no nodes.               *)
(***************************************************************************)
PanicNoNodes(n, t, s) ==
  /\ job[n][t][s] = "doomed"
  /\ panics' = panics \cup {"noNodes"}
  /\ Dies(ProcOf[n])

(***************************************************************************)
(* GetShardContents iterates over the map of a shard with server.mu but    *)
(* without the lock of the shard, which Data() has released; cleanup       *)
(* deletes from it with the lock of the shard but without server.mu.  When *)
(* the two overlap the iteration gives what it gives alone (what cleanup   *)
(* deletes is expired and left out anyway), or the runtime ends the        *)
(* process: concurrent map iteration and map write.                        *)
(***************************************************************************)
PanicMapRace(n, t, s, x) ==
  /\ job[n][t][s] = "fetch"
  /\ x \in peers[n][t][s]
  /\ Serving(x)
  /\ mu[x] = "free"
  /\ s \in shards[x]
  /\ \E k \in Keys : ShardOf[k] = s /\ data[x][k] # None /\ ~Found(x, k)
  /\ panics' = panics \cup {"mapRace"}
  /\ Dies(ProcOf[x])

(***************************************************************************)
(* All the responses have come, and the handler has server.mu again.       *)
(***************************************************************************)
CopiesReady(n, t) ==
  /\ pc[n][t] = "wait"
  /\ \A s \in Shards : job[n][t][s] \in {"none", "got"}
  /\ mu[n] = "free"

(***************************************************************************)
(* A value of a shard that is not hosted any more: server.shards[shard] is *)
(* nil, and so is the receiver of Set.                                     *)
(***************************************************************************)
Misses(n, t) ==
  \E k \in Keys : resp[n][t][k] # None /\ ShardOf[k] \notin shards[n]

(***************************************************************************)
(* The end of handleShardMapUpdate: every value of every response is Set,  *)
(* over whatever is there.                                                 *)
(***************************************************************************)
SetCopies(n, t) ==
  /\ CopiesReady(n, t)
  /\ ~Misses(n, t)
  /\ data' = [data EXCEPT ![n] = [k \in Keys |->
       LET v == resp[n][t][k]
       IN IF v = None THEN data[n][k]
          ELSE [val |-> v.val, exp |-> now + v.ttl, due |-> v.due,
                lag |-> v.lag + (now - v.at)]]]
  /\ pc' = [pc EXCEPT ![n][t] = Idle(t)]
  /\ job' = [job EXCEPT ![n][t] = [s \in Shards |-> "none"]]
  /\ peers' = [peers EXCEPT ![n][t] = [s \in Shards |-> {}]]
  /\ resp' = [resp EXCEPT ![n][t] = NoData]
  /\ UNCHANGED <<mapVars, up, panics, mu, shards, now>>

PanicMissingShard(n, t) ==
  /\ CopiesReady(n, t)
  /\ Misses(n, t)
  /\ panics' = panics \cup {"missingShard"}
  /\ Dies(ProcOf[n])

-----------------------------------------------------------------------------
(***************************************************************************)
(* The RPCs that change a node, under server.mu.  A request for a shard    *)
(* that is not hosted, or for the empty key, is answered with an error and *)
(* changes nothing.                                                        *)
(***************************************************************************)
Set(n, k, v, ttl) ==
  /\ Serving(n)
  /\ mu[n] = "free"
  /\ Accepts(n, k)
  /\ data' = [data EXCEPT ![n][k] =
                [val |-> v, exp |-> now + ttl, due |-> now + ttl, lag |-> 0]]
  /\ UNCHANGED <<mapVars, up, panics, pc, mu, shards, copyVars, now>>

Delete(n, k) ==
  /\ Serving(n)
  /\ mu[n] = "free"
  /\ Accepts(n, k)
  /\ data' = [data EXCEPT ![n][k] = None]
  /\ UNCHANGED <<mapVars, up, panics, pc, mu, shards, copyVars, now>>

LeavesExpired(n, s) ==        \* mutant: the keys are collected, not deleted
  /\ s \in shards[n]
  /\ UNCHANGED vars

(***************************************************************************)
(* ttlMonitor's cleanup of a shard: it takes the lock of the shard only.   *)
(***************************************************************************)
Cleanup(n, s) ==
  /\ s \in shards[n]
  /\ data' = [data EXCEPT ![n] = [k \in Keys |->
       IF ShardOf[k] = s /\ data[n][k] # None /\ HasExpired(data[n][k])
       THEN None ELSE data[n][k]]]
  /\ UNCHANGED <<mapVars, up, panics, pc, mu, shards, copyVars, now>>

Tick ==
  /\ now < MaxTime
  /\ now' = now + 1
  /\ UNCHANGED <<mapVars, up, panics, pc, mu, shards, data, copyVars>>

(***************************************************************************)
(* A process is killed; it may be started again.                           *)
(***************************************************************************)
Crash(p) ==
  /\ p \in up
  /\ starts < MaxRestarts
  /\ UNCHANGED panics
  /\ Dies(p)

-----------------------------------------------------------------------------
Handler(n, t) ==
  \/ HandleShardMapUpdate(n, t)
  \/ \E s \in Shards : SpawnCopy(n, t, s)
  \/ \E s \in Shards, x \in Nodes : FetchShard(n, t, s, x)
  \/ \E s \in Shards, x \in Nodes : FetchFails(n, t, s, x)
  \/ \E s \in Shards : PanicNoNodes(n, t, s)
  \/ SetCopies(n, t)
  \/ PanicMissingShard(n, t)

(***************************************************************************)
(* What the servers do of themselves.                                      *)
(***************************************************************************)
ServerStep ==
  \/ \E n, x \in Nodes, t \in Threads, s \in Shards :
       PanicMapRace(n, t, s, x)
  \/ \E n \in Nodes : ListenLoop(n) \/ MakeKvServer(n)
  \/ \E n \in Nodes, t \in Threads : Handler(n, t)
  \/ \E n \in Nodes, s \in Shards : Cleanup(n, s)

Rpc ==
  \/ \E n \in Nodes, k \in Keys, v \in Values, ttl \in Ttls : Set(n, k, v, ttl)
  \/ \E n \in Nodes, k \in Keys : Delete(n, k)

MapStep ==
  \/ \E a \in Assignments : Edit(a)
  \/ \E p \in Procs : Update(p)

Next ==
  \/ ServerStep
  \/ Rpc
  \/ MapStep
  \/ \E p \in Procs : Start(p) \/ Crash(p)
  \/ Tick

Spec == Init /\ [][Next]_vars

(***************************************************************************)
(* The goroutines of a handler run on and RPCs answer or fail; the file    *)
(* watcher reports an edit.  A handler that waits for server.mu, an RPC    *)
(* that waits for it at a peer, and a constructor that waits for sm.mutex  *)
(* get it though others take it in between: sync.RWMutex starves neither   *)
(* readers nor writers.                                                    *)
(***************************************************************************)
Fairness ==
  /\ \A p \in Procs : WF_vars(Update(p) /\ smState[p] # file)
  /\ \A n \in Nodes : WF_vars(ListenLoop(n)) /\ SF_vars(MakeKvServer(n))
  /\ \A n \in Nodes, t \in Threads : SF_vars(Handler(n, t))
  /\ \A n \in Nodes, s \in Shards : WF_vars(Cleanup(n, s))

FairSpec == Spec /\ Fairness

-----------------------------------------------------------------------------
TypeOK ==
  /\ file \in [Shards -> SUBSET Nodes]
  /\ edits \in Nat /\ starts \in Nat /\ now \in Nat
  /\ up \subseteq Procs
  /\ panics \subseteq {"noNodes", "missingShard", "mapRace"}
  /\ smState \in [Procs -> [Shards -> SUBSET Nodes]]
  /\ notify \in [Procs -> SUBSET Nodes]
  /\ pc \in [Nodes -> [Threads -> HandlerPc]]
  /\ mu \in [Nodes -> Threads \cup {"free"}]
  /\ shards \in [Nodes -> SUBSET Shards]
  /\ data \in [Nodes -> [Keys -> Object \cup {None}]]
  /\ job \in [Nodes -> [Threads -> [Shards -> JobState]]]
  /\ peers \in [Nodes -> [Threads -> [Shards -> SUBSET Nodes]]]
  /\ resp \in [Nodes -> [Threads -> [Keys -> ShardValue \cup {None}]]]

(***************************************************************************)
(* No update of the shard map is lost (ShardMap.Update swaps the state     *)
(* before it notifies, the listen loop is told of every Update, and the    *)
(* handler reads the state after it was told): a node whose server.shards  *)
(* differ from what the map assigns to it has a notification or a handler  *)
(* still to come.                                                          *)
(***************************************************************************)
NoLostUpdate ==
  \A n \in Nodes :
    Listening(n) /\ shards[n] # ShardsForNode(n)
      => n \in notify[ProcOf[n]] \/ \E t \in Threads : pc[n][t] = "lock"

(***************************************************************************)
(* handleShardMapUpdate has server.mu exactly while it spawns the copies,  *)
(* and never while it waits for what peers answer: two handlers of a node  *)
(* are not in it at once, and two nodes that copy from each other do not   *)
(* wait for each other's lock.                                             *)
(***************************************************************************)
LockNotHeldWhileWaiting ==
  \A n \in Nodes, t \in Threads : mu[n] = t <=> pc[n][t] = "spawn"

(***************************************************************************)
(* The data of a shard goes with the shard: when handleShardMapUpdate has  *)
(* dropped it, no object of it is left for a later tenancy of the shard to *)
(* return (TestServerSingleShardDropDataDeleted), and nothing is ever      *)
(* stored under the empty key, whichever of Set, a copy or a race stores.  *)
(***************************************************************************)
StoredIsAccepted ==
  \A n \in Nodes, k \in Keys : data[n][k] # None => Accepts(n, k)

(***************************************************************************)
(* A copy moves the expiry of a value by exactly the time the copy was     *)
(* under way, over any number of hops: GetShardContents sends the time     *)
(* that is left, not the TTL the value was set with, and a value that      *)
(* expires while it answers does not come back to life.                    *)
(***************************************************************************)
CopyKeepsExpiry ==
  \A n \in Nodes, k \in Keys :
    data[n][k] # None => data[n][k].exp = data[n][k].due + data[n][k].lag

(***************************************************************************)
(* Once the constructors have returned, the listen loop is the only one to *)
(* handle updates, one after the other: every value a copy brings back is  *)
(* of a shard the node still hosts, and the last loop of                   *)
(* handleShardMapUpdate does not use a shard that is gone.                 *)
(***************************************************************************)
Steady == Started = Procs /\ MaxRestarts = 0

SteadyCopiesLand == Steady => "missingShard" \notin panics

(***************************************************************************)
(* handleShardMapUpdate returns, however many nodes copy from each other   *)
(* at the same time and whichever of them fail.                            *)
(***************************************************************************)
HandlerReturns ==
  \A n \in Nodes, t \in Threads :
    pc[n][t] \in {"lock", "spawn", "wait"}
      ~> pc[n][t] \in {"select", "done", "off"}

(***************************************************************************)
(* When the file has been edited for the last time, the servers come to    *)
(* host exactly the shards it assigns to them, and stay there.             *)
(***************************************************************************)
ServersFollowFile ==
  <>[](\A n \in Nodes : Serving(n) =>
         shards[n] = {s \in Shards : n \in file[s]})

(***************************************************************************)
(* An expired object does not stay in memory: ttlMonitor removes it.       *)
(***************************************************************************)
ExpiredRemoved ==
  \A n \in Nodes, k \in Keys \ {EmptyKey} :
    (data[n][k] # None /\ ~Found(n, k))
      ~> (data[n][k] = None \/ Found(n, k))
=============================================================================
