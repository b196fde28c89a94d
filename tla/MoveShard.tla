----------------------------- MODULE MoveShard ------------------------------
(***************************************************************************)
(* Shard movements over the servers of KvServer, the way the tests and     *)
(* their operators do them (lab4/kv/test/test_setup.go): a movement is one *)
(* or two calls of UpdateShardMapping, first with the new replicas added,  *)
(* then with the old ones dropped, and UpdateShardMapping calls            *)
(* ShardMap.Update twice to wait for the first to have been processed.     *)
(*                                                                         *)
(* All servers share the shard map of one process, are constructed, hold   *)
(* the keys of their shards, and no client writes meanwhile.               *)
(***************************************************************************)
EXTENDS KvServer, Sequences

CONSTANTS
  Batches,   \* movements written out by hand, from the first mapping
  MaxMoves   \* bound: movements

Mappings == [Shards -> SUBSET Nodes]

VARIABLES
  plan,      \* the mappings that are still to be put in force
  calls,     \* the calls of Update that UpdateShardMapping has yet to make
  moves,     \* how many movements were begun
  whole,     \* history: the replicas of a shard sure to get all its keys
  disturbed  \* history: a batch was begun, or a copy gave up

moveVars == <<plan, calls, moves, whole, disturbed>>
allVars == <<vars, moveVars>>

(***************************************************************************)
(* The one process, its map, and the keys that are stored.                 *)
(***************************************************************************)
Proc == CHOOSE p \in Procs : TRUE

Mapping == smState[Proc]

RealKeys == Keys \ {EmptyKey}

Loaded == [val |-> CHOOSE v \in Values : TRUE, exp |-> MaxTime + 1,
           due |-> MaxTime + 1, lag |-> 0]

ASSUME MoveShardAssumption ==
  /\ Procs = {Proc} /\ Started = Procs /\ MaxRestarts = 0
  /\ Values # {}
  /\ MaxMoves \in Nat
  /\ Batches \subseteq Seq(Mappings)

MoveInit ==
  /\ InitServers
  /\ data = [n \in Nodes |-> [k \in Keys |->
               IF k \in RealKeys /\ n \in FirstMap[ShardOf[k]]
               THEN Loaded ELSE None]]
  /\ plan = <<>>
  /\ calls = 0
  /\ moves = 0
  /\ whole = FirstMap
  /\ disturbed = FALSE

(***************************************************************************)
(* The last call of UpdateShardMapping has returned: both its Updates have *)
(* notified every listener.                                                *)
(***************************************************************************)
Returned == calls = 0 /\ notify[Proc] = {}

(***************************************************************************)
(* A mapping with a replica of a shard more, or less.                      *)
(***************************************************************************)
AddReplica(m, s, n)  == [m EXCEPT ![s] = @ \cup {n}]

DropReplica(m, s, n) == [m EXCEPT ![s] = @ \ {n}]

DropNode(m, n) == [s \in Shards |-> m[s] \ {n}]

(***************************************************************************)
(* A movement is begun: its mappings are worked out from the current one.  *)
(* (The second is worked out between the two calls in the code; the map    *)
(* does not change under it.)                                              *)
(***************************************************************************)
Begin(p) ==
  /\ Returned
  /\ plan = <<>>
  /\ moves < MaxMoves
  /\ plan' = p
  /\ moves' = moves + 1
  /\ UNCHANGED <<vars, calls, whole>>

(***************************************************************************)
(* The replica on src moves to dst, which does not host the shard; if src  *)
(* does not host it either, MoveShard fails after its first half.  A shard *)
(* that no node hosts is not moved (MoveRandomShard looks for another).    *)
(***************************************************************************)
AtOnce(s, src, dst) ==        \* mutant: added and dropped in one mapping
  /\ src \in Mapping[s] /\ dst \notin Mapping[s]
  /\ Begin(<<DropReplica(AddReplica(Mapping, s, dst), s, src)>>)
  /\ UNCHANGED disturbed

Move(s, src, dst) ==
  /\ Mapping[s] # {}
  /\ src # dst /\ dst \notin Mapping[s]
  /\ LET added == AddReplica(Mapping, s, dst)
     IN Begin(IF src \in Mapping[s] THEN <<added, DropReplica(added, s, src)>>
              ELSE <<added>>)
  /\ UNCHANGED disturbed

(***************************************************************************)
(* Each shard of the node gets another replica, if there is a node without *)
(* one, and then the node has none.                                        *)
(***************************************************************************)
DrainNode(n) ==
  \E to \in [Shards -> Nodes] :
    /\ \A s \in Shards : to[s] \in Mapping[s] =>
         n \notin Mapping[s] \/ Mapping[s] = Nodes
    /\ LET added == [s \in Shards |-> IF n \in Mapping[s]
                       THEN Mapping[s] \cup {to[s]} ELSE Mapping[s]]
       IN Begin(<<added, DropNode(added, n)>>)
    /\ UNCHANGED disturbed

(***************************************************************************)
(* The ungraceful ones: what only the node, or any node, held is lost.     *)
(***************************************************************************)
RemoveNode(n) == Begin(<<DropNode(Mapping, n)>>) /\ UNCHANGED disturbed

DropShard(s) == Begin(<<[Mapping EXCEPT ![s] = {}]>>) /\ UNCHANGED disturbed

(***************************************************************************)
(* Calls of UpdateShardMapping with mappings that a test writes out, which *)
(* may add several replicas of a shard at once.                            *)
(***************************************************************************)
BeginBatch(b) == Mapping = FirstMap /\ Begin(b) /\ disturbed' = TRUE

(***************************************************************************)
(* UpdateShardMapping: the mapping is ready, and Update is called twice;   *)
(* each call returns when all servers have been notified.                  *)
(***************************************************************************)
UpdateOnce ==                 \* mutant: it does not wait for the first
  /\ Returned
  /\ plan # <<>>
  /\ file' = Head(plan)
  /\ plan' = Tail(plan)
  /\ calls' = 1
  /\ UNCHANGED <<edits, starts, up, panics, smState, notify, pc, mu, shards,
                 data, copyVars, now, moves, whole, disturbed>>

UpdateShardMapping ==
  /\ Returned
  /\ plan # <<>>
  /\ file' = Head(plan)
  /\ plan' = Tail(plan)
  /\ calls' = 2
  /\ UNCHANGED <<edits, starts, up, panics, smState, notify, pc, mu, shards,
                 data, copyVars, now, moves, whole, disturbed>>

(***************************************************************************)
(* Of the replicas in mapping b, when those in c of the ones in a have all *)
(* keys: one that is new asks any of a, and is the only one to copy.  With *)
(* two new ones each may copy from the other, which has nothing yet.       *)
(***************************************************************************)
Sure(c, a, b) ==
  IF a = c /\ a \cap b # {} /\ \A x, y \in b \ a : x = y THEN b
  ELSE c \cap b

CallUpdate ==
  /\ calls > 0
  /\ Update(Proc)
  /\ calls' = calls - 1
  /\ whole' = [s \in Shards |-> Sure(whole[s], Mapping[s], file[s])]
  /\ UNCHANGED <<plan, moves, disturbed>>

(***************************************************************************)
(* The copy of a shard gives up: the last peer has failed to answer.       *)
(***************************************************************************)
GaveUp(n, s) ==
  /\ job[n]["loop"][s] = "fetch" /\ job'[n]["loop"][s] = "got"
  /\ peers'[n]["loop"][s] = {}

Watched ==
  /\ whole' = [s \in Shards |-> whole[s] \ {n \in Nodes : GaveUp(n, s)}]
  /\ disturbed' = (disturbed \/ \E n \in Nodes, s \in Shards : GaveUp(n, s))
  /\ UNCHANGED <<plan, calls, moves>>

MoveNext ==
  \/ \E s \in Shards, src \in Nodes, dst \in Nodes : Move(s, src, dst)
  \/ \E n \in Nodes : DrainNode(n)
  \/ \E n \in Nodes : RemoveNode(n)
  \/ \E s \in Shards : DropShard(s)
  \/ \E b \in Batches : BeginBatch(b)
  \/ UpdateShardMapping
  \/ CallUpdate
  \/ ServerStep /\ Watched

MoveSpec == MoveInit /\ [][MoveNext]_allVars

(***************************************************************************)
(* Of the goroutine that moves shards and those of the servers, some one   *)
(* that can go on does: less than the scheduler of Go gives each of them.  *)
(***************************************************************************)
Progress == UpdateShardMapping \/ CallUpdate \/ (ServerStep /\ Watched)

FairMoveSpec == MoveSpec /\ WF_allVars(Progress)

-----------------------------------------------------------------------------
(***************************************************************************)
(* When UpdateShardMapping has returned, its mapping has been processed    *)
(* (the second Update waits for the first): every server hosts what the    *)
(* map says and no copy is under way.                                      *)
(***************************************************************************)
MappingProcessed ==
  Returned =>
    \A n \in Nodes : /\ shards[n] = ShardsForNode(n)
                     /\ pc[n]["loop"] \notin {"spawn", "wait"}

(***************************************************************************)
(* The replicas a client may count on: all of them after the movements of  *)
(* test_setup.go with copies that found a peer, else the sure ones.        *)
(***************************************************************************)
Reliable(s) == IF disturbed THEN whole[s] ELSE Mapping[s]

(***************************************************************************)
(* At every moment of any movement, whichever peers the copies ask and in  *)
(* whichever order the servers follow the map, a key is still on one of    *)
(* the nodes the map names for it, unless it names none.  When copies gave *)
(* up, or a batch added several replicas of its shard at once, that is so  *)
(* as long as a replica is left that did not depend on those.              *)
(***************************************************************************)
KeysNeverLost ==
  \A k \in RealKeys :
    Reliable(ShardOf[k]) # {} => \E n \in Mapping[ShardOf[k]] : Found(n, k)

(***************************************************************************)
(* When a movement, or its first half, is over, every node that hosts a    *)
(* shard has all keys of it, whichever peers failed before one answered:   *)
(* whichever replica a client asks answers.  (With copies that gave up, or *)
(* a batch, every node that did not depend on those.)                      *)
(***************************************************************************)
ReplicasComplete ==
  Returned =>
    \A k \in RealKeys : \A n \in Reliable(ShardOf[k]) : Found(n, k)

(***************************************************************************)
(* Every movement comes to its end: Update waits for listen loops, which   *)
(* wait for copies from servers that handle the same update.               *)
(***************************************************************************)
MovesReturn == []<>(plan = <<>> /\ Returned)
=============================================================================
