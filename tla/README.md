# Verification of the CS426 labs

TLA+ specifications of the programs in this repository, the TLC runs that check
them on small instances, and proofs checked by TLAPS. Lab 4 is a sharded and
replicated key-value cache with its client, shard map, stress tester and
consistency checker; lab 3 is Raft with a simulated network and a test harness;
lab 1 is a video recommendation service over two backends. All are in Go.

## The system

### Lab 4: the key-value cache

| part | source | state | what changes it |
|---|---|---|---|
| server | `lab4/kv/server.go`, `util.go`, `cmd/server/server.go` | `server.shards` (shard → map of objects with a TTL) under `server.mu`; a mutex per shard | `handleShardMapUpdate` (called by the constructor and by `shardMapListenLoop`), the goroutines it spawns to copy shards, RPCs `Get`, `Set`, `Delete`, `GetShardContents`, `ttlMonitor`/`cleanup`, `Shutdown` |
| shard map | `lab4/kv/shardmap.go` | an atomically swapped state; the listeners under `sm.mutex` | `Update`, `MakeListener`, `Close` |
| file shard map | `lab4/kv/file_shardmap.go` | a watcher of the shard map file | `watchForUpdates`, `applyFromFile` |
| client | `lab4/kv/client.go`, `cmd/client/client.go` | `kv.mu` only | `Get`, `Set`, `Delete` |
| client pool | `lab4/kv/clientpool.go` | the cached connections under a mutex | `GetClient` |
| movements | `lab4/kv/test/test_setup.go` | none of their own | `MoveShard`, `DrainNode`, `RemoveNode`, `DropShard`, `UpdateShardMapping` |
| checker, stress tester | `lab4/checker/checker.go`, `lab4/cmd/stress/tester.go` | the values a key may have, a version and a reference count per key; a semaphore and a wait group | begin and end of each request, the two loops |

Every process reads the same file into a shard map of its own. `Update` swaps
the state and then sends a token to each listener over an unbuffered channel:
it waits until each listen loop takes its token. A listen loop that gets one
runs `handleShardMapUpdate`: under `server.mu` it drops the shards that are no
longer its own, adds the new ones *empty*, and spawns one goroutine per new
shard; then it *unlocks*, waits for the goroutines, each of which asks the
shard's other nodes in a random order until one answers, locks again and
inserts what they brought back. The constructor starts the listen loop and then
runs the handler itself, so that a server that starts has two handlers. The
client writes to all nodes of a shard at once and reads from one after another.

### Lab 3: Raft

`lab3/raft/my_util.go` holds log replication (`AppendEntries`,
`sendAppendEntries`, `updateCommitIndex`). `lab3/raft/raft.go`, which should
hold elections, `Start` and persistence, is not Go text in this repository but
the bytes of an archive. `lab3/labrpc/labrpc.go` is a simulated network: client
ends that are connected to named servers, and calls that it drops, delays and
reorders. `lab3/raft/config.go` is the tests' harness: it connects and
disconnects servers, crashes and restarts them, keeps what they persist
(`persister.go`) and compares what they apply (`checkLogs`).

### Lab 1: video recommendations

`GetTopVideos` asks the user service for a user, then for those they subscribe
to, and the video service for the videos these like, each in batches; it ranks
them and returns the best. When a backend fails it answers from a cache of
trending videos that a goroutine refreshes. Backends inject failures as their
configuration, which may be changed at run time, says. There are two versions:
`lab1` (with a pool of connections; `lab2_submit/server_lib.go` is the same
text) and `lab1_submit` (which dials a connection per request).

`PROJECT.json` lists every part with its status, and the hazards of each part.

## Modules

| module | models | extends |
|---|---|---|
| `KvServer` | servers, their processes, the shard maps and the file | |
| `MoveShard` | shard movements over the servers | `KvServer` |
| `KvClient` | clients over the servers | `KvServer` |
| `ShardMap` | one process's shard map: concurrent `Update`s, listeners made and closed, the file watcher, the life of servers, the client pool | |
| `StressTest` | stress tester and consistency checker over a cluster that works | |
| `RpcContract` | what `labrpc` promises of a call (the abstract specification) | |
| `LabRpc` | the simulated network; `Contract` is its mapping to `RpcContract` | |
| `RaftConfig` | the Raft harness and the persisters on the network | `LabRpc` |
| `RaftReplication` | log replication and what the harness sees applied | |
| `VideoRec` | the recommendation service, its backends, failure injection, load generator | |
| `VideoRecDial` | the version that dials, and the choice between the two | `VideoRec` |
| `KvServerProofs` | theorems on `KvServer` | `KvServer` |
| `MoveShardProofs`, `KvClientProofs` | theorems on the modules over it | `KvServerProofs` and the module |
| `ShardMapProofs`, `StressProofs`, `RaftConfigProofs`, `RaftReplicationProofs`, `VideoRecProofs` | theorems on `ShardMap`, `StressTest`, `RaftConfig` and its refinement of `RpcContract`, `RaftReplication`, both versions of `VideoRec` | the module |
| `...MC` | instances for TLC | the above |

### KvServer

State and code:

| variable | code |
|---|---|
| `file`, `edits` | the shard map file, and a bound on its edits |
| `up`, `starts`, `panics` | running processes, a bound on starts, and a history of what ended processes |
| `smState[p]` | `ShardMap.state` of process `p` |
| `notify[p]` | the listeners to which the `Update` of `p` has not sent yet; `Update` has returned when it is empty |
| `pc[n][t]` | where the constructor (`"init"`) and the listen loop (`"loop"`) of node `n` are |
| `mu[n]` | who holds `server.mu` from one step to the next |
| `shards[n]`, `data[n]` | the keys of `server.shards`, and the objects of all its shards |
| `job`, `peers`, `resp` | the goroutines that copy a shard, the peers they have not tried, what they brought back |
| `now` | the clock |

Actions: `Edit`; `Update` and `ListenLoop` (a token is taken); `Start` and
`MakeKvServer`; `HandleShardMapUpdate` (from `Lock` to the loop over added
shards), `SpawnCopy` (`NodesForShard` is read here, once per shard),
`FetchShard` and `FetchFails` (one peer answers or fails), `SetCopies` (the
lock is taken again and all results are inserted), and the three ways in which
a process ends: `PanicNoNodes` (`rand.Intn(0)`), `PanicMissingShard` (a method
of a nil shard) and `PanicMapRace` (the Go runtime finds a map iterated over
and written at once); `Set`, `Delete`, `Cleanup`, `Tick`, `Crash`. `Get` reads
only; it is `Found`, and an action of `KvClient`.

Grain. A critical section of `server.mu` in which nothing waits is one step;
the handler's first one is split because the shard map, which has no lock in
common with it, is read once per added shard. RPC handlers are one step.
`GetShardContents` is one too, and the one interference that its missing lock
admits, with `Cleanup`, is `PanicMapRace`; it looks at the clock twice, once in
`hasExpired` and once for the time left, and the clock may move on in between
(one later look stands for those of all keys). An object that expires just then
is sent with no time left or less.

Data. An object is kept by its expiry (`stored_time + ttlMs`), which is all the
code computes from; `due` and `lag` are history for `CopyKeepsExpiry`.
`GetShardContents` converts an expiry to the time left and `SetCopies` back to
an expiry at the receiver's clock; all nodes have the same clock, as those of a
machine have. That times are truncated to milliseconds is left out.

### MoveShard

All servers share one process and one `ShardMap`, as in the tests. A movement
is a `plan` of one or two mappings; each is put in force by
`UpdateShardMapping`, which calls `Update` twice (`calls`), since the listen
loops take the second token only once they have processed the first. The
mappings are worked out by `Move`, `DrainNode`, `RemoveNode` and `DropShard`,
or given (`Batches`) where the tests write them out by hand; those may be any
mappings, and in the run they swap two shards or, as `integration_test.go:307`
does, add two replicas of one shard at once. Calls between servers may fail
(`FetchFails`), and a copy that all peers failed leaves its replica empty.

Not every replica then has every key, and the code does not promise it. Two
history variables say which to expect it of: `whole[s]`, the replicas of a shard
that had all keys, or were the only new one beside such (`Sure`), and whose copy
did not give up; and `disturbed`, that a copy did give up or a batch was begun.
`KeysNeverLost` and `ReplicasComplete` are about the `Reliable` replicas: all
that the map names as long as nothing is disturbed, which for the movements that
are worked out is until a copy gives up, and those in `whole` after it.

### KvClient

`Callers` are goroutines of one process that share a `Kv`. `Lock` takes
`kv.mu` and reads the nodes; requests are then answered (`Rpc_Ok`), lost
(`Rpc_Lost`), handled with the answer lost (`Rpc_NoAnswer`), or given up when
the context ends while the server has yet to handle them (`Rpc_TooLate`,
`LateRequest`). `ClientUpdate` is the client's own shard map following the
file, at its own pace. `last` and `want` are history: what was last written.

### ShardMap

| variable | code |
|---|---|
| `file`, `event`, `applied` | the file (`None` while it is half written), an event of the watcher, the state it applied last |
| `named` | events have the name that `WatchShardMapFile` was given; the watcher ignores others (`IgnoreEvent`) |
| `state`, `made` | `ShardMap.state`, and the states made so far |
| `channels` | the listeners in `updateChannels` |
| `update[u]` | the `Update` a goroutine is in: waiting for `sm.mutex`, or sending to `to` with `todo` to follow |
| `server`, `loop`, `seen` | a server's life, its listen loop, the state it has read |
| `clients`, `dials`, `get` | the client pool and the callers of `GetClient` |

`KvServer` has one goroutine in `Update` per process and looks into what a
server does with a state; here there are several, the mutex is a reader-writer
mutex of its own (`Readers`, `Writers`, and a waiting writer keeps new readers
out, as Go's does), and a server only reads the state. `Shutdown` ends the loop
(`StopLoop`) and then closes the listener (`Close`). A state is a number: a
later one is larger.

### StressTest

One key, since the checker keeps each key by itself. `write` and `read` follow
a request through the tester's goroutine and the checker's four calls; `values`,
`overwritten`, `version` and `rc` are the checker's; `sem`, `wg`, `loop` and
`main` are the tester's. All requests go through one `Kv`, whose mutex a Set
holds from its first replica to its last (`KvFree`). The cluster is external and
works: at each replica the value of a Set is stored or not, and the answer,
whether it was stored or not, may be lost; the Set returns an error if an answer
is missing. A Get reads one replica or fails. `before` is history: the Sets that were over
when a Set began.

### RpcContract, LabRpc, RaftConfig

A call is followed through the goroutines that serve it: `Call` (the caller
sends), `Take` (the receiver hands it to `processReq`), `ReadEndnameInfo` with
the delay and drop of an unreliable network, `StartHandler` and `Execute` (the
handler's own goroutine), `GetReply` or `FindDead` (the wait in a loop of 100 ms),
`Answer` (the second look for a deleted server, the drop or delay of a reply).
`RaftConfig` puts the harness on it: `connect` and `disconnect` enable the ends
one by one (`EnableNext` over `Links`, the outgoing ends and then the incoming
ones, and passing over those of servers that are not connected) while instances, also those that were crashed and
can not be stopped, go on calling. The `g`-th instance of server `i` is
`<<i, g>>`; its persister's content is the set of calls it remembers.

`RpcContract` knows a call as idle, called, returned true or returned false,
and the set of calls that were executed: a call is executed at most once, and
returns true only after that. `LabRpc!Contract` maps the one to the other.

### RaftReplication

Leaders send (`SendAppendEntries`), followers answer (`AppendEntries`,
`AppendEntriesStale`), leaders handle answers (`HandleReply`,
`HandleLaterTerm`) and commit (`UpdateCommitIndex`). `msgs` is a set from which
any message is taken next, and a message need never be taken: calls are lost
and reordered, not duplicated, as `LabRpc` has it. `Restart` is the harness's
crash and start. An entry is the term it was started in. External, because
they are in the unreadable file, and modelled as in the Raft paper: `Elect`
(an election in one step), `UpToDate`, `Start`, `Remembers` (what is
persisted). The applier is taken to be immediate.

### VideoRec, VideoRecDial

`request[q]` is a `GetTopVideos` between its calls of the backends; `stats` are
the counters, `cache` and `mu` the trending videos and their mutex, `trending`
the refresh between its calls, `config` the failure injection of each backend,
`load` the counters of the load generator. A call of a backend is one step that
succeeds, fails, or (`omit`) has no answer: a request then fails with its
deadline, the refresh, which has none, stays. Any call of a
request may end with the deadline of the load generator (`Within`), which may
give up (`GiveUp`) wherever the service is with the request; the service goes on
with it, and an answer that comes after that is not counted again. A refresh whose first call failed sleeps before it closes its
connection (`RefreshFails`). `sort.Slice` is not stable, and
two videos may have the same rank: `Rankings` is the set of what the ranking may
make of a list. `VideoRecDial` adds `conns`, the
connections a request or the refresh has open, and runs either version
(`pooled`).

## Runs

All with `tlc -workers 2 -config <cfg> <module>`.

| run | shows | distinct states, time |
|---|---|---|
| `server_race` | a server starts or crashes while another serves, copies fail and the file is edited twice: no update is lost, `server.mu` is not held while peers are asked, data goes with its shard, handlers return, servers come to host what the file says, expired objects go | 42,177, 3 min |
| `server_steady` | two running servers swap two shards and back, with failing copies, while time passes, also within `GetShardContents`: types, the expiry of copied values, copies always find their shard | 447,505, 1 min |
| `move_shard` | any two movements in a row over three nodes and two shards, or batches by hand, while any copy may fail: `UpdateShardMapping` returns, and only when its mapping is in force; no key is lost and replicas are complete, as far as `Reliable` says | 222,215, 2 min |
| `client_calm` | two callers, two replicas, lost requests and answers: a Get returns the last successful write, a successful write is everywhere | 426,086, 35 s |
| `client_failover` | a replica is added, crashes and restarts, contexts end: no Get fails and every call returns | 226,498, 2.2 min |
| `shard_map` | a tester and the file watcher update while two servers are made and shut down: listeners learn of the latest state, no send on a closed channel, updates return, a half-written file is made up for if events have the file's name; two callers of the pool get one client | 305,761, 1 min |
| `stress` | two Sets and a Get over two replicas, with failures and lost answers: the checker's values are right by real time, its only false alarm is after failed Sets, the report is complete, the test ends | 2.3 million, 3 min |
| `raft_config` | two servers with two instances each, two calls (one whose handler may hang), two operations of the harness: true means executed and saved, old instances are cut off, calls return, the contract is kept | 1.0 million, 2.5 min |
| `raft_replication` | three servers, three terms, two messages under way, a crash: logs match, `matchIndex` is held, an entry of a leader's own term that a majority has stays with every later leader | 2.1 million, 2 min |
| `video_rec` | two requests, which the load generator may give up on, and the refresh over failing backends, both versions: valid batches, best or trending videos, counters that add up, connections closed, requests that return | 941,052, 2.5 min |

Two runs end in a violation: the code does not do what a document says.
`PROJECT.json` quotes the lines.

| run | what TLC finds |
|---|---|
| `raft_figure8` | `updateCommitIndex` commits an entry of an earlier term by counting `matchIndex`: once a call that ends with an entry of the leader's own term is answered (`my_util.go:130`), every index that a majority has is committed, and a later leader overwrites it. Five servers, four terms; TLC is kept to the behaviours that Figure 8 of the Raft paper, and the test named after it, are about |
| `client_delete` | a copy that was answered before a `Delete` is inserted after it |

### Other disagreements with documents

Met while modelling, and not given runs of their own:

* `server.go:136`: between `fetchShards` and `NodesForShard` the map may lose
  all nodes of a shard, and `rand.Intn(0)` panics (`PanicNoNodes`); lab4.md:718
  asks for an empty shard.
* `server.go:248`: constructor and listen loop process updates at the same time;
  lab4.md:661 says "Only one update can be processed at a time". One may drop
  the shard the other copies (`PanicMissingShard`).
* `server.go:403`: `GetShardContents` iterates over a map that `cleanup` deletes
  from (`PanicMapRace`); lab4.md:298: "All accesses to your state must be
  thread-safe." All three panics fire in `server_race`.
* `server.go:203`: of two replicas added in one update each may copy the other's
  emptiness, and the keys go with the source; integration_test.go:242 says that
  "no keys should be lost", lab4.md:719 that a shard is not served while it is
  copied. It happens in `move_shard`, where neither of the two is `Reliable`. The
  test itself (integration_test.go:310) keeps two nodes that have the shard, and
  a new replica that asks one of these first gets everything.
* `file_shardmap.go:82`: an event is applied only if it has the very name that
  `WatchShardMapFile` was given, while the watch is on the file's directory: with
  a bare file name, as `scripts/run-cluster.sh` may be given one, the names
  differ and no update is applied, although "This file is continually watched for
  updates" (:21). `FileIsFollowed` is for names that agree.
* `server.go:255`: `Shutdown` ends the listen loop before it closes the
  listener; an `Update` that is sending to it waits for ever. `UpdateReturns`
  excepts this state; without the exception TLC finds the behaviour.
* `file_shardmap.go:71`: `Shutdown`, which the comment at :28 recommends, sends
  to a channel that was never made.
* `checker.go:205`: a Get that finds nothing after a Set that failed everywhere
  is reported, although "Care is taken to avoid false positives" (:25).
* `lab1` `server_lib.go:460`: a refresh that fails after some batches replaces
  the cache by what it has, possibly nothing; lab1.md:334 prefers expired
  responses. A limit of 0 returns no videos, where lab1.md:158 says all; an
  error of the fallback is not counted as one (lab1.md:250); RPCs are not
  retried (lab1.md:300).

### Bounds

`MaxEdits`, `MaxRestarts`, `MaxTime`, `MaxCalls`, `MaxMoves`, `MaxUpdates`,
`MaxStops`, `MaxGen`, `MaxOps`, `MaxTerm`, `MaxLog`, `MaxStarts`, `MaxMsgs`,
`MaxCrashes` and `MaxConfigs` bound the counters.

* Lab 4: two edits, or two updates, are what a race takes: one under way, one
  that overtakes it. One restart is what the constructor's race takes, one
  shutdown what `Close` against `Update` takes. Two nodes are enough for copies
  in both directions and three for a copy with a choice of peers (`MoveShard`).
  TTLs 0, 1 and 2 over two ticks have values that expire at once, under way and
  not at all. Two callers are what `kv.mu` and the pool's second look tell
  apart. In `stress` two Sets overlap or follow each other, a Get may lie
  anywhere between, and there are two ticks for a TTL of one; the theorems have
  no such bounds.
* Lab 3: two instances of a server, and two operations of the harness, are what
  an answer from a superseded instance takes; the theorems again have no
  bounds. Three terms have a leader that loses its lead and regains it, and two
  messages a call that overtakes another. Logs of two entries are enough for an
  entry to be overwritten with one before it. Figure 8 takes five servers and
  four terms, and its run is restricted as said above.
* Lab 1: batches of two, over lists of three with duplicates, have a full and a
  short batch; two videos rank the same where the limit cuts, and there are
  limits above and below the number of videos. A TTL of 0 seconds over two ticks has the cache refreshed twice.
  The backends start unreliable and one of them may be repaired (`MaxConfigs`).

`client_calm` uses the symmetry of its callers and the Raft runs that of their
servers; these runs check no liveness. In the Raft runs `VIEW` leaves out
`nextIndex` and `matchIndex` of servers that do not lead: they are not read,
and an election sets them.

Deadlock is not checked by TLC's own test: with all bounds used up the system
may stop. That nobody waits for ever is what `HandlerReturns`, `MovesReturn`,
`CallsReturn`, `UpdateReturns`, `TestEnds`, `CallReturns` and `RequestsReturn`
state.

### Fairness

* `WF` of a listen loop's receive, of `Update` when the file differs, and of the
  watcher when it has an event: a goroutine that can run does.
* `SF` of a handler's steps, of `MakeKvServer` and of a caller's `Lock` and
  `Answer` in `KvServer` and the modules over it: they wait for `server.mu`,
  `sm.mutex` or `kv.mu` (here or at a peer) while others take it in between;
  Go's mutexes starve neither readers nor writers. An RPC is answered or fails.
* In `ShardMap` the waiting writer is modelled, so `WF` of each step is enough.
* `WF` of `Cleanup`: `ttlMonitor` is a ticker.
* `stress`: `WF` of the clock (the loops run until a duration is over), of the
  loops and of each request's next step.
* `raft_config`: `WF` of the network's steps for each call, and of handlers but
  those in `Stuck`, which need not return.
* `move_shard`: `WF` of `Progress`, any step of the servers or of
  `UpdateShardMapping` that is under way: these end after finitely many, so it is
  enough that one of them goes on.
* `video_rec`: `WF` of `Progress` likewise; a call without an answer ends with
  its deadline, and the refresh without an answer has no step.
* None of `Edit`, `Start`, `Crash`, `Set`, `Delete`, `Tick` of `KvServer`, new
  calls, movements, writes of the file, and operations of a harness, which the
  environment decides; none of `ClientUpdate` and none of late requests.

A request waits until its server's mutex is free; it is never fair that a peer
answers rather than fails.

### Properties that rest on a premise

`ReadsLastWrite` and `SuccessIsEverywhere` are stated for maps that stay, no
restarts and no contexts that end (`Calm`): the system promises nothing else, as
`client_delete` shows. `GetFailsOver` is for keys with one replica that stays
and lives. `SteadyCopiesLand` is for servers whose constructors have returned.
`OnlyFailedSetsAlarm` is for a cluster that works and does nothing after a
`Set` has returned; a request that outlives its context (which `KvClient` has)
is outside. `KeysNeverLost` and `ReplicasComplete` are about the `Reliable`
replicas (see `MoveShard` above). `FileIsFollowed` is for event names that agree
with the file's, `ServersFollowFile` for servers that stay up (one restart in the
run). `FreshIsBest` is for requests with a limit above 0. `OwnEntriesStay` is
about entries of the leader's own term only: of earlier ones, which
`updateCommitIndex` commits as well, it is false, and `raft_figure8` shows what
comes of it.

## Proofs

For all values of the constants, from the named assumptions of the modules: the
types of the constants, that `None` is not one of the values it stands beside
(`NoneAssumption` and others), and what is said below of `MoveShard`.

| theorem | states |
|---|---|
| `KvServerProofs!TypeCorrect` | `[]TypeOK` |
| `KvServerProofs!UpdatesNotLost` | `[]NoLostUpdate` |
| `KvServerProofs!LockDiscipline` | `[]LockNotHeldWhileWaiting` |
| `KvServerProofs!OnlyHostedIsStored` | `[]StoredIsAccepted` |
| `KvServerProofs!ExpiryIsKept` | `[]CopyKeepsExpiry` |
| `KvServerProofs!CopiesLand` | `[]SteadyCopiesLand` |
| `MoveShardProofs!MappingIsProcessed` | `[]MappingProcessed` |
| `MoveShardProofs!KeysAreNeverLost` | `[]KeysNeverLost` |
| `MoveShardProofs!ReplicasAreComplete` | `[]ReplicasComplete` |
| `KvClientProofs!GetAlwaysFailsOver` | `[]GetFailsOver` |
| `KvClientProofs!SuccessReachesAll` | `[]SuccessIsEverywhere` |
| `KvClientProofs!GetReadsLastWrite` | `[]ReadsLastWrite` |
| `ShardMapProofs!UpdatesReachAll` | `[]LatestIsSeen` |
| `ShardMapProofs!SendsAreSafe` | `[]NoSendOnClosed` |
| `ShardMapProofs!PoolKeepsOne` | `[]OneClientPerNode` |
| `StressProofs!CountersSuffice` | `[]ValuesAreThoseNotOverwritten` |
| `StressProofs!NoOtherFalseAlarm` | `[]OnlyFailedSetsAlarm` |
| `StressProofs!ReportIsAlwaysComplete` | `[]ReportIsComplete` |
| `RaftConfigProofs!RepliesAreSaved` | `[]PositiveReplyIsSaved` |
| `RaftConfigProofs!LatestPersists` | `OnlyLatestPersists`, an action property |
| `RaftConfigProofs!OldInstancesStayCutOff` | `[]OldInstancesAreCutOff` |
| `RaftConfigProofs!NetworkKeepsContract` | `CallKeepsContract`: the network under the harness implements `RpcContract` |
| `RaftReplicationProofs!LogsAlwaysMatch` | `[]LogsMatch` |
| `RaftReplicationProofs!MatchIsAlwaysHeld` | `[]MatchIsHeld` |
| `VideoRecProofs!BatchesAreValid` | `[]NoInvalidBatch` |
| `VideoRecProofs!StatsAlwaysAddUp` | `[]StatsAddUp` |
| `VideoRecProofs!StaleIsAlwaysTrending` | `[]StaleIsTrending` |
| `VideoRecProofs!ConnectionsAlwaysClosed` | `[]ConnectionsClosed` |
| `VideoRecProofs!FreshIsAlwaysBest` | `[]FreshIsBest` |

**KvServer.** One inductive invariant, `IndInv`, adds to the six properties
what they lean on:
* `UpInv`: a node's two goroutines are there together, in a running process.
  Without it a dead process might still have a handler.
* `InFlight`: a value under way has a time left that agrees with its expiry at
  the time it was read, that time has been, and its key is not empty. `TypeOK`
  needs it (the time left may be negative; the expiry computed from it and the
  time the copy has been under way are not), `CopyKeepsExpiry` needs it for `SetCopies`,
  and `StoredIsAccepted` for the empty key.
* `JobInv`: copies and their results belong to a handler that is in them, so a
  handler starts with none left over.
* `SteadyInv`: in steady operation the constructor is done and what the loop
  copies is of shards the node hosts. It is `SteadyCopiesLand` made inductive.

There is one lemma per part, each with one step per action. `NextCases` sorts
the steps by what they touch, and `Handled`, `Spawned`, `Fetched`, `Copied`,
`CopiesDone` and `Died` state what a step does to one entry of the state, each
with a lemma that it does. `MoveShardProofs` and `KvClientProofs` use `IndInv`
and these lemmas again.

**MoveShard.** The assumption (`MoveShardAssumption`) is the setting of the
tests: one process, all servers constructed, no restarts. Batches by hand are any
mappings, and any call between servers may fail. `MoveInv` adds to `IndInv`:
* `RestInv`: before the first of the two `Update`s every server is at rest, and
  after the second those that took its token are at rest again. This is what
  the second call is for, and `MappingProcessed` is a part of it.
* `PlanInv` and `WholeInv`: as long as nothing is `disturbed` the mappings to
  come are *graceful* (a shard that has nodes keeps one and gets one more at
  most; `MovesAreGraceful` shows it of every movement that the code works out),
  and therefore all replicas are in `whole`.
* `HoldInv`: of the replicas in `whole` at most one *lacks* the contents (it has
  not seen the map, or its copy is not finished), at least one has them, and
  while one lacks them all others the map names are in `whole`. `KeysNeverLost`
  follows. The first `Update` keeps it because it finds everyone at rest, and by
  what `Sure` asks for.
* `CopyInv`: a copy for a replica in `whole` has only replicas to ask that have
  the contents, so that whichever answers sends all; one that is finished has
  every key. A peer that fails leaves this as it is, and the last one to fail
  takes the replica out of `whole` (`FailKeeps`).
* `FreshInv`: nothing expires, so that nothing is cleaned up.

**KvClient.** `ClientTypes` holds of the calls beside `IndInv`. For
`GetFailsOver`: `StableInv` says that a node that stays up and has the shard in
every assignment hosts it at all times, through all the edits, and `GetInv`
that a Get under way still has that node to ask. For the other two, under
`Calm`: `StillInv` says that nothing of the servers moves but their stores, and
`HeldInv` that a known last write is on every replica (`LastHeld`), that what a
write has not failed at is there (`CallHeld`), and that a Get expects the last
write. An object agrees with a write (`Fits`) if it has its value for as long as
it should, or is gone when it may be; `FitsLater` is the lemma that time and
`ttlMonitor` leave that so.

**ShardMap.** The three properties are inductive together with the types:
`LatestIsSeen` needs `NoSendOnClosed` (who is to be told is still a listener)
and a swap leaves its updater before `sm.mutex`, which by itself covers every
listener. `Pooled` says that a caller that is done has a client.

**StressTest.** `Counting` says what the two counters count (pending and
complete Sets, by cardinality) and what a Set remembers of them; `AloneIsSolo`
is the lemma that the code's test on them is true exactly of a Set that overlaps
no other. `WritesLand`, `ReplicasHold` and `ReadsCurrent` follow a value from a
Set to the replicas, with its expiry, to a Get: a replica holds the value of a
Set that no later Set has passed by, and what a Get has read is still so unless
a Set has begun since. With these, `AlarmsRight` shows that of the checker's
complaints only "not found" after failed Sets is possible. `TesterInv` is about
the tester: permits of the semaphore and requests under way add up, the wait
group counts these and the loops, and each counter is a cardinality. When `main`
reports, the wait group is at zero, so no request is under way.

**RaftConfig.** `Order` (the handler runs after dispatch, its result is there
before the answer), `Registered` (which instance is registered under a server's
name at each point of the harness's operations), `Unused` (instances to come
have no state) and `Persisted` (what an executed call has left in its instance's
persister). `PositiveReplyIsSaved` follows because the second look at the server
is after the handler's result and the copy of the persister is after
`DeleteServer`. The refinement uses the same invariant: each step of the
network or the harness is a step of `RpcContract` or changes nothing of it.
`CutOff` is for `OldInstancesAreCutOff`: only ends of latest instances are
enabled, a crash has those of its server that are enabled still to do, and has
left none when new ends are made; a call that is made after that gets no
further than `processReq`'s look at its end.

**RaftReplication.** A log is read as a segment, a function from an interval of
indices to terms, and so is what a call carries of one. The logs match only
because all segments do (`SegmentsMatch`), those of old calls that may still
arrive included: an accepted call splices its segment into the log, and
`SpliceMatches` and `SpliceIsSegment` say that the splice matches whatever both
match. `Elections` says that a term has one leader and that a majority has
reached it, `SegmentTerms` that no entry is of a term to come and none of a
leader's term is beyond its log, `CallsAreOfLeader` that the call of a leader is
a part of its log. `AnswersHold` and `MatchHolds` carry what a follower holds to
the answer and from there to `matchIndex`. Elections are external (see above):
the proofs use that a majority votes, for no more than one server a term.

**VideoRec.** `RequestInv` is about the candidates of a request, which have no
duplicates when the batches are made of them, and its answer; `TrendingInv` says
that the refresh and the cache have a beginning of the trending videos that
consists of whole batches; `StatsInv` equates each counter with the number of
requests at certain points, those that the load generator gave up on included;
`ConnInv` counts connections. `FreshIsBest` has an
invariant of its own on top of these, `FreshInv`: the candidates of a request
are what the users of the batches so far like (`LikedBatch`), all that is liked
once `deduplicateIds` has taken out what is there twice
(`DeduplicateIdsFacts`), and its videos are a beginning of the candidates
(`BatchBegins`), all of them when they are ranked; `RankingsAreBest` says what
the ranking makes of such a list. Nothing is assumed of the ranks. What
`deduplicateIds` and the loop over the liked videos compute is shown by
induction over a set of indices (`UpTo`).

Only model-checked:
* Liveness (`HandlerReturns`, `ServersFollowFile`, `ExpiredRemoved`,
  `MovesReturn`, `CallsReturn` and the others that state that something
  returns): fairness and `ENABLED` are out of the prover's reach.
* `OwnEntriesStay`: it is Raft's leader completeness for the entries of a
  leader's own term, and rests on what voters compare (`UpToDate`), which is in
  the unreadable `raft.go`.

## Not modelled

* `lab3/raft/raft.go`: not readable; what is used of it is external.
  Elections are therefore taken from the paper, and Raft's progress is not
  checked.
* `config.go`: `one`, `wait`, `nCommitted`, `checkOneLeader`, `checkTerms` poll
  `raft.go` for what it says of itself, and nothing in the code that can be
  read answers them.
* `labgob`: an encoder over reflection. Its statistics counters, and those of
  `labrpc`, change nothing else.
* `GetStats` of the video service, `PeakTrendingVideos` and the printed report
  of the load generator read counters one by one; the subtraction of unsigned
  counters loaded apart (`server_lib.go:352`, `loadgen.go:84`) may wrap. They
  would multiply the states of a run that is near its limit.
* The round robin over pooled connections, all of which serve; mocks (with one,
  `vconn` is nil at `server_lib.go:436`, where it is closed).
* What rests on the unreadable `raft.go`: whether the applier drains
  `signalApplyCh` without the lock that `AppendEntries` holds (`my_util.go:206`),
  and the loop of `sendAppendEntries` that sends again at once after a failed
  answer without an index (:144).
* In the stress tester: values of two requests of the same microsecond are equal
  (`tester.go:134`), where `StressTest` has them distinct; an inconsistency that
  the log's rate limiter holds back is not counted (:163), which is why
  `ReportIsComplete` bounds the count from one side.
* `FileShardMap.Shutdown`: see above. `ShardMapState.IsValid`: not called where
  the map is updated.
* Generated protobuf code, logging, hashing (`ranker`, `det_bcrypt`, the hash
  in `GetShardForKey`, which is a function `ShardOf`), front end and statistics
  tools, and the stubs of lab 0.
