------------------------------ MODULE ShardMap ------------------------------
(***************************************************************************)
(* The shard map of a process and those who use it: ShardMap and its       *)
(* listeners (lab4/kv/shardmap.go), the goroutine that follows the shard   *)
(* map file (file_shardmap.go), the life of the servers that listen        *)
(* (MakeKvServer, shardMapListenLoop and Shutdown of server.go), and the   *)
(* pool of clients, which looks nodes up in the map (clientpool.go).       *)
(*                                                                         *)
(* A state of the map is known by a number; what a server does with it is  *)
(* in KvServer, and here one step in which the server reads it.            *)
(***************************************************************************)
EXTENDS Naturals

CONSTANTS
  Servers,     \* the servers of the process, which are the nodes too
  Testers,     \* goroutines that call Update themselves, as the tests do
  Callers,     \* goroutines that call GetClient
  Targets,     \* the nodes they call it for
  Watcher,     \* the goroutine of FileShardMap
  None,
  NodesOf(_),  \* the nodes a state of the map has
  MaxUpdates,  \* bound: states after the first, by Update or by the file
  MaxStops     \* bound: servers shut down

ASSUME ShardMapAssumption ==
  /\ Watcher \notin Testers
  /\ MaxUpdates \in Nat /\ MaxStops \in Nat
  /\ None \notin Servers /\ None \notin Nat /\ Targets \subseteq Servers

Updaters == Testers \cup {Watcher}

VARIABLES
  file,        \* the file: a state, or None while it is half written
  event,       \* fsnotify has an event for the watcher
  named,       \* the event has the name that WatchShardMapFile was given
  applied,     \* the last state that the watcher has read
  made,        \* the last state anyone has made
  state,       \* ShardMap.state
  channels,    \* ShardMap.updateChannels: the listeners that are there
  update,      \* the Update of an updater: where it is, whom it has to tell
  server,      \* the life of a server
  loop,        \* its shardMapListenLoop
  seen,        \* the state a server has read last
  stops,
  clients,     \* GrpcClientPool.clients: the client of a node
  dials,       \* connections made so far
  get          \* a GetClient: where it is, for which node, its result

fileVars == <<file, event, named, applied>>
listenVars == <<server, loop, seen, stops>>
poolVars == <<clients, dials, get>>
mapVars == <<fileVars, made, state, channels, update, listenVars, poolVars>>

(***************************************************************************)
(* sm.mutex: the updates that have it for reading, and the servers that    *)
(* wait for it, or have it for a step, for writing.  Who waits to write    *)
(* keeps new readers out.                                                  *)
(***************************************************************************)
Readers == {u \in Updaters : update[u].pc = "sending"}
Writers == {n \in Servers : server[n] \in {"make", "closing"}}

-----------------------------------------------------------------------------
(***************************************************************************)
(* The file is rewritten: first it is truncated, then it has its contents; *)
(* fsnotify reports both.                                                  *)
(***************************************************************************)
Truncate ==
  /\ made < MaxUpdates /\ file # None
  /\ file' = None /\ event' = TRUE
  /\ UNCHANGED <<named, applied, made, state, channels, update, listenVars, poolVars>>

WriteFile ==
  /\ file = None /\ made < MaxUpdates
  /\ made' = made + 1
  /\ file' = made + 1 /\ event' = TRUE
  /\ UNCHANGED <<named, applied, state, channels, update, listenVars,
                 poolVars>>

(***************************************************************************)
(* Update: the state is swapped; then the channels are read, with          *)
(* sm.mutex; then they are sent to, one after the other, in any order.     *)
(***************************************************************************)
Swap(u, v) ==
  /\ update[u].pc = "idle"
  /\ state' = v
  /\ update' = [update EXCEPT ![u].pc = "rlock"]

TesterUpdates(u) ==
  /\ made < MaxUpdates /\ file # None
  /\ made' = made + 1
  /\ Swap(u, made + 1)
  /\ UNCHANGED <<fileVars, channels, listenVars, poolVars>>

(***************************************************************************)
(* watchForUpdates takes an event, and applyFromFile reads the file: what  *)
(* can not be parsed is ignored.                                           *)
(***************************************************************************)
ApplyOnce ==               \* mutant: the watcher ends with an error
  /\ event /\ event' = FALSE /\ named
  /\ applied # None
  /\ applied' = file
  /\ IF file # None THEN Swap(Watcher, file)
     ELSE update[Watcher].pc = "idle" /\ UNCHANGED <<state, update>>
  /\ UNCHANGED <<file, named, made, channels, listenVars, poolVars>>

ApplyFromFile ==
  /\ event /\ event' = FALSE /\ named
  /\ update[Watcher].pc = "idle"
  /\ IF file # None
     THEN Swap(Watcher, file) /\ applied' = file
     ELSE UNCHANGED <<state, update, applied>>
  /\ UNCHANGED <<file, named, made, channels, listenVars, poolVars>>

(***************************************************************************)
(* An event of another name is ignored.  fsnotify puts the name together   *)
(* from the directory, as filepath.Dir cleans it, and the file: a path     *)
(* like shardmaps/x.json comes back as it is, x.json as ./x.json and       *)
(* ./shardmaps/x.json as shardmaps/x.json.                                 *)
(***************************************************************************)
IgnoreEvent ==
  /\ event /\ event' = FALSE /\ ~named
  /\ UNCHANGED <<file, named, applied, made, state, channels, update,
                 listenVars, poolVars>>

WatchForUpdates == ApplyFromFile \/ IgnoreEvent

Waiting ==                 \* mutant: those that wait for it are told
  {n \in channels : loop[n] = "select"}

Channels == channels

(***************************************************************************)
(* The update of u has S still to tell, and goes on with one of them.      *)
(***************************************************************************)
Tell(u, S) ==
  IF S = {} THEN update' = [update EXCEPT ![u] = [pc |-> "idle", to |-> None,
                                                  todo |-> {}]]
  ELSE \E n \in S : update' = [update EXCEPT
         ![u] = [pc |-> "sending", to |-> n, todo |-> S \ {n}]]

RLock(u) ==
  /\ update[u].pc = "rlock" /\ Writers = {}
  /\ Tell(u, Channels)
  /\ UNCHANGED <<fileVars, made, state, channels, listenVars, poolVars>>

Send(u) ==
  LET n == update[u].to
  IN /\ update[u].pc = "sending" /\ loop[n] = "select"
     /\ loop' = [loop EXCEPT ![n] = "handle"]
     /\ Tell(u, update[u].todo)
     /\ UNCHANGED <<fileVars, made, state, channels, server, seen, stops,
                    poolVars>>

-----------------------------------------------------------------------------
(***************************************************************************)
(* MakeKvServer: MakeListener, which needs sm.mutex; the loop; and a first *)
(* handleShardMapUpdate.                                                   *)
(***************************************************************************)
BeginMake(n) ==
  /\ server[n] = "off"
  /\ server' = [server EXCEPT ![n] = "make"]
  /\ UNCHANGED <<fileVars, made, state, channels, update, loop, seen, stops,
                 poolVars>>

MakeListener(n) ==
  /\ server[n] = "make" /\ Readers = {}
  /\ channels' = channels \cup {n}
  /\ server' = [server EXCEPT ![n] = "init"]
  /\ loop' = [loop EXCEPT ![n] = "select"]
  /\ UNCHANGED <<fileVars, made, state, update, seen, stops, poolVars>>

FirstHandle(n) ==
  /\ server[n] = "init"
  /\ server' = [server EXCEPT ![n] = "running"]
  /\ seen' = [seen EXCEPT ![n] = state]
  /\ UNCHANGED <<fileVars, made, state, channels, update, loop, stops,
                 poolVars>>

HandleLocked(n) ==         \* mutant: the handler needs sm.mutex
  /\ loop[n] = "handle" /\ Readers = {}
  /\ loop' = [loop EXCEPT ![n] = "busy"]
  /\ seen' = [seen EXCEPT ![n] = state]
  /\ UNCHANGED <<fileVars, made, state, channels, update, server, stops,
                 poolVars>>

(***************************************************************************)
(* handleShardMapUpdate reads the state, and then is busy with it.         *)
(***************************************************************************)
Handle(n) ==
  /\ loop[n] = "handle"
  /\ loop' = [loop EXCEPT ![n] = "busy"]
  /\ seen' = [seen EXCEPT ![n] = state]
  /\ UNCHANGED <<fileVars, made, state, channels, update, server, stops,
                 poolVars>>

HandleReturns(n) ==
  /\ loop[n] = "busy"
  /\ loop' = [loop EXCEPT ![n] = "select"]
  /\ UNCHANGED <<fileVars, made, state, channels, update, server, seen, stops,
                 poolVars>>

(***************************************************************************)
(* Shutdown: the loop is told, when it is in its select, and ends; then    *)
(* Close, which needs sm.mutex, takes the channel away.                    *)
(***************************************************************************)
Shutdown(n) ==
  /\ server[n] = "running" /\ stops < MaxStops
  /\ stops' = stops + 1
  /\ server' = [server EXCEPT ![n] = "stopping"]
  /\ UNCHANGED <<fileVars, made, state, channels, update, loop, seen,
                 poolVars>>

StopLoop(n) ==
  /\ server[n] = "stopping" /\ loop[n] = "select"
  /\ loop' = [loop EXCEPT ![n] = "off"]
  /\ server' = [server EXCEPT ![n] = "closing"]
  /\ UNCHANGED <<fileVars, made, state, channels, update, seen, stops,
                 poolVars>>

CloseAtOnce(n) ==          \* mutant: Close does not take sm.mutex
  /\ server[n] = "closing"
  /\ channels' = channels \ {n}
  /\ server' = [server EXCEPT ![n] = "closed"]
  /\ UNCHANGED <<fileVars, made, state, update, loop, seen, stops, poolVars>>

Close(n) ==
  /\ server[n] = "closing" /\ Readers = {}
  /\ channels' = channels \ {n}
  /\ server' = [server EXCEPT ![n] = "closed"]
  /\ UNCHANGED <<fileVars, made, state, update, loop, seen, stops, poolVars>>

-----------------------------------------------------------------------------
(***************************************************************************)
(* GetClient looks into the pool with its read lock, and then, with the    *)
(* write lock, once more, and makes the client if the map has the node.    *)
(* What is done with the write lock is one step: nobody sees its middle.   *)
(***************************************************************************)
Lookup(c, n) ==
  /\ get[c].pc = "idle"
  /\ get' = [get EXCEPT ![c] = IF clients[n] # None
               THEN [pc |-> "done", node |-> n, client |-> clients[n]]
               ELSE [pc |-> "miss", node |-> n, client |-> None]]
  /\ UNCHANGED <<fileVars, made, state, channels, update, listenVars, clients,
                 dials>>

Done(c, client) == get' = [get EXCEPT ![c].pc = "done", ![c].client = client]

UseCached(c) ==
  /\ get[c].pc = "miss" /\ clients[get[c].node] # None
  /\ Done(c, clients[get[c].node])
  /\ UNCHANGED <<fileVars, made, state, channels, update, listenVars, clients,
                 dials>>

AlwaysDials(c) ==          \* mutant: no second look into the pool
  get[c].pc = "miss"

StillMissing(c) == get[c].pc = "miss" /\ clients[get[c].node] = None

MakeClient(c) ==
  LET n == get[c].node
  IN /\ StillMissing(c)
     /\ n \in NodesOf(state)
     /\ dials' = dials + 1
     /\ clients' = [clients EXCEPT ![n] = dials + 1]
     /\ Done(c, dials + 1)
     /\ UNCHANGED <<fileVars, made, state, channels, update, listenVars>>

(***************************************************************************)
(* The map does not have the node, or grpc.Dial fails: the error is not    *)
(* cached, and the caller may call again.                                  *)
(***************************************************************************)
NoClient(c) ==
  /\ get[c].pc = "miss" /\ clients[get[c].node] = None
  /\ get' = [get EXCEPT ![c] = [pc |-> "idle", node |-> None,
                                client |-> None]]
  /\ UNCHANGED <<fileVars, made, state, channels, update, listenVars, clients,
                 dials>>

-----------------------------------------------------------------------------
PoolInit ==
  /\ clients = [n \in Servers |-> None]
  /\ dials = 0
  /\ get = [c \in Callers |-> [pc |-> "idle", node |-> None, client |-> None]]

(***************************************************************************)
(* WatchShardMapFile has applied the file; no server is made yet.          *)
(***************************************************************************)
MapInit ==
  /\ file = 0 /\ event = FALSE /\ named \in BOOLEAN
  /\ applied = 0 /\ made = 0 /\ state = 0
  /\ channels = {}
  /\ update = [u \in Updaters |-> [pc |-> "idle", to |-> None, todo |-> {}]]
  /\ server = [n \in Servers |-> "off"]
  /\ loop = [n \in Servers |-> "off"]
  /\ seen = [n \in Servers |-> None]
  /\ stops = 0
  /\ PoolInit

MapNext ==
  \/ Truncate \/ WriteFile \/ WatchForUpdates
  \/ \E u \in Testers : TesterUpdates(u)
  \/ \E u \in Updaters : RLock(u) \/ Send(u)
  \/ \E n \in Servers :
       \/ BeginMake(n) \/ MakeListener(n) \/ FirstHandle(n)
       \/ Handle(n) \/ HandleReturns(n) \/ Shutdown(n) \/ StopLoop(n) \/ Close(n)
  \/ \E c \in Callers :
       \/ \E n \in Targets : Lookup(c, n)
       \/ UseCached(c) \/ MakeClient(c) \/ NoClient(c)

MapSpec == MapInit /\ [][MapNext]_mapVars

(***************************************************************************)
(* Handlers return (KvServer), goroutines run on, events arrive, and who   *)
(* can have sync.RWMutex for long enough gets it.  Nobody has to make or   *)
(* shut down a server, to change the map or to call GetClient.             *)
(***************************************************************************)
FairMapSpec ==
  /\ MapSpec
  /\ WF_mapVars(WatchForUpdates)
  /\ \A u \in Updaters : WF_mapVars(RLock(u)) /\ WF_mapVars(Send(u))
  /\ \A n \in Servers :
       /\ WF_mapVars(MakeListener(n)) /\ WF_mapVars(FirstHandle(n))
       /\ WF_mapVars(Handle(n)) /\ WF_mapVars(HandleReturns(n))
       /\ WF_mapVars(StopLoop(n)) /\ WF_mapVars(Close(n))

-----------------------------------------------------------------------------
(***************************************************************************)
(* shardmap.go: a channel "will receive a notification any time Update()   *)
(* is called, at which point you may read the latest state".  With several *)
(* updates at once, and servers made and shut down meanwhile, a server     *)
(* that has not read the latest state is going to: a handler of it has yet *)
(* to read, or an update has yet to tell it.                               *)
(***************************************************************************)
LatestIsSeen ==
  \A n \in channels :
    loop[n] # "off" /\ seen[n] # state =>
      \/ loop[n] = "handle" \/ server[n] = "init"
      \/ \E u \in Updaters :
           \/ update[u].pc = "rlock"
           \/ n \in update[u].todo \cup {update[u].to}

(***************************************************************************)
(* Update does not send on a channel that Close has closed, which would    *)
(* panic: who is still to be told is still there.                          *)
(***************************************************************************)
NoSendOnClosed ==
  \A u \in Updaters : update[u].pc = "sending" =>
    update[u].todo \cup {update[u].to} \subseteq channels

(***************************************************************************)
(* clientpool.go: "We may have lost a race and someone already created a   *)
(* client": all callers get the same client for a node, and the pool       *)
(* keeps it.                                                               *)
(***************************************************************************)
OneClientPerNode ==
  \A c \in Callers : get[c].pc = "done" => get[c].client = clients[get[c].node]

(***************************************************************************)
(* An Update (shardmap.go: it "may block until listeners receive the       *)
(* notification") returns, whatever other updates, new listeners and       *)
(* handlers do; save when a server is being shut down whose loop has ended *)
(* and whose listener is not closed yet.                                   *)
(***************************************************************************)
UpdateReturns ==
  \A u \in Updaters :
    update[u].pc # "idle" ~>
      \/ update[u].pc = "idle"
      \/ \E n \in Servers : server[n] = "closing"

(***************************************************************************)
(* file_shardmap.go: "any errors in reading the file or parsing it may be  *)
(* logged but otherwise ignored and the last known good value will be      *)
(* used": where the events have the name the watcher compares them with,   *)
(* reading a half-written file loses nothing, the watcher comes to what    *)
(* the file says when it is whole.                                         *)
(***************************************************************************)
FileIsFollowed ==
  named => <>[](\/ applied = file \/ file = None
                \/ \E n \in Servers : server[n] = "closing")
=============================================================================
