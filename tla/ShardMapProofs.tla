--------------------------- MODULE ShardMapProofs ---------------------------
(***************************************************************************)
(* Proofs about the shard map of a process and the client pool, for any    *)
(* number of servers, callers of Update and callers of GetClient.          *)
(***************************************************************************)
EXTENDS ShardMap, TLAPS

(***************************************************************************)
(* The prover of the leaves that do not name one: those with arithmetic    *)
(* name SMT.                                                               *)
(***************************************************************************)
USE ZenonT(30)

UpdateType ==
  [pc : {"idle", "rlock", "sending"}, to : Servers \cup {None},
   todo : SUBSET Servers]

Types ==
  /\ channels \subseteq Servers
  /\ update \in [Updaters -> UpdateType]
  /\ \A u \in Updaters : update[u].pc = "sending" => update[u].to \in Servers
  /\ server \in [Servers -> {"off", "make", "init", "running", "stopping",
                             "closing", "closed"}]
  /\ loop \in [Servers -> {"off", "select", "handle", "busy"}]
  /\ seen \in [Servers -> Nat \cup {None}]
  /\ state \in Nat /\ made \in Nat /\ file \in Nat \cup {None}

(***************************************************************************)
(* A caller that is done has a client, and a client in the pool is one.    *)
(***************************************************************************)
Pooled ==
  /\ dials \in Nat
  /\ clients \in [Servers -> Nat \cup {None}]
  /\ get \in [Callers -> [pc : {"idle", "miss", "done"},
                          node : Servers \cup {None},
                          client : Nat \cup {None}]]
  /\ \A c \in Callers : get[c].pc # "idle" => get[c].node \in Servers
  /\ \A c \in Callers : get[c].pc = "done" => get[c].client # None

IndInv == Types /\ Pooled /\ LatestIsSeen /\ NoSendOnClosed /\ OneClientPerNode

USE ShardMapAssumption

(* The invariant holds at the start.                                       *)
LEMMA InitIndInv == MapInit => IndInv
<1> SUFFICES ASSUME MapInit PROVE IndInv
  OBVIOUS
<1>1. Types
  BY DEF MapInit, PoolInit, Types, UpdateType
<1>2. Pooled
  BY DEF MapInit, PoolInit, Pooled
<1>3. LatestIsSeen /\ NoSendOnClosed /\ OneClientPerNode
  BY DEF MapInit, PoolInit, LatestIsSeen, NoSendOnClosed, OneClientPerNode
<1> QED
  BY <1>1, <1>2, <1>3 DEF IndInv

-----------------------------------------------------------------------------
(***************************************************************************)
(* The steps of the map and its listeners.                                 *)
(***************************************************************************)
MapInv == Types /\ LatestIsSeen /\ NoSendOnClosed

(***************************************************************************)
(* The file and its watcher, and the callers of Update: a new state comes  *)
(* with an update that has yet to look who is listening.                   *)
(***************************************************************************)
LEMMA SwapKeeps ==
  ASSUME MapInv, NEW u \in Updaters, NEW v \in Nat, Swap(u, v),
         UNCHANGED <<channels, server, loop, seen>>,
         made' \in Nat, file' \in Nat \cup {None}
  PROVE  MapInv'
<1> USE DEF MapInv
<1> DEFINE x == [update[u] EXCEPT !.pc = "rlock"]
<1>1. /\ update' = [update EXCEPT ![u] = x] /\ state' = v
      /\ x \in UpdateType /\ x.pc = "rlock" /\ x.to = update[u].to
      /\ x.todo = update[u].todo
  BY SMTT(30) DEF Swap, Types, UpdateType
<1> HIDE DEF x
<1>2. \A w \in Updaters : update'[w] = IF w = u THEN x ELSE update[w]
  BY <1>1 DEF Types
<1>3. Types'
  BY <1>1, <1>2 DEF Types
<1>4. LatestIsSeen' /\ NoSendOnClosed'
  BY SMTT(30), <1>1, <1>2 DEF LatestIsSeen, NoSendOnClosed
<1> QED
  BY <1>3, <1>4

(* A new state is swapped in: its updater has all listeners still to tell. *)
LEMMA FileStep ==
  ASSUME MapInv, \/ Truncate \/ WriteFile \/ WatchForUpdates
                 \/ \E u \in Testers : TesterUpdates(u)
  PROVE  MapInv'
<1> USE DEF MapInv
<1>1. CASE \/ Truncate \/ WriteFile
           \/ IgnoreEvent
           \/ ApplyFromFile /\ file = None
  <2>1. /\ UNCHANGED <<state, channels, update, server, loop, seen>>
        /\ made' \in Nat /\ file' \in Nat \cup {None}
    BY SMTT(30), <1>1 DEF Truncate, WriteFile, IgnoreEvent, ApplyFromFile,
       listenVars, Types
  <2> QED
    BY <2>1 DEF Types, LatestIsSeen, NoSendOnClosed
<1>2. CASE ApplyFromFile /\ file # None
  <2>1. /\ Swap(Watcher, file) /\ file \in Nat /\ Watcher \in Updaters
        /\ UNCHANGED <<channels, server, loop, seen, made, file>>
    BY <1>2 DEF ApplyFromFile, listenVars, Types, Updaters
  <2> QED
    BY <2>1, SwapKeeps DEF Types
<1>3. ASSUME NEW u \in Testers, TesterUpdates(u) PROVE MapInv'
  <2>1. /\ Swap(u, made + 1) /\ made + 1 \in Nat /\ u \in Updaters
        /\ UNCHANGED <<channels, server, loop, seen, file>>
        /\ made' = made + 1
    BY SMTT(30), <1>3 DEF TesterUpdates, fileVars, listenVars, Types, Updaters
  <2> QED
    BY <2>1, SwapKeeps DEF Types
<1>4. CASE WatchForUpdates
  BY <1>1, <1>2, <1>4 DEF WatchForUpdates
<1> QED
  BY <1>1, <1>3, <1>4

(***************************************************************************)
(* Whom an update has yet to tell, after Tell.                             *)
(***************************************************************************)
LEMMA Tells ==
  ASSUME MapInv, NEW u \in Updaters, NEW S \in SUBSET Servers, Tell(u, S)
  PROVE  /\ update' \in [Updaters -> UpdateType]
         /\ \A w \in Updaters \ {u} : update'[w] = update[w]
         /\ S = {} => update'[u].pc = "idle"
         /\ S # {} => /\ update'[u].to \in S
                      /\ update'[u].todo \cup {update'[u].to} = S
<1>1. update \in [Updaters -> UpdateType]
  BY DEF MapInv, Types
<1>2. CASE S = {}
  BY SMTT(30), <1>1, <1>2 DEF Tell, UpdateType
<1>3. CASE S # {}
  <2>1. PICK n \in S : update' = [update EXCEPT
          ![u] = [pc |-> "sending", to |-> n, todo |-> S \ {n}]]
    BY <1>3 DEF Tell
  <2>2. [pc |-> "sending", to |-> n, todo |-> S \ {n}] \in UpdateType
    BY DEF UpdateType
  <2>3. update'[u] = [pc |-> "sending", to |-> n, todo |-> S \ {n}]
    BY <1>1, <2>1
  <2> QED
    BY <1>1, <1>3, <2>1, <2>2, <2>3
<1> QED
  BY <1>2, <1>3

(* An updater takes the lock or tells one listener.                        *)
LEMMA UpdateStep ==
  ASSUME MapInv, NEW u \in Updaters, RLock(u) \/ Send(u)
  PROVE  MapInv'
<1> USE DEF MapInv
<1>1. CASE RLock(u)
  <2>1. /\ update[u].pc = "rlock" /\ Tell(u, channels)
        /\ UNCHANGED <<made, state, channels, file, server, loop, seen>>
    BY <1>1 DEF RLock, Channels, fileVars, listenVars
  <2>2. /\ update' \in [Updaters -> UpdateType]
        /\ \A w \in Updaters \ {u} : update'[w] = update[w]
        /\ channels = {} => update'[u].pc = "idle"
        /\ channels # {} => /\ update'[u].to \in channels
             /\ update'[u].todo \cup {update'[u].to} = channels
    BY <2>1, Tells DEF Types
  <2>3. Types'
    BY <2>1, <2>2 DEF Types
  <2>4. LatestIsSeen'
    BY <2>1, <2>2 DEF LatestIsSeen
  <2>5. NoSendOnClosed'
    BY <2>1, <2>2 DEF NoSendOnClosed
  <2> QED
    BY <2>3, <2>4, <2>5
<1>2. CASE Send(u)
  <2> DEFINE n == update[u].to
             S == update[u].todo
  <2>1. /\ update[u].pc = "sending" /\ Tell(u, S)
        /\ loop' = [loop EXCEPT ![n] = "handle"]
        /\ UNCHANGED <<made, state, channels, file, server, seen>>
    BY <1>2 DEF Send, fileVars
  <2>2. S \in SUBSET Servers /\ n \in Servers
    BY <2>1 DEF Types, UpdateType
  <2>3. /\ update' \in [Updaters -> UpdateType]
        /\ \A w \in Updaters \ {u} : update'[w] = update[w]
        /\ S = {} => update'[u].pc = "idle"
        /\ S # {} => /\ update'[u].to \in S
                     /\ update'[u].todo \cup {update'[u].to} = S
    BY SMTT(30), <2>1, <2>2, Tells
  <2>4. \A m \in Servers : loop'[m] = IF m = n THEN "handle" ELSE loop[m]
    BY <2>1 DEF Types
  <2>5. Types'
    BY <2>1, <2>2, <2>3 DEF Types
  <2>6. LatestIsSeen'
    <3> SUFFICES ASSUME NEW m \in channels, m # n, loop[m] # "off",
                        seen[m] # state
                 PROVE  \/ loop'[m] = "handle" \/ server'[m] = "init"
                        \/ \E w \in Updaters :
                             \/ update'[w].pc = "rlock"
                             \/ m \in update'[w].todo \cup {update'[w].to}
      BY SMTT(30), <2>1, <2>4 DEF LatestIsSeen, Types
    <3>1. \/ loop[m] = "handle" \/ server[m] = "init"
          \/ \E w \in Updaters : \/ update[w].pc = "rlock"
                                 \/ m \in update[w].todo \cup {update[w].to}
      BY DEF LatestIsSeen
    <3>2. CASE loop[m] = "handle" \/ server[m] = "init"
      BY <2>1, <2>4, <3>2 DEF Types
    <3>3. ASSUME NEW w \in Updaters, \/ update[w].pc = "rlock"
                                     \/ m \in update[w].todo \cup {update[w].to}
          PROVE  \/ update'[w].pc = "rlock"
                 \/ m \in update'[w].todo \cup {update'[w].to}
      BY <2>1, <2>3, <3>3
    <3> QED
      BY <3>1, <3>2, <3>3
  <2>7. NoSendOnClosed'
    BY <2>1, <2>3 DEF NoSendOnClosed
  <2> QED
    BY <2>5, <2>6, <2>7
<1> QED
  BY <1>1, <1>2

(***************************************************************************)
(* The life of a server: a new listener has the constructor's handler to   *)
(* come, and a listener goes only when no update has the channels.         *)
(***************************************************************************)
LEMMA ServerStep ==
  ASSUME MapInv, NEW n \in Servers,
         \/ BeginMake(n) \/ MakeListener(n) \/ FirstHandle(n) \/ Handle(n)
         \/ HandleReturns(n) \/ Shutdown(n) \/ StopLoop(n) \/ Close(n)
  PROVE  MapInv'
<1> USE DEF MapInv
<1>1. UNCHANGED <<made, state, file, update>>
  BY DEF BeginMake, MakeListener, FirstHandle, Handle, HandleReturns,
         Shutdown, StopLoop, Close, fileVars
<1>2. Types'
  BY SMTT(30), <1>1 DEF BeginMake, MakeListener, FirstHandle, Handle, HandleReturns,
              Shutdown, StopLoop, Close, Types
<1>3. NoSendOnClosed'
  <2>1. CASE Close(n)
    BY <1>1, <2>1 DEF Close, NoSendOnClosed, Readers
  <2>2. CASE channels \subseteq channels'
    BY <1>1, <2>2 DEF NoSendOnClosed
  <2> QED
    BY <2>1, <2>2 DEF BeginMake, MakeListener, FirstHandle, Handle,
                      HandleReturns, Shutdown, StopLoop
<1>4. LatestIsSeen'
  <2>1. ASSUME NEW m \in channels', loop'[m] # "off", seen'[m] # state,
               m \in channels /\ loop[m] # "off" /\ seen[m] # state,
               loop[m] = "handle" => loop'[m] = "handle",
               server[m] = "init" => server'[m] = "init"
        PROVE  \/ loop'[m] = "handle" \/ server'[m] = "init"
               \/ \E w \in Updaters :
                    \/ update[w].pc = "rlock"
                    \/ m \in update[w].todo \cup {update[w].to}
    BY <2>1 DEF LatestIsSeen
  <2> SUFFICES ASSUME NEW m \in channels', loop'[m] # "off", seen'[m] # state
               PROVE  \/ loop'[m] = "handle" \/ server'[m] = "init"
                      \/ \E w \in Updaters :
                           \/ update[w].pc = "rlock"
                           \/ m \in update[w].todo \cup {update[w].to}
    BY <1>1 DEF LatestIsSeen
  <2>2. m \in Servers
    BY <1>2 DEF Types
  <2>3. CASE BeginMake(n) \/ Shutdown(n) \/ Close(n)
    BY SMTT(30), <2>1, <2>2, <2>3 DEF BeginMake, Shutdown, Close, Types
  <2>4. CASE MakeListener(n)
    BY <2>1, <2>2, <2>4 DEF MakeListener, Types
  <2>5. CASE FirstHandle(n) \/ Handle(n)
    BY SMTT(30), <2>1, <2>2, <2>5 DEF FirstHandle, Handle, Types
  <2>6. CASE HandleReturns(n) \/ StopLoop(n)
    BY SMTT(30), <2>1, <2>2, <2>6 DEF HandleReturns, StopLoop, Types
  <2> QED
    BY <2>3, <2>4, <2>5, <2>6
<1> QED
  BY <1>2, <1>3, <1>4

-----------------------------------------------------------------------------
(***************************************************************************)
(* A caller's step leaves it with nothing, or with the client the pool     *)
(* has, or with a miss.                                                    *)
(***************************************************************************)
LEMMA CallerStep ==
  ASSUME Pooled, NEW c \in Callers,
         NEW x \in [pc : {"idle", "miss", "done"}, node : Servers \cup {None},
                    client : Nat \cup {None}],
         get' = [get EXCEPT ![c] = x],
         x.pc # "idle" => x.node \in Servers,
         x.pc = "done" => x.client # None /\ x.client = clients'[x.node],
         dials' \in Nat, clients' \in [Servers -> Nat \cup {None}],
         \A n \in Servers : clients[n] # None => clients'[n] = clients[n],
         OneClientPerNode
  PROVE  Pooled' /\ OneClientPerNode'
<1>1. \A d \in Callers : get'[d] = IF d = c THEN x ELSE get[d]
  BY DEF Pooled
<1>2. get' \in [Callers -> [pc : {"idle", "miss", "done"},
                            node : Servers \cup {None},
                            client : Nat \cup {None}]]
  BY DEF Pooled
<1>3. Pooled'
  BY <1>1, <1>2 DEF Pooled
<1>4. OneClientPerNode'
  BY SMTT(30), <1>1 DEF Pooled, OneClientPerNode
<1> QED
  BY <1>3, <1>4

(* A step of GetClient keeps one client per node.                          *)
LEMMA PoolStep ==
  ASSUME Pooled, OneClientPerNode,
         NEW c \in Callers, \/ \E n \in Targets : Lookup(c, n)
                            \/ UseCached(c) \/ MakeClient(c) \/ NoClient(c)
  PROVE  Pooled' /\ OneClientPerNode'
<1> DEFINE Caller == [pc : {"idle", "miss", "done"},
                      node : Servers \cup {None}, client : Nat \cup {None}]
<1>1. /\ get \in [Callers -> Caller] /\ get[c] \in Caller
      /\ clients \in [Servers -> Nat \cup {None}] /\ dials \in Nat
      /\ get[c].pc # "idle" => get[c].node \in Servers
  BY DEF Pooled
<1>2. ASSUME NEW n \in Targets, Lookup(c, n)
      PROVE  Pooled' /\ OneClientPerNode'
  <2> DEFINE x == IF clients[n] # None
                  THEN [pc |-> "done", node |-> n, client |-> clients[n]]
                  ELSE [pc |-> "miss", node |-> n, client |-> None]
  <2>1. get' = [get EXCEPT ![c] = x] /\ clients' = clients /\ dials' = dials
    BY <1>2 DEF Lookup
  <2>2. x \in Caller /\ x.node = n /\ n \in Servers
    BY <1>1
  <2>3. x.pc = "done" => x.client # None /\ x.client = clients[n]
    OBVIOUS
  <2> HIDE DEF x
  <2> QED
    BY <1>1, <2>1, <2>2, <2>3, CallerStep
<1>3. ASSUME NEW v \in Nat, Done(c, v), get[c].pc = "miss",
             dials' \in Nat, clients' \in [Servers -> Nat \cup {None}],
             v = clients'[get[c].node],
             \A n \in Servers : clients[n] # None => clients'[n] = clients[n]
      PROVE  Pooled' /\ OneClientPerNode'
  <2> DEFINE x == [get[c] EXCEPT !.pc = "done", !.client = v]
  <2>1. get' = [get EXCEPT ![c] = x]
    BY <1>1, <1>3 DEF Done
  <2>2. x \in Caller
    BY <1>1
  <2>3. x.pc = "done" /\ x.client = v /\ x.node = get[c].node
    BY <1>1
  <2> HIDE DEF x
  <2> QED
    BY <1>1, <1>3, <2>1, <2>2, <2>3, CallerStep
<1>4. CASE UseCached(c)
  <2>1. /\ get[c].pc = "miss" /\ clients' = clients /\ dials' = dials
        /\ clients[get[c].node] # None /\ Done(c, clients[get[c].node])
    BY <1>4 DEF UseCached
  <2>2. clients[get[c].node] \in Nat
    BY <1>1, <2>1
  <2> QED
    BY <1>1, <1>3, <2>1, <2>2
<1>5. CASE MakeClient(c)
  <2>1. /\ get[c].pc = "miss" /\ clients[get[c].node] = None
        /\ dials' = dials + 1 /\ dials + 1 \in Nat
        /\ clients' = [clients EXCEPT ![get[c].node] = dials + 1]
        /\ Done(c, dials + 1)
    BY SMTT(30), <1>1, <1>5 DEF MakeClient, StillMissing
  <2>2. /\ clients' \in [Servers -> Nat \cup {None}]
        /\ clients'[get[c].node] = dials + 1
        /\ \A n \in Servers : clients[n] # None => clients'[n] = clients[n]
    BY <1>1, <2>1
  <2> QED
    BY <1>3, <2>1, <2>2
<1>6. CASE NoClient(c)
  <2> DEFINE x == [pc |-> "idle", node |-> None, client |-> None]
  <2>1. get' = [get EXCEPT ![c] = x] /\ clients' = clients /\ dials' = dials
    BY <1>6 DEF NoClient
  <2>2. x \in Caller /\ x.pc = "idle"
    OBVIOUS
  <2> HIDE DEF x
  <2> QED
    BY <1>1, <2>1, <2>2, CallerStep
<1> QED
  BY <1>2, <1>4, <1>5, <1>6

-----------------------------------------------------------------------------
(* Every step keeps the invariant,                                         *)
LEMMA StepIndInv == IndInv /\ [MapNext]_mapVars => IndInv'
<1> SUFFICES ASSUME IndInv, [MapNext]_mapVars PROVE IndInv'
  OBVIOUS
<1>1. MapInv /\ Pooled /\ OneClientPerNode
  BY DEF IndInv, MapInv
<1>2. SUFFICES MapInv' /\ Pooled' /\ OneClientPerNode'
  BY DEF IndInv, MapInv
<1>3. ASSUME UNCHANGED poolVars PROVE Pooled' /\ OneClientPerNode'
  BY <1>1, <1>3 DEF poolVars, Pooled, OneClientPerNode
<1>4. CASE \/ Truncate \/ WriteFile \/ WatchForUpdates
           \/ \E u \in Testers : TesterUpdates(u)
  <2>1. UNCHANGED poolVars
    BY <1>4 DEF Truncate, WriteFile, WatchForUpdates, ApplyFromFile, IgnoreEvent,
       TesterUpdates
  <2> QED
    BY <1>1, <1>3, <1>4, <2>1, FileStep
<1>5. CASE \E u \in Updaters : RLock(u) \/ Send(u)
  <2>1. UNCHANGED poolVars
    BY <1>5 DEF RLock, Send
  <2> QED
    BY <1>1, <1>3, <1>5, <2>1, UpdateStep
<1>6. CASE \E n \in Servers :
             \/ BeginMake(n) \/ MakeListener(n) \/ FirstHandle(n) \/ Handle(n)
             \/ HandleReturns(n) \/ Shutdown(n) \/ StopLoop(n) \/ Close(n)
  <2>1. UNCHANGED poolVars
    BY <1>6 DEF BeginMake, MakeListener, FirstHandle, Handle, HandleReturns,
                Shutdown, StopLoop, Close
  <2> QED
    BY <1>1, <1>3, <1>6, <2>1, ServerStep
<1>7. ASSUME NEW c \in Callers, \/ \E n \in Targets : Lookup(c, n)
                                \/ UseCached(c) \/ MakeClient(c) \/ NoClient(c)
      PROVE  MapInv' /\ Pooled' /\ OneClientPerNode'
  <2>1. Pooled' /\ OneClientPerNode'
    BY <1>1, <1>7, PoolStep
  <2>2. UNCHANGED <<made, state, file, channels, update, server, loop, seen>>
    BY <1>7 DEF Lookup, UseCached, MakeClient, NoClient, fileVars, listenVars
  <2>3. MapInv'
    BY <1>1, <2>2 DEF MapInv, Types, LatestIsSeen, NoSendOnClosed
  <2> QED
    BY <2>1, <2>3
<1>8. CASE UNCHANGED mapVars
  <2>1. UNCHANGED <<made, state, file, channels, update, server, loop, seen,
                    poolVars>>
    BY <1>8 DEF mapVars, fileVars, listenVars
  <2>2. MapInv'
    BY <1>1, <2>1 DEF MapInv, Types, LatestIsSeen, NoSendOnClosed
  <2> QED
    BY <1>3, <2>1, <2>2
<1> QED
  BY <1>4, <1>5, <1>6, <1>7, <1>8 DEF MapNext

(* so it holds in all reachable states.                                    *)
LEMMA Always == MapSpec => []IndInv
  BY InitIndInv, StepIndInv, PTL DEF MapSpec

(***************************************************************************)
(* However many updates run at once and whenever servers come and go, a    *)
(* server whose view of the shard map is out of date is told of it still   *)
(* (ShardMap.Update, MakeKvServer, shardMapListenLoop).                    *)
(***************************************************************************)
THEOREM UpdatesReachAll == MapSpec => []LatestIsSeen
  BY Always, PTL DEF IndInv

(***************************************************************************)
(* Update never sends on a channel that ShardMapListener.Close has closed. *)
(***************************************************************************)
THEOREM SendsAreSafe == MapSpec => []NoSendOnClosed
  BY Always, PTL DEF IndInv

(***************************************************************************)
(* All callers of GetClient have the one client of a node that the pool    *)
(* keeps, however they race for the lock.                                  *)
(***************************************************************************)
THEOREM PoolKeepsOne == MapSpec => []OneClientPerNode
  BY Always, PTL DEF IndInv
=============================================================================
