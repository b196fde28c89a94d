----------------------------- MODULE RaftConfig -----------------------------
(***************************************************************************)
(* The harness of the Raft tests (lab3/raft/config.go) on the network of   *)
(* LabRpc: the test crashes, restarts, connects and disconnects servers,   *)
(* while the servers' instances call each other.  An instance can not be   *)
(* stopped: the harness cuts it off, and gives its successor client ends   *)
(* of new names and a copy of its persister (lab3/raft/persister.go).      *)
(*                                                                         *)
(* The g-th instance of server i is <<i, g>> and its end to server j is    *)
(* <<i, g, j>>.  A handler writes what it did into the persister of its    *)
(* instance before it returns (rf.persist in AppendEntries), so that a     *)
(* persister's content is the set of the calls it remembers.               *)
(***************************************************************************)
EXTENDS LabRpc, Naturals, Sequences

CONSTANTS
  N,           \* config.n, the number of servers
  MaxGen,      \* instances of a server
  MaxOps       \* operations of the test

ASSUME RaftConfigAssumption ==
  /\ N \in Nat \ {0} /\ MaxGen \in Nat \ {0}
  /\ \A S \in SUBSET Calls : S # None
  /\ Names = 1..N
  /\ Instances = Names \X (1..MaxGen)
  /\ Ends = Names \X (1..MaxGen) \X Names

VARIABLES
  endnames,    \* the latest instance whose ends are in config.endnames
  connected,   \* config.connected: the servers that are
  disk,        \* the content of an instance's own persister
  saved,       \* config.saved: a copy, or None while it is the instance's
  test,        \* what the test is doing: op, to which server, ends to do
  ops,         \* operations begun
  late         \* ghost: calls that an instance made after its successor

configVars == <<endnames, connected, disk, saved, test, ops, late>>
allVars == <<rpcVars, configVars>>

Idle == [op |-> "idle", i |-> 1, restart |-> FALSE, todo |-> <<>>]

Current(i) == <<i, endnames[i]>>
Saved(i) == IF saved[i] = None THEN disk[Current(i)] ELSE saved[i]

(***************************************************************************)
(* The ends from and to i, in the order config.go goes through them.       *)
(***************************************************************************)
Incoming(i) ==             \* mutant: the ends of the others only
  [k \in 1..N |-> <<k, endnames[k], i>>]

Links(i) ==
  [k \in 1..(2 * N) |-> IF k <= N THEN <<i, endnames[i], k>>
                        ELSE <<k - N, endnames[k - N], i>>]

Do(op) == test' = [test EXCEPT !.op = op]

-----------------------------------------------------------------------------
(***************************************************************************)
(* An instance, the current one of its server or an earlier one, calls.    *)
(***************************************************************************)
InstanceCalls(c) ==
  \E i, j \in Names : \E g \in 1..endnames[i] :
    /\ i # j
    /\ Call(c, <<i, g, j>>)
    /\ late' = IF g < endnames[i] THEN late \cup {c} ELSE late
    /\ UNCHANGED <<endnames, connected, disk, saved, test, ops>>

HandlerPersists(c) ==
  /\ Execute(c)
  /\ disk' = [disk EXCEPT ![call[c].inst] = @ \cup {c}]
  /\ UNCHANGED <<endnames, connected, saved, test, ops, late>>

NetworkStep ==
  /\ \/ \E c \in Calls : Deliver(c)
     \/ StopReceiving
  /\ UNCHANGED configVars

-----------------------------------------------------------------------------
(***************************************************************************)
(* connect, disconnect, crash1 and start1 begin; the last three disconnect *)
(* the server first.  The ends are enabled and disabled one by one; a      *)
(* connect passes over those of servers that are not connected.            *)
(***************************************************************************)
Begin(op, i, restart, links) ==
  /\ test.op = "idle" /\ ~done
  /\ ops < MaxOps
  /\ ops' = ops + 1
  /\ test' = [op |-> op, i |-> i, restart |-> restart, todo |-> links]
  /\ UNCHANGED <<rpcVars, endnames, disk, saved, late>>

BeginConnect(i) ==
  /\ connected' = connected \cup {i}
  /\ Begin("connect", i, FALSE, Links(i))

BeginDisconnect(i) ==
  /\ connected' = connected \ {i}
  /\ Begin("disconnect", i, FALSE, Links(i))

BeginCrash(i, restart) ==
  /\ restart => endnames[i] < MaxGen
  /\ connected' = connected \ {i}
  /\ Begin("crash", i, restart, Links(i))

Wanted(e) == test.op = "connect" => e[1] \in connected /\ e[3] \in connected

EnableNext ==
  /\ test.todo # <<>>
  /\ IF Wanted(Head(test.todo))
     THEN Enable(Head(test.todo), test.op = "connect")
     ELSE UNCHANGED rpcVars
  /\ test' = [test EXCEPT !.todo = Tail(@)]
  /\ UNCHANGED <<endnames, connected, disk, saved, ops, late>>

EndConnect ==
  /\ test.op \in {"connect", "disconnect"} /\ test.todo = <<>>
  /\ test' = Idle
  /\ UNCHANGED <<rpcVars, endnames, connected, disk, saved, ops, late>>

(***************************************************************************)
(* crash1 goes on: the server is deleted; then its persister is copied and *)
(* the instance killed, and the copy once more copied.                     *)
(***************************************************************************)
CrashDelete ==
  /\ test.op = "crash" /\ test.todo = <<>>
  /\ DeleteServer(test.i)
  /\ Do("deleted")
  /\ UNCHANGED <<endnames, connected, disk, saved, ops, late>>

CrashOnly ==               \* mutant: crash1 leaves the persister alone
  /\ test.op = "deleted"
  /\ IF test.restart THEN Do("ends") ELSE test' = Idle
  /\ UNCHANGED <<rpcVars, endnames, connected, disk, saved, ops, late>>

CrashCopy ==
  /\ test.op = "deleted"
  /\ saved' = [saved EXCEPT ![test.i] = Saved(test.i)]
  /\ IF test.restart THEN Do("ends") ELSE test' = Idle
  /\ UNCHANGED <<rpcVars, endnames, connected, disk, ops, late>>

(***************************************************************************)
(* start1 goes on: new ends, all connected; a new instance, on a copy of   *)
(* the persister; and a new server of the old name.                        *)
(***************************************************************************)
Fresh(i) == endnames[i] + 1

StartEnds ==
  LET i == test.i
  IN /\ test.op = "ends"
     /\ endnames' = [endnames EXCEPT ![i] = Fresh(i)]
     /\ connections' = [e \in Ends |-> IF e[1] = i /\ e[2] = Fresh(i)
                                       THEN e[3] ELSE connections[e]]
     /\ Do("make")
     /\ UNCHANGED <<enabled, servers, reliable, longReordering, done,
                    receiving, call, connected, disk, saved, ops, late>>

StartMake ==
  LET i == test.i
  IN /\ test.op = "make"
     /\ disk' = [disk EXCEPT ![Current(i)] = saved[i]]
     /\ saved' = [saved EXCEPT ![i] = None]
     /\ Do("add")
     /\ UNCHANGED <<rpcVars, endnames, connected, ops, late>>

StartAdd ==
  /\ test.op = "add"
  /\ AddServer(test.i, Current(test.i))
  /\ test' = Idle
  /\ UNCHANGED <<endnames, connected, disk, saved, ops, late>>

(***************************************************************************)
(* setunreliable and setlongreordering; cleanup ends the test.             *)
(***************************************************************************)
Disturb ==
  /\ test.op = "idle" /\ ~done
  /\ ops < MaxOps
  /\ ops' = ops + 1
  /\ \/ Configure(FALSE, longReordering)
     \/ Configure(reliable, TRUE)
  /\ UNCHANGED <<endnames, connected, disk, saved, test, late>>

EndTest ==
  /\ test.op = "idle"
  /\ Cleanup
  /\ UNCHANGED configVars

-----------------------------------------------------------------------------
(***************************************************************************)
(* make_config starts all servers and connects them.                       *)
(***************************************************************************)
MakeConfig ==
  /\ endnames = [i \in Names |-> 1]
  /\ connected = Names
  /\ disk = [p \in Instances |-> {}]
  /\ saved = [i \in Names |-> None]
  /\ test = Idle
  /\ ops = 0
  /\ late = {}
  /\ enabled = {e \in Ends : e[2] = 1}
  /\ connections = [e \in Ends |-> IF e[2] = 1 THEN e[3] ELSE None]
  /\ servers = [s \in Names |-> <<s, 1>>]
  /\ reliable \in BOOLEAN
  /\ longReordering = FALSE
  /\ done = FALSE
  /\ receiving = TRUE
  /\ call = [c \in Calls |-> NoCall]

TestStep ==
  \/ \E i \in Names :
       \/ BeginConnect(i) \/ BeginDisconnect(i)
       \/ BeginCrash(i, FALSE) \/ BeginCrash(i, TRUE)
  \/ EnableNext \/ EndConnect \/ CrashDelete \/ CrashCopy \/ StartEnds
  \/ StartMake \/ StartAdd \/ Disturb \/ EndTest

ConfigNext ==
  \/ \E c \in Calls : InstanceCalls(c) \/ HandlerPersists(c)
  \/ NetworkStep
  \/ TestStep

ConfigSpec == MakeConfig /\ [][ConfigNext]_allVars

FairConfigSpec ==
  /\ ConfigSpec
  /\ \A c \in Calls : WF_allVars(Deliver(c) /\ UNCHANGED configVars)
  /\ \A c \in Calls \ Stuck : WF_allVars(HandlerPersists(c))

-----------------------------------------------------------------------------
(***************************************************************************)
(* labrpc.go, on the second look at the server: "this is needed to avoid   *)
(* situation in which a client gets a positive reply to an Append, but the *)
(* server persisted the update into the old Persister."  A call that       *)
(* returned true is remembered by what the harness has saved of the        *)
(* server, whatever crashed and restarted before or since.                 *)
(***************************************************************************)
PositiveReplyIsSaved ==
  \A c \in Calls : call[c].st = "ok" => c \in Saved(call[c].srv)

(***************************************************************************)
(* config.go, start1: "a fresh set of outgoing ClientEnd names. so that    *)
(* old crashed instance's ClientEnds can't send": what an instance sends   *)
(* after its successor's ends were made is executed by no server.          *)
(***************************************************************************)
OldInstancesAreCutOff == \A c \in late : call[c].h = "none"

(***************************************************************************)
(* config.go, start1: "a fresh persister, so old instance doesn't          *)
(* overwrite new instance's persisted state": a step changes what is saved *)
(* of a server only if it is a handler of the server's latest instance.    *)
(***************************************************************************)
OnlyLatestPersists ==
  [][\A i \in Names : Saved(i)' # Saved(i) =>
       \E c \in Calls : /\ call[c].h = "run" /\ call'[c].h = "done"
                        /\ call[c].inst = Current(i)]_allVars
=============================================================================
