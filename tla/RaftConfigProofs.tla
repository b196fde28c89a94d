-------------------------- MODULE RaftConfigProofs --------------------------
(***************************************************************************)
(* Proofs about the Raft test harness on the simulated network, for any    *)
(* number of servers, instances and calls: a call that returned true is    *)
(* remembered by what the harness has saved of the server, an instance     *)
(* that a crash has replaced no longer reaches anyone, and the network     *)
(* implements its contract.                                                *)
(***************************************************************************)
EXTENDS RaftConfig, TLAPS

(***************************************************************************)
(* The prover of the leaves that do not name one: those with arithmetic    *)
(* name SMT.                                                               *)
(***************************************************************************)
USE ZenonT(30)

(***************************************************************************)
(* The types of what the steps change.                                     *)
(***************************************************************************)
CallType ==
  [st : States, end : Ends \cup {None}, srv : Names \cup {None},
   inst : Instances \cup {None}, rel : BOOLEAN, reord : BOOLEAN,
   h : {"none", "run", "done"}]

Ops == {"idle", "connect", "disconnect", "crash", "deleted", "ends", "make",
        "add"}

Types ==
  /\ call \in [Calls -> CallType]
  /\ connections \in [Ends -> Names \cup {None}]
  /\ servers \in [Names -> Instances \cup {None}]
  /\ reliable \in BOOLEAN /\ longReordering \in BOOLEAN
  /\ endnames \in [Names -> 1..MaxGen]
  /\ disk \in [Instances -> SUBSET Calls]
  /\ saved \in [Names -> {None} \cup SUBSET Calls]
  /\ test = [op |-> test.op, i |-> test.i, restart |-> test.restart,
             todo |-> test.todo]
  /\ test.op \in Ops /\ test.i \in Names /\ test.restart \in BOOLEAN

(***************************************************************************)
(* The handler runs after the request was dispatched, to an instance that  *)
(* existed then, and its result is there before the answer is.             *)
(***************************************************************************)
Order ==
  \A c \in Calls :
    /\ call[c].st # "idle" => call[c].end \in Ends
    /\ call[c].st \in {"idle", "sending", "taken", "timeout", "dispatch"}
         => call[c].h = "none"
    /\ call[c].st \in {"replied", "delayed", "ok"} => call[c].h = "done"
    /\ call[c].h # "none" => call[c].inst # None
    /\ call[c].st = "dispatch" => call[c].inst # None
    /\ call[c].inst # None => /\ call[c].srv \in Names
                              /\ call[c].inst[1] = call[c].srv
                              /\ call[c].inst[2] <= endnames[call[c].srv]

(***************************************************************************)
(* A registered instance is the latest one of its server and still owns    *)
(* the server's persister; where the test has crashed a server it is not   *)
(* registered, and from the copy on the persister is the harness's.        *)
(***************************************************************************)
Registered ==
  /\ \A s \in Names : servers[s] # None => /\ servers[s] = Current(s)
                                           /\ saved[s] = None
  /\ test.op \in {"deleted", "ends", "make", "add"} => servers[test.i] = None
  /\ test.op \in {"ends", "make"} => saved[test.i] # None
  /\ test.op = "add" => saved[test.i] = None
  /\ test.op \in {"crash", "deleted"} /\ test.restart
       => endnames[test.i] < MaxGen
  /\ test.op = "ends" => endnames[test.i] < MaxGen

(***************************************************************************)
(* No call has reached an instance that is not registered yet.             *)
(***************************************************************************)
Unused ==
  test.op \in {"make", "add"} =>
    \A c \in Calls : call[c].inst # Current(test.i)

(***************************************************************************)
(* What a handler did is in the persister of its instance; what was        *)
(* answered is in what the harness would restart the server from.          *)
(***************************************************************************)
Persisted ==
  \A c \in Calls :
    /\ call[c].h = "done" => c \in disk[call[c].inst]
    /\ call[c].st \in {"delayed", "ok"} => c \in Saved(call[c].srv)

IndInv == Types /\ Order /\ Registered /\ Unused /\ Persisted

USE LabRpcAssumption, RaftConfigAssumption

(* The invariant holds when make_config is done.                           *)
LEMMA InitIndInv == MakeConfig => IndInv
<1> SUFFICES ASSUME MakeConfig PROVE IndInv
  OBVIOUS
<1>1. NoCall \in CallType
  BY DEF CallType, NoCall, States
<1>2. Types
  <2>1. call \in [Calls -> CallType]
    BY <1>1 DEF MakeConfig
  <2>2. connections \in [Ends -> Names \cup {None}]
    BY DEF MakeConfig
  <2>3. servers \in [Names -> Instances \cup {None}]
    BY SMTT(30) DEF MakeConfig
  <2>4. /\ endnames \in [Names -> 1..MaxGen]
        /\ disk \in [Instances -> SUBSET Calls]
        /\ saved \in [Names -> {None} \cup SUBSET Calls]
    BY SMTT(30) DEF MakeConfig
  <2>5. /\ test = [op |-> test.op, i |-> test.i, restart |-> test.restart,
                   todo |-> test.todo]
        /\ test.op \in Ops /\ test.i \in Names /\ test.restart \in BOOLEAN
    BY SMTT(30) DEF MakeConfig, Idle, Ops
  <2> QED
    BY <2>1, <2>2, <2>3, <2>4, <2>5 DEF MakeConfig, Types
<1>3. Order /\ Unused /\ Persisted
  BY DEF MakeConfig, Order, Unused, Persisted, NoCall, Idle
<1>4. Registered
  BY DEF MakeConfig, Registered, Idle, Current
<1> QED
  BY <1>2, <1>3, <1>4 DEF IndInv

-----------------------------------------------------------------------------
(***************************************************************************)
(* A step that replaces what is known of one call.                         *)
(***************************************************************************)
Settled(c, r) ==
  /\ r \in CallType
  /\ r.st # "idle" => r.end \in Ends
  /\ r.st \in {"idle", "sending", "taken", "timeout", "dispatch"}
       => r.h = "none"
  /\ r.st \in {"replied", "delayed", "ok"} => r.h = "done"
  /\ r.h # "none" => r.inst # None
  /\ r.st = "dispatch" => r.inst # None
  /\ r.inst # None => /\ r.srv \in Names
                      /\ r.inst[1] = r.srv
                      /\ r.inst[2] <= endnames[r.srv]
  /\ test.op \in {"make", "add"} => r.inst # Current(test.i)
  /\ r.h = "done" => c \in disk[r.inst]
  /\ r.st \in {"delayed", "ok"} => c \in Saved(r.srv)

(* The invariant says of every call that it is settled.                    *)
LEMMA CallIsSettled ==
  ASSUME IndInv, NEW c \in Calls
  PROVE  Settled(c, call[c])
<1>1. call[c] \in CallType
  BY DEF IndInv, Types
<1> QED
  BY <1>1 DEF IndInv, Order, Unused, Persisted, Settled

(* A step of one call that leaves it settled keeps the invariant.          *)
LEMMA CallStep ==
  ASSUME IndInv, NEW c \in Calls, NEW r, Settled(c, r),
         call' = [call EXCEPT ![c] = r],
         UNCHANGED <<connections, servers, reliable, longReordering,
                     endnames, disk, saved, test>>
  PROVE  IndInv'
<1> USE DEF IndInv
<1>1. \A d \in Calls : call'[d] = IF d = c THEN r ELSE call[d]
  BY DEF Types
<1>2. Types'
  BY DEF Types, Settled
<1>3. Order'
  BY SMTT(30), <1>1 DEF Order, Settled
<1>4. Registered'
  BY DEF Registered, Current
<1>5. Unused'
  BY SMTT(30), <1>1 DEF Unused, Settled, Current
<1>6. Persisted'
  BY SMTT(30), <1>1 DEF Persisted, Settled, Saved, Current
<1> QED
  BY <1>2, <1>3, <1>4, <1>5, <1>6

(* An instance makes a call.                                               *)
LEMMA CallsStep ==
  ASSUME IndInv, NEW c \in Calls, NEW e \in Ends, Call(c, e),
         UNCHANGED <<endnames, disk, saved, test>>
  PROVE  IndInv'
<1> DEFINE r == [call[c] EXCEPT !.st = "sending", !.end = e]
<1>1. Settled(c, call[c])
  BY CallIsSettled
<1>2. Settled(c, r)
  BY <1>1 DEF Settled, Call, CallType, States
<1>3. call' = [call EXCEPT ![c] = r]
  BY DEF Call, IndInv, Types
<1> HIDE DEF r
<1> QED
  BY <1>2, <1>3, CallStep DEF Call, netVars

(***************************************************************************)
(* An instance that readEndnameInfo finds is the latest of its server, and *)
(* an answer of one that is still registered is in its own persister.      *)
(***************************************************************************)
LEMMA DeliverStep ==
  ASSUME IndInv, NEW c \in Calls, Deliver(c), UNCHANGED configVars
  PROVE  IndInv'
<1> DEFINE To(st) == [call[c] EXCEPT !.st = st]
<1>1. Settled(c, call[c])
  BY CallIsSettled
<1>2. UNCHANGED <<connections, servers, reliable, longReordering,
                  endnames, disk, saved, test>>
  BY DEF Deliver, Abort, Take, ReadEndnameInfo, NotDelivered, StartHandler,
         GetReply, FindDead, Answer, DelayedAnswer, netVars, configVars
<1>3. \A st : Goto(c, st) => call' = [call EXCEPT ![c] = To(st)]
  BY DEF Goto, IndInv, Types
<1>4. ASSUME NEW st \in {"failed", "taken", "timeout"}, Goto(c, st),
             call[c].st # "idle",
             st \in {"taken", "timeout"} => call[c].h = "none"
      PROVE  IndInv'
  <2>1. Settled(c, To(st))
    BY <1>1, <1>4 DEF Settled, CallType, States
  <2>2. call' = [call EXCEPT ![c] = To(st)]
    BY <1>3, <1>4
  <2> HIDE DEF To
  <2> QED
    BY <1>2, <2>1, <2>2, CallStep
<1>5. ASSUME NEW st \in {"replied", "delayed", "ok"}, Goto(c, st),
             call[c].h = "done",
             st \in {"delayed", "ok"} => c \in Saved(call[c].srv)
      PROVE  IndInv'
  <2>1. Settled(c, To(st))
    BY <1>1, <1>5 DEF Settled, CallType, States
  <2>2. call' = [call EXCEPT ![c] = To(st)]
    BY <1>3, <1>5
  <2> HIDE DEF To
  <2> QED
    BY <1>2, <2>1, <2>2, CallStep
<1>6. CASE Abort(c) \/ NotDelivered(c) \/ FindDead(c)
  BY <1>4, <1>6 DEF Abort, NotDelivered, FindDead
<1>7. CASE Take(c)
  BY <1>1, <1>4, <1>7 DEF Take, Settled
<1>8. CASE ReadEndnameInfo(c)
  <2> DEFINE e == call[c].end
             s == connections[e]
             r == [call[c] EXCEPT !.st = "dispatch", !.srv = s,
                     !.inst = servers[s], !.rel = reliable,
                     !.reord = longReordering]
  <2>1. call[c].st = "taken" /\ call[c].h = "none"
    BY <1>1, <1>8 DEF ReadEndnameInfo, Settled
  <2>2. CASE ~Reachable(e)
    BY <1>4, <1>8, <2>1, <2>2 DEF ReadEndnameInfo
  <2>3. CASE Reachable(e)
    <3>1. e \in Ends /\ s \in Names /\ servers[s] \in Instances
      BY <1>1, <2>1, <2>3 DEF Settled, Reachable, IndInv, Types
    <3>2. servers[s] = <<s, endnames[s]>> /\ saved[s] = None
      BY <2>3, <3>1 DEF Reachable, IndInv, Registered, Current
    <3>3. test.op \in {"make", "add"} => servers[s] # Current(test.i)
      <4> SUFFICES ASSUME test.op \in {"make", "add"},
                          servers[s] = Current(test.i)
                   PROVE  FALSE
        OBVIOUS
      <4>1. s = test.i
        BY SMTT(30), <3>2 DEF Current
      <4>2. servers[test.i] = None
        BY DEF IndInv, Registered
      <4> QED
        BY <3>1, <4>1, <4>2
    <3> /\ reliable \in BOOLEAN /\ longReordering \in BOOLEAN
        /\ call \in [Calls -> CallType]
      BY DEF IndInv, Types
    <3>4. r \in CallType
      BY <1>1, <3>1 DEF Settled, CallType, States
    <3>5. /\ r.st = "dispatch" /\ r.h = "none" /\ r.srv = s
          /\ r.inst = servers[s] /\ r.end = e
      BY <1>1, <2>1 DEF Settled, CallType
    <3>6. endnames[s] \in Nat
      <4>1. endnames[s] \in 1..MaxGen
        BY <3>1 DEF IndInv, Types
      <4> QED
        BY SMTT(30), <4>1
    <3>7. Settled(c, r)
      <4> HIDE DEF r
      <4> QED
        BY SMTT(30), <3>1, <3>2, <3>3, <3>4, <3>5, <3>6 DEF Settled
    <3>8. call' = [call EXCEPT ![c] = r]
      BY <1>8, <2>3 DEF ReadEndnameInfo
    <3> HIDE DEF r
    <3> QED
      BY <1>2, <3>7, <3>8, CallStep
  <2> QED
    BY <2>2, <2>3
<1>9. CASE StartHandler(c)
  <2> DEFINE r == [call[c] EXCEPT !.st = "waiting", !.h = "run"]
  <2>1. Settled(c, r)
    BY <1>1, <1>9 DEF StartHandler, Settled, CallType, States
  <2>2. call' = [call EXCEPT ![c] = r]
    BY <1>9 DEF StartHandler, IndInv, Types
  <2> HIDE DEF r
  <2> QED
    BY <1>2, <2>1, <2>2, CallStep
<1>10. CASE GetReply(c)
  BY <1>5, <1>10 DEF GetReply
<1>11. CASE Answer(c)
  <2>1. call[c].h = "done"
    BY <1>1, <1>11 DEF Answer, Settled
  <2>2. ASSUME ~IsServerDead(c) PROVE c \in Saved(call[c].srv)
    <3> DEFINE s == call[c].srv
    <3>1. s \in Names /\ call[c].inst # None /\ c \in disk[call[c].inst]
      BY <1>1, <2>1 DEF Settled
    <3>2. servers[s] = call[c].inst
      BY <2>2 DEF IsServerDead
    <3>3. servers[s] = Current(s) /\ saved[s] = None
      BY <3>1, <3>2 DEF IndInv, Registered
    <3> QED
      BY <3>1, <3>2, <3>3 DEF Saved
  <2>3. CASE Goto(c, "failed")
    BY <1>4, <1>11, <2>3 DEF Answer
  <2>4. CASE ~IsServerDead(c) /\ (Goto(c, "delayed") \/ Goto(c, "ok"))
    BY <1>5, <2>1, <2>2, <2>4
  <2> QED
    BY <1>11, <2>3, <2>4 DEF Answer
<1>12. CASE DelayedAnswer(c)
  <2>1. call[c].h = "done" /\ c \in Saved(call[c].srv)
    BY <1>1, <1>12 DEF DelayedAnswer, Settled
  <2> QED
    BY <1>5, <1>12, <2>1 DEF DelayedAnswer
<1> QED
  BY <1>6, <1>7, <1>8, <1>9, <1>10, <1>11, <1>12 DEF Deliver

(***************************************************************************)
(* A handler writes to the persister of its own instance: what that adds   *)
(* takes nothing away from any server.                                     *)
(***************************************************************************)
LEMMA PersistStep ==
  ASSUME IndInv, NEW c \in Calls, HandlerPersists(c)
  PROVE  IndInv'
<1> DEFINE r == [call[c] EXCEPT !.h = "done"]
           p == call[c].inst
<1> USE DEF IndInv
<1>1. Settled(c, call[c])
  BY CallIsSettled
<1>2. /\ call[c].h = "run" /\ p \in Instances
      /\ call' = [call EXCEPT ![c] = r]
      /\ disk' = [disk EXCEPT ![p] = @ \cup {c}]
      /\ UNCHANGED <<connections, servers, reliable, longReordering,
                     endnames, saved, test>>
  BY <1>1 DEF HandlerPersists, Execute, netVars, Settled, CallType, Types
<1>3. /\ r \in CallType /\ r.h = "done"
      /\ r.st = call[c].st /\ r.inst = p /\ r.srv = call[c].srv
      /\ r.end = call[c].end
  BY <1>1 DEF Settled, CallType
<1> HIDE DEF r
<1>4. \A d \in Calls : call'[d] = IF d = c THEN r ELSE call[d]
  BY <1>2 DEF Types
<1>5. \A q \in Instances : disk[q] \subseteq disk'[q]
  BY <1>2 DEF Types
<1>6. Types'
  <2>1. call' \in [Calls -> CallType]
    BY <1>2, <1>3 DEF Types
  <2>2. disk' \in [Instances -> SUBSET Calls]
    BY SMTT(30), <1>2 DEF Types
  <2> QED
    BY <1>2, <2>1, <2>2 DEF Types
<1>7. Order'
  BY SMTT(30), <1>1, <1>2, <1>3, <1>4 DEF Order, Settled
<1>8. Registered' /\ Unused'
  BY SMTT(30), <1>2, <1>3, <1>4 DEF Registered, Unused, Current
<1>9. \A s \in Names : Saved(s) \subseteq Saved(s)'
  BY <1>2, <1>5 DEF Saved, Current, Types
<1>10. Persisted'
  <2> SUFFICES ASSUME NEW d \in Calls
               PROVE  /\ call'[d].h = "done" => d \in disk'[call'[d].inst]
                      /\ call'[d].st \in {"delayed", "ok"}
                           => d \in Saved(call[d].srv)'
    BY DEF Persisted
  <2>1. Settled(d, call[d])
    BY CallIsSettled
  <2>2. call'[d].inst = call[d].inst /\ call'[d].srv = call[d].srv
        /\ call'[d].st = call[d].st
    BY <1>3, <1>4
  <2>3. CASE d = c
    <3>1. d \in disk'[call'[d].inst]
      BY <1>2, <2>2, <2>3 DEF Types
    <3>2. call'[d].st \in {"delayed", "ok"} => d \in Saved(call[d].srv)'
      BY <1>9, <2>1, <2>2 DEF Settled
    <3> QED
      BY <2>2, <3>1, <3>2
  <2>4. CASE d # c
    <3>1. call'[d].h = "done" => d \in disk'[call'[d].inst]
      BY <1>4, <1>5, <2>1, <2>4 DEF Settled, CallType
    <3>2. call'[d].st \in {"delayed", "ok"} => d \in Saved(call[d].srv)'
      BY <1>9, <2>1, <2>2 DEF Settled
    <3> QED
      BY <2>2, <3>1, <3>2
  <2> QED
    BY <2>3, <2>4
<1> QED
  BY <1>6, <1>7, <1>8, <1>10

-----------------------------------------------------------------------------
(***************************************************************************)
(* The steps of the test leave the calls alone, and what is saved of a     *)
(* server is the same before and after each of them.                       *)
(***************************************************************************)
SameSaved == \A s \in Names : Saved(s)' = Saved(s)

(* A step of the harness that keeps the types, the registrations and the   *)
(* instances to come keeps the invariant.                                  *)
LEMMA TestKeeps ==
  ASSUME IndInv, UNCHANGED call, Types', Registered', Unused', SameSaved,
         \A s \in Names : endnames[s] <= endnames'[s],
         \A c \in Calls :
           call[c].h = "done" => disk'[call[c].inst] = disk[call[c].inst]
  PROVE  IndInv'
<1>1. \A s \in Names : endnames[s] \in Nat /\ endnames'[s] \in Nat
  BY SMTT(30) DEF IndInv, Types
<1>2. \A c \in Calls : call[c].inst # None => call[c].inst \in Instances
  BY DEF IndInv, Types, CallType
<1>3. Order'
  BY SMTT(30), <1>1, <1>2 DEF IndInv, Order
<1>4. \A c \in Calls : call[c].st \in {"delayed", "ok"} =>
        call[c].srv \in Names
  BY DEF IndInv, Order
<1>5. Persisted'
  BY <1>4 DEF IndInv, Persisted, SameSaved
<1> QED
  BY <1>3, <1>5 DEF IndInv

(* The harness begins an operation.                                        *)
LEMMA BeginStep ==
  ASSUME IndInv, NEW i \in Names, NEW op \in {"connect", "disconnect", "crash"},
         NEW restart \in BOOLEAN, NEW links, Begin(op, i, restart, links),
         op = "crash" /\ restart => endnames[i] < MaxGen
  PROVE  IndInv' /\ SameSaved
<1>1. /\ UNCHANGED <<call, connections, servers, reliable, longReordering,
                     endnames, disk, saved>>
      /\ test' = [op |-> op, i |-> i, restart |-> restart, todo |-> links]
  BY DEF Begin, rpcVars, netVars
<1>2. /\ test'.op = op /\ test'.i = i /\ test'.restart = restart
      /\ test'.todo = links
  BY <1>1
<1>3. Types'
  BY <1>1, <1>2 DEF IndInv, Types, Ops
<1>4. Registered' /\ Unused'
  BY <1>1, <1>2 DEF IndInv, Registered, Unused, Current
<1>5. SameSaved
  BY <1>1 DEF SameSaved, Saved, Current
<1>6. \A s \in Names : endnames[s] <= endnames'[s]
  BY SMTT(30), <1>1 DEF IndInv, Types
<1> QED
  BY <1>1, <1>3, <1>4, <1>5, <1>6, TestKeeps

(* The harness's state after the end of an operation,                      *)
LEMMA ToIdle ==
  ASSUME test' = Idle
  PROVE  /\ test' = [op |-> test'.op, i |-> test'.i,
                     restart |-> test'.restart, todo |-> test'.todo]
         /\ test'.op = "idle" /\ test'.i \in Names
         /\ test'.restart \in BOOLEAN
<1>1. /\ test'.op = "idle" /\ test'.i = 1 /\ test'.restart = FALSE
      /\ test'.todo = <<>>
  BY DEF Idle
<1>2. 1 \in Names
  BY SMTT(30)
<1> QED
  BY <1>1, <1>2 DEF Idle

(***************************************************************************)
(* The steps that change neither servers nor persisters.                   *)
(***************************************************************************)
LEMMA QuietStep ==
  ASSUME IndInv, EnableNext \/ EndConnect \/ Disturb \/ EndTest
  PROVE  IndInv' /\ SameSaved
<1>1. /\ UNCHANGED <<call, connections, servers, endnames, disk, saved>>
      /\ reliable' \in BOOLEAN /\ longReordering' \in BOOLEAN
      /\ \/ test' = Idle
         \/ test' = [test EXCEPT !.todo = Tail(@)]
         \/ test' = test
  BY DEF EnableNext, EndConnect, Disturb, EndTest, Enable, Configure,
         Cleanup, rpcVars, netVars, configVars, IndInv, Types
<1>2. /\ test' = [op |-> test'.op, i |-> test'.i,
                  restart |-> test'.restart, todo |-> test'.todo]
      /\ \/ test'.op = "idle" /\ test'.i \in Names
            /\ test'.restart \in BOOLEAN
         \/ test'.op = test.op /\ test'.i = test.i
            /\ test'.restart = test.restart
  <2>1. test = [op |-> test.op, i |-> test.i, restart |-> test.restart,
                todo |-> test.todo]
    BY DEF IndInv, Types
  <2>2. CASE test' = Idle
    BY <2>2, ToIdle
  <2>3. CASE test' = [test EXCEPT !.todo = Tail(@)]
    BY <2>1, <2>3
  <2>4. CASE test' = test
    BY <2>1, <2>4
  <2> QED
    BY <1>1, <2>2, <2>3, <2>4
<1>3. Types'
  BY <1>1, <1>2 DEF IndInv, Types, Ops
<1>4. Registered' /\ Unused'
  BY SMTT(30), <1>1, <1>2 DEF IndInv, Registered, Unused, Current
<1>5. SameSaved
  BY <1>1 DEF SameSaved, Saved, Current
<1>6. \A s \in Names : endnames[s] <= endnames'[s]
  BY SMTT(30), <1>1 DEF IndInv, Types
<1> QED
  BY <1>1, <1>3, <1>4, <1>5, <1>6, TestKeeps

(* and after a step from one part of it to the next.                       *)
LEMMA ToOp ==
  ASSUME IndInv, NEW op \in Ops, Do(op)
  PROVE  /\ test' = [op |-> op, i |-> test.i, restart |-> test.restart,
                     todo |-> test.todo]
         /\ test'.op = op /\ test'.i = test.i
         /\ test'.restart = test.restart /\ test'.todo = test.todo
BY DEF Do, IndInv, Types

(***************************************************************************)
(* crash1: Saved is the same whether it is the instance's or a copy.       *)
(***************************************************************************)
LEMMA CrashStep ==
  ASSUME IndInv, CrashDelete \/ CrashCopy
  PROVE  IndInv' /\ SameSaved
<1> DEFINE i == test.i
<1>1. i \in Names /\ Current(i) \in Instances /\ endnames[i] \in Nat
  BY SMTT(30) DEF IndInv, Types, Current
<1>2. CASE CrashDelete
  <2>1. /\ UNCHANGED <<call, connections, reliable, longReordering,
                       endnames, disk, saved>>
        /\ servers' = [servers EXCEPT ![i] = None]
        /\ test.op = "crash" /\ Do("deleted")
    BY <1>2 DEF CrashDelete, DeleteServer
  <2>2. /\ test' = [op |-> "deleted", i |-> i, restart |-> test.restart,
                    todo |-> test.todo]
        /\ test'.op = "deleted" /\ test'.i = i
        /\ test'.restart = test.restart /\ test'.todo = test.todo
    BY <2>1, ToOp DEF Ops
  <2>3. Types'
    BY <1>1, <2>1, <2>2 DEF IndInv, Types, Ops
  <2>4. Registered' /\ Unused'
    BY <1>1, <2>1, <2>2 DEF IndInv, Types, Registered, Unused, Current
  <2>5. SameSaved
    BY <2>1 DEF SameSaved, Saved, Current
  <2>6. \A s \in Names : endnames[s] <= endnames'[s]
    BY SMTT(30), <2>1 DEF IndInv, Types
  <2> QED
    BY <2>1, <2>3, <2>4, <2>5, <2>6, TestKeeps
<1>3. CASE CrashCopy
  <2>1. /\ UNCHANGED <<call, connections, servers, reliable, longReordering,
                       endnames, disk>>
        /\ saved' = [saved EXCEPT ![i] = Saved(i)]
        /\ test.op = "deleted"
    BY <1>3 DEF CrashCopy, rpcVars, netVars
  <2>2. /\ test' = [op |-> test'.op, i |-> test'.i,
                    restart |-> test'.restart, todo |-> test'.todo]
        /\ \/ test'.op = "idle" /\ test'.i \in Names
              /\ test'.restart \in BOOLEAN
           \/ test'.op = "ends" /\ test'.i = i
              /\ test'.restart = test.restart /\ test.restart
    <3>1. CASE test.restart
      BY <1>3, <3>1, ToOp DEF CrashCopy, Ops
    <3>2. CASE ~test.restart
      BY <1>3, <3>2, ToIdle DEF CrashCopy
    <3> QED
      BY <3>1, <3>2
  <2>3. Saved(i) \in SUBSET Calls /\ Saved(i) # None
    BY <1>1 DEF Saved, IndInv, Types
  <2>4. Types'
    BY <1>1, <2>1, <2>2, <2>3 DEF IndInv, Types, Ops
  <2>5. Registered' /\ Unused'
    BY <1>1, <2>1, <2>2, <2>3
       DEF IndInv, Types, Registered, Unused, Current
  <2>6. SameSaved
    BY <1>1, <2>1, <2>3 DEF SameSaved, Saved, Current, IndInv, Types
  <2>7. \A s \in Names : endnames[s] <= endnames'[s]
    BY SMTT(30), <2>1 DEF IndInv, Types
  <2> QED
    BY <2>1, <2>4, <2>5, <2>6, <2>7, TestKeeps
<1> QED
  BY <1>2, <1>3

(***************************************************************************)
(* start1: the new instance gets a copy of what was saved, before it can   *)
(* be called.                                                              *)
(***************************************************************************)
LEMMA StartStep ==
  ASSUME IndInv, StartEnds \/ StartMake \/ StartAdd
  PROVE  IndInv' /\ SameSaved
<1> DEFINE i == test.i
<1>1. i \in Names /\ Current(i) \in Instances /\ endnames[i] \in Nat
  BY SMTT(30) DEF IndInv, Types, Current
<1>2. CASE StartEnds
  <2>1. /\ UNCHANGED <<call, servers, reliable, longReordering, disk, saved>>
        /\ endnames' = [endnames EXCEPT ![i] = endnames[i] + 1]
        /\ test.op = "ends" /\ Do("make")
    BY <1>2 DEF StartEnds, Fresh
  <2>2. /\ test' = [op |-> "make", i |-> i, restart |-> test.restart,
                    todo |-> test.todo]
        /\ test'.op = "make" /\ test'.i = i
        /\ test'.restart = test.restart /\ test'.todo = test.todo
    BY <2>1, ToOp DEF Ops
  <2>3. saved[i] # None /\ servers[i] = None /\ endnames[i] < MaxGen
    BY <2>1 DEF IndInv, Registered
  <2>4. endnames' \in [Names -> 1..MaxGen]
    BY SMTT(30), <1>1, <2>1, <2>3 DEF IndInv, Types
  <2>5. connections' \in [Ends -> Names \cup {None}]
    BY <1>2 DEF StartEnds, IndInv, Types
  <2>6. Types'
    BY <1>1, <2>1, <2>2, <2>4, <2>5 DEF IndInv, Types, Ops
  <2>7. \A s \in Names : s # i => endnames'[s] = endnames[s]
    BY <2>1 DEF IndInv, Types
  <2>8. Registered'
    BY SMTT(30), <1>1, <2>1, <2>2, <2>3, <2>7 DEF IndInv, Registered, Current
  <2>9. Unused'
    <3> SUFFICES ASSUME NEW c \in Calls, call[c].inst = <<i, endnames[i] + 1>>
                 PROVE  FALSE
      BY <1>1, <2>1, <2>2 DEF Unused, Current, IndInv, Types
    <3>1. call[c].inst # None
      BY SMTT(30), <1>1, <2>2, <2>4, <2>1 DEF IndInv, Types
    <3>2. call[c].srv \in Names /\ call[c].inst[1] = call[c].srv
          /\ call[c].inst[2] <= endnames[call[c].srv]
      BY <3>1 DEF IndInv, Order
    <3> QED
      BY SMTT(30), <1>1, <3>2
  <2>10. SameSaved
    BY SMTT(30), <2>1, <2>3, <2>7 DEF SameSaved, Saved, Current
  <2>11. \A s \in Names : endnames[s] <= endnames'[s]
    BY SMTT(30), <1>1, <2>1 DEF IndInv, Types
  <2> QED
    BY <2>1, <2>6, <2>8, <2>9, <2>10, <2>11, TestKeeps
<1>3. CASE StartMake
  <2>1. /\ UNCHANGED <<call, connections, servers, reliable, longReordering,
                       endnames>>
        /\ disk' = [disk EXCEPT ![Current(i)] = saved[i]]
        /\ saved' = [saved EXCEPT ![i] = None]
        /\ test.op = "make" /\ Do("add")
    BY <1>3 DEF StartMake, rpcVars, netVars
  <2>2. /\ test' = [op |-> "add", i |-> i, restart |-> test.restart,
                    todo |-> test.todo]
        /\ test'.op = "add" /\ test'.i = i
        /\ test'.restart = test.restart /\ test'.todo = test.todo
    BY <2>1, ToOp DEF Ops
  <2>3. saved[i] # None /\ servers[i] = None /\ saved[i] \in SUBSET Calls
    BY <1>1, <2>1 DEF IndInv, Registered, Types
  <2>4. /\ disk' \in [Instances -> SUBSET Calls]
        /\ saved' \in [Names -> {None} \cup SUBSET Calls]
    BY <1>1, <2>1, <2>3 DEF IndInv, Types
  <2>5. Types'
    BY <1>1, <2>1, <2>2, <2>4 DEF IndInv, Types, Ops
  <2>6. Registered' /\ Unused'
    BY <1>1, <2>1, <2>2, <2>3
       DEF IndInv, Types, Registered, Unused, Current
  <2>7. SameSaved
    <3> SUFFICES ASSUME NEW s \in Names PROVE Saved(s)' = Saved(s)
      BY DEF SameSaved
    <3>1. CASE s = i
      <4>1. saved'[i] = None /\ disk'[Current(i)] = saved[i]
        BY <1>1, <2>1 DEF IndInv, Types
      <4>2. Current(i)' = Current(i)
        BY <2>1, <2>2 DEF Current
      <4> QED
        BY <2>1, <2>2, <2>3, <3>1, <4>1 DEF Saved, Current
    <3>2. CASE s # i
      <4>1. saved'[s] = saved[s]
        BY <2>1, <3>2 DEF IndInv, Types
      <4>2. Current(s) # Current(i) /\ Current(s) \in Instances
        BY <3>2 DEF Current, IndInv, Types
      <4>3. disk'[Current(s)] = disk[Current(s)]
        BY <2>1, <4>2 DEF IndInv, Types
      <4> QED
        BY <2>1, <4>1, <4>3 DEF Saved, Current
    <3> QED
      BY <3>1, <3>2
  <2>8. ASSUME NEW c \in Calls, call[c].h = "done"
        PROVE  disk'[call[c].inst] = disk[call[c].inst]
    <3>1. call[c].inst # Current(i) /\ call[c].inst \in Instances
      BY <2>1, <2>8 DEF IndInv, Unused, Order, Types, CallType
    <3> QED
      BY <2>1, <3>1 DEF IndInv, Types
  <2>9. \A s \in Names : endnames[s] <= endnames'[s]
    BY SMTT(30), <2>1 DEF IndInv, Types
  <2> QED
    BY <2>1, <2>5, <2>6, <2>7, <2>8, <2>9, TestKeeps
<1>4. CASE StartAdd
  <2>1. /\ UNCHANGED <<call, connections, reliable, longReordering,
                       endnames, disk, saved>>
        /\ servers' = [servers EXCEPT ![i] = Current(i)]
        /\ test.op = "add" /\ test' = Idle
    BY <1>4 DEF StartAdd, AddServer
  <2>2. /\ test' = [op |-> test'.op, i |-> test'.i,
                    restart |-> test'.restart, todo |-> test'.todo]
        /\ test'.op = "idle" /\ test'.i \in Names
        /\ test'.restart \in BOOLEAN
    BY <2>1, ToIdle
  <2>3. saved[i] = None
    BY <2>1 DEF IndInv, Registered
  <2>4. servers' \in [Names -> Instances \cup {None}]
    BY <1>1, <2>1 DEF IndInv, Types
  <2>5. Types'
    BY <2>1, <2>2, <2>4 DEF IndInv, Types, Ops
  <2>6. Registered' /\ Unused'
    BY <1>1, <2>1, <2>2, <2>3
       DEF IndInv, Types, Registered, Unused, Current
  <2>7. SameSaved
    BY <2>1 DEF SameSaved, Saved, Current
  <2>8. \A s \in Names : endnames[s] <= endnames'[s]
    BY SMTT(30), <2>1 DEF IndInv, Types
  <2> QED
    BY <2>1, <2>5, <2>6, <2>7, <2>8, TestKeeps
<1> QED
  BY <1>2, <1>3, <1>4

(* No step of the harness takes back what was saved.                       *)
LEMMA TestStepKeeps == IndInv /\ TestStep => IndInv' /\ SameSaved
<1> SUFFICES ASSUME IndInv, TestStep PROVE IndInv' /\ SameSaved
  OBVIOUS
<1>1. CASE \E i \in Names : \/ BeginConnect(i) \/ BeginDisconnect(i)
                            \/ BeginCrash(i, FALSE) \/ BeginCrash(i, TRUE)
  <2>1. PICK i \in Names : \/ BeginConnect(i) \/ BeginDisconnect(i)
                           \/ BeginCrash(i, FALSE) \/ BeginCrash(i, TRUE)
    BY <1>1
  <2>2. CASE BeginConnect(i)
    BY <2>2, BeginStep DEF BeginConnect
  <2>3. CASE BeginDisconnect(i)
    BY <2>3, BeginStep DEF BeginDisconnect
  <2>4. CASE BeginCrash(i, FALSE) \/ BeginCrash(i, TRUE)
    BY <2>4, BeginStep DEF BeginCrash
  <2> QED
    BY <2>1, <2>2, <2>3, <2>4
<1>2. CASE EnableNext \/ EndConnect \/ Disturb \/ EndTest
  BY <1>2, QuietStep
<1>3. CASE CrashDelete \/ CrashCopy
  BY <1>3, CrashStep
<1>4. CASE StartEnds \/ StartMake \/ StartAdd
  BY <1>4, StartStep
<1> QED
  BY <1>1, <1>2, <1>3, <1>4 DEF TestStep

(* Every step keeps the invariant,                                         *)
LEMMA NextIndInv == IndInv /\ [ConfigNext]_allVars => IndInv'
<1> SUFFICES ASSUME IndInv, [ConfigNext]_allVars PROVE IndInv'
  OBVIOUS
<1>1. ASSUME NEW c \in Calls, InstanceCalls(c) PROVE IndInv'
  <2>1. PICK i \in Names, j \in Names : \E g \in 1..endnames[i] :
          /\ Call(c, <<i, g, j>>)
          /\ UNCHANGED <<endnames, connected, disk, saved, test, ops>>
    BY <1>1 DEF InstanceCalls
  <2>2. PICK g \in 1..endnames[i] :
          /\ Call(c, <<i, g, j>>)
          /\ UNCHANGED <<endnames, connected, disk, saved, test, ops>>
    BY <2>1
  <2>3. endnames[i] \in 1..MaxGen
    BY DEF IndInv, Types
  <2>4. <<i, g, j>> \in Ends
    BY SMTT(30), <2>3
  <2> QED
    BY <2>2, <2>4, CallsStep
<1>2. ASSUME NEW c \in Calls, HandlerPersists(c) PROVE IndInv'
  BY <1>2, PersistStep
<1>3. CASE NetworkStep
  <2>1. ASSUME NEW c \in Calls, Deliver(c), UNCHANGED configVars
        PROVE  IndInv'
    BY <2>1, DeliverStep
  <2>2. CASE StopReceiving /\ UNCHANGED configVars
    BY <2>2 DEF StopReceiving, configVars, IndInv, Types, Order, Registered,
                Unused, Persisted, Saved, Current
  <2> QED
    BY <1>3, <2>1, <2>2 DEF NetworkStep
<1>4. CASE TestStep
  BY <1>4, TestStepKeeps
<1>5. CASE UNCHANGED allVars
  BY <1>5 DEF allVars, rpcVars, netVars, configVars, IndInv, Types, Order,
              Registered, Unused, Persisted, Saved, Current
<1> QED
  BY <1>1, <1>2, <1>3, <1>4, <1>5 DEF ConfigNext

(* so it holds in all reachable states.                                    *)
LEMMA IndInvHolds == ConfigSpec => []IndInv
<1> QED
  BY InitIndInv, NextIndInv, PTL DEF ConfigSpec

-----------------------------------------------------------------------------
(***************************************************************************)
(* What a caller was told has been done survives every crash: with any     *)
(* number of servers, restarts and calls, a call that returned true is     *)
(* remembered by what the harness has saved of the server.                 *)
(***************************************************************************)
THEOREM RepliesAreSaved == ConfigSpec => []PositiveReplyIsSaved
<1>1. IndInv => PositiveReplyIsSaved
  BY DEF IndInv, Persisted, PositiveReplyIsSaved
<1> QED
  BY <1>1, IndInvHolds, PTL

(***************************************************************************)
(* An earlier instance of a server, which can not be stopped, never        *)
(* changes what the harness has saved of the server.                       *)
(***************************************************************************)
THEOREM LatestPersists == ConfigSpec => OnlyLatestPersists
<1> DEFINE Own == \A i \in Names : Saved(i)' # Saved(i) =>
                    \E c \in Calls : /\ call[c].h = "run" /\ call'[c].h = "done"
                                     /\ call[c].inst = Current(i)
<1>1. IndInv /\ [ConfigNext]_allVars => [Own]_allVars
  <2> SUFFICES ASSUME IndInv, ConfigNext PROVE Own
    OBVIOUS
  <2>1. ASSUME NEW c \in Calls, HandlerPersists(c) PROVE Own
    <3> SUFFICES ASSUME NEW i \in Names, call[c].inst # Current(i)
                 PROVE  Saved(i)' = Saved(i)
      BY SMTT(30), <2>1 DEF HandlerPersists, Execute, IndInv, Types, CallType
    <3>1. /\ UNCHANGED <<saved, endnames>>
          /\ disk' = [disk EXCEPT ![call[c].inst] = @ \cup {c}]
      BY <2>1 DEF HandlerPersists
    <3>2. disk'[Current(i)] = disk[Current(i)]
      BY <3>1 DEF IndInv, Types, Current
    <3> QED
      BY <3>1, <3>2 DEF Saved, Current
  <2>2. CASE TestStep
    BY <2>2, TestStepKeeps DEF SameSaved
  <2>3. CASE UNCHANGED <<saved, endnames, disk>>
    BY <2>3 DEF Saved, Current
  <2> QED
    BY <2>1, <2>2, <2>3 DEF ConfigNext, InstanceCalls, NetworkStep, configVars
<1> QED
  BY <1>1, IndInvHolds, PTL DEF ConfigSpec, OnlyLatestPersists

-----------------------------------------------------------------------------
(***************************************************************************)
(* Why an old instance is cut off: only ends of the latest instances are   *)
(* enabled; a crash has the enabled ends of its server still to do, and    *)
(* has left none when the ends of the next instance are made.              *)
(***************************************************************************)
Latest(e) == e[2] = endnames[e[1]]

EndsCut ==
  /\ enabled \subseteq Ends /\ \A e \in enabled : Latest(e)
  /\ test.todo \in Seq(Ends)
  /\ \A k \in 1..Len(test.todo) : Latest(test.todo[k])
  /\ test.op \notin {"connect", "disconnect", "crash"} => test.todo = <<>>
  /\ test.op = "crash" =>
       \A e \in enabled : e[1] = test.i =>
         \E k \in 1..Len(test.todo) : test.todo[k] = e
  /\ test.op \in {"deleted", "ends"} => \A e \in enabled : e[1] # test.i

(***************************************************************************)
(* A call of an old instance gets as far as processReq's look at its end.  *)
(***************************************************************************)
LateCall(r) ==
  /\ r.end \in Ends /\ r.end[2] < endnames[r.end[1]]
  /\ r.st \in {"sending", "taken", "timeout", "failed"} /\ r.h = "none"

CutOff ==
  /\ EndsCut
  /\ late \subseteq Calls /\ \A c \in late : LateCall(call[c])

(* At the start all ends are those of latest instances.                    *)
LEMMA InitCutOff == MakeConfig => CutOff
<1> SUFFICES ASSUME MakeConfig PROVE CutOff
  OBVIOUS
<1>1. /\ enabled = {e \in Ends : e[2] = 1} /\ endnames = [i \in Names |-> 1]
      /\ late = {} /\ test = Idle
  BY DEF MakeConfig
<1>2. test.op = "idle" /\ test.todo = <<>>
  BY <1>1 DEF Idle
<1>3. \A e \in Ends : e[1] \in Names
  OBVIOUS
<1>4. EndsCut
  BY SMTT(30), <1>1, <1>2, <1>3 DEF EndsCut, Latest
<1> QED
  BY <1>1, <1>4 DEF CutOff

(***************************************************************************)
(* The steps that leave ends and test alone.                               *)
(***************************************************************************)
LEMMA EndsKept ==
  ASSUME EndsCut, UNCHANGED <<enabled, endnames, test>>
  PROVE  EndsCut'
BY DEF EndsCut, Latest

(* A call that is made now is not of an instance that was cut off before.  *)
LEMMA CallCut ==
  ASSUME IndInv, CutOff, NEW c \in Calls, InstanceCalls(c)
  PROVE  CutOff'
<1>1. PICK i \in Names, j \in Names : \E g \in 1..endnames[i] :
        /\ i # j
        /\ Call(c, <<i, g, j>>)
        /\ late' = IF g < endnames[i] THEN late \cup {c} ELSE late
        /\ UNCHANGED <<endnames, connected, disk, saved, test, ops>>
  BY DEF InstanceCalls
<1>2. PICK g \in 1..endnames[i] :
        /\ Call(c, <<i, g, j>>)
        /\ late' = IF g < endnames[i] THEN late \cup {c} ELSE late
        /\ UNCHANGED <<endnames, connected, disk, saved, test, ops>>
  BY <1>1
<1> DEFINE e == <<i, g, j>>
<1>3. endnames[i] \in 1..MaxGen
  BY DEF IndInv, Types
<1>4. e \in Ends /\ e[1] = i /\ e[2] = g
  BY SMTT(30), <1>3
<1> HIDE DEF e
<1>5. /\ call[c].st = "idle"
      /\ call' = [call EXCEPT ![c].st = "sending", ![c].end = e]
      /\ UNCHANGED <<enabled, endnames, test>>
  BY <1>2 DEF Call, netVars, e
<1>6. EndsCut'
  BY <1>5, EndsKept DEF CutOff
<1>7. call \in [Calls -> CallType] /\ call[c].h = "none"
  BY <1>5 DEF IndInv, Types, Order
<1>8. c \notin late
  BY <1>5 DEF CutOff, LateCall
<1>9. \A d \in Calls \ {c} : call'[d] = call[d]
  BY <1>5, <1>7
<1>10. call'[c].st = "sending" /\ call'[c].end = e /\ call'[c].h = "none"
  BY SMTT(30), <1>5, <1>7 DEF CallType
<1>11. \A d \in late : LateCall(call[d])'
  BY <1>5, <1>8, <1>9 DEF CutOff, LateCall
<1>12. g < endnames[i] => LateCall(call[c])'
  BY <1>4, <1>5, <1>10 DEF LateCall
<1> QED
  BY <1>2, <1>6, <1>11, <1>12 DEF CutOff

(* The steps of the network move no call past processReq's look at its end *)
(* unless the end is enabled.                                              *)
LEMMA DeliverCut ==
  ASSUME IndInv, CutOff, NEW c \in Calls, Deliver(c), UNCHANGED configVars
  PROVE  CutOff'
<1>1. UNCHANGED <<enabled, endnames, test, late>>
  BY DEF Deliver, Abort, Take, ReadEndnameInfo, NotDelivered, StartHandler,
         GetReply, FindDead, Answer, DelayedAnswer, netVars, configVars
<1>2. EndsCut'
  BY <1>1, EndsKept DEF CutOff
<1>3. PICK r : call' = [call EXCEPT ![c] = r]
  BY DEF Deliver, Abort, Take, ReadEndnameInfo, NotDelivered, StartHandler,
         GetReply, FindDead, Answer, DelayedAnswer, Goto
<1>4. call \in [Calls -> CallType]
  BY DEF IndInv, Types
<1>5. \A d \in Calls \ {c} : call'[d] = call[d]
  BY <1>3, <1>4
<1>6. ASSUME c \in late PROVE LateCall(call[c])'
  <2>1. LateCall(call[c])
    BY <1>6 DEF CutOff
  <2>2. ~Reachable(call[c].end)
    <3>1. endnames[call[c].end[1]] \in Nat /\ call[c].end[2] \in Nat
      BY SMTT(30), <2>1 DEF LateCall, IndInv, Types
    <3>2. call[c].end \notin enabled
      BY SMTT(30), <2>1, <3>1 DEF LateCall, CutOff, EndsCut, Latest
    <3> QED
      BY <3>2 DEF Reachable
  <2>3. \E st \in {"taken", "timeout", "failed"} : Goto(c, st)
    BY <2>1, <2>2 DEF Deliver, Abort, Take, ReadEndnameInfo, NotDelivered,
      StartHandler, GetReply, FindDead, Answer, DelayedAnswer, LateCall
  <2>4. /\ call'[c].end = call[c].end /\ call'[c].h = call[c].h
        /\ call'[c].st \in {"taken", "timeout", "failed"}
    BY SMTT(30), <1>4, <2>3 DEF Goto, CallType
  <2> QED
    BY <1>1, <2>1, <2>4 DEF LateCall
<1>7. \A d \in late : LateCall(call[d])'
  BY <1>1, <1>5, <1>6 DEF CutOff, LateCall
<1> QED
  BY <1>1, <1>2, <1>7 DEF CutOff

(* Persisting changes no end.                                              *)
LEMMA PersistCut ==
  ASSUME IndInv, CutOff, NEW c \in Calls, HandlerPersists(c)
  PROVE  CutOff'
<1>1. /\ UNCHANGED <<enabled, endnames, test, late>> /\ call[c].h = "run"
      /\ call' = [call EXCEPT ![c].h = "done"]
  BY DEF HandlerPersists, Execute, netVars
<1>2. EndsCut'
  BY <1>1, EndsKept DEF CutOff
<1>3. c \notin late
  BY <1>1 DEF CutOff, LateCall
<1>4. \A d \in Calls \ {c} : call'[d] = call[d]
  BY <1>1 DEF IndInv, Types
<1>5. \A d \in late : LateCall(call[d])'
  BY <1>1, <1>3, <1>4 DEF CutOff, LateCall
<1> QED
  BY <1>1, <1>2, <1>5 DEF CutOff

(***************************************************************************)
(* The steps of the test: only StartEnds leaves an instance behind.        *)
(***************************************************************************)
LEMMA SeqOf ==
  ASSUME NEW S, NEW n \in Nat, NEW f \in [1..n -> S]
  PROVE  f \in Seq(S) /\ Len(f) = n
BY SMTT(30)

(* Links are ends of latest instances, all those of the server among them. *)
LEMMA LinksAreLatest ==
  ASSUME IndInv, NEW i \in Names
  PROVE  /\ Links(i) \in Seq(Ends)
         /\ \A k \in 1..Len(Links(i)) : Latest(Links(i)[k])
         /\ \A e \in Ends : e[1] = i /\ Latest(e) =>
              \E k \in 1..Len(Links(i)) : Links(i)[k] = e
<1>1. endnames \in [Names -> 1..MaxGen]
  BY DEF IndInv, Types
<1>2. \A k \in 1..(2 * N) : /\ Links(i)[k] \in Ends /\ Latest(Links(i)[k])
                            /\ k <= N => Links(i)[k] = <<i, endnames[i], k>>
  <2> TAKE k \in 1..(2 * N)
  <2>1. CASE k <= N
    <3>1. Links(i)[k] = <<i, endnames[i], k>>
      BY <2>1 DEF Links
    <3>2. k \in Names /\ endnames[i] \in 1..MaxGen
      BY SMTT(30), <1>1, <2>1
    <3> QED
      BY SMTT(30), <3>1, <3>2 DEF Latest
  <2>2. CASE k > N
    <3>1. Links(i)[k] = <<k - N, endnames[k - N], i>>
      BY SMTT(30), <2>2 DEF Links
    <3>2. k - N \in Names
      BY SMTT(30), <2>2
    <3>3. endnames[k - N] \in 1..MaxGen
      BY <1>1, <3>2
    <3> QED
      BY SMTT(30), <2>2, <3>1, <3>2, <3>3 DEF Latest
  <2> QED
    BY SMTT(30), <2>1, <2>2
<1>3. Links(i) \in [1..(2 * N) -> Ends] /\ 2 * N \in Nat
  BY SMTT(30), <1>2 DEF Links
<1>4. Links(i) \in Seq(Ends) /\ Len(Links(i)) = 2 * N
  BY <1>3, SeqOf
<1>5. ASSUME NEW e \in Ends, e[1] = i, Latest(e)
      PROVE  \E k \in 1..(2 * N) : Links(i)[k] = e
  <2>1. e = <<i, endnames[i], e[3]>> /\ e[3] \in 1..N
    BY SMTT(30), <1>5 DEF Latest
  <2>2. e[3] \in 1..(2 * N) /\ e[3] <= N
    BY SMTT(30), <2>1
  <2>3. Links(i)[e[3]] = e
    BY <1>2, <2>1, <2>2
  <2> QED
    BY <2>2, <2>3
<1> QED
  BY <1>2, <1>4, <1>5

(* A crash has all the enabled ends of the server still to do.             *)
LEMMA BeginCut ==
  ASSUME IndInv, EndsCut, NEW i \in Names, NEW op \in {"connect", "disconnect", "crash"},
         NEW restart, Begin(op, i, restart, Links(i))
  PROVE  EndsCut'
<1>1. /\ UNCHANGED <<enabled, endnames>>
      /\ test'.op = op /\ test'.i = i /\ test'.todo = Links(i)
  BY DEF Begin, rpcVars, netVars
<1>2. /\ Links(i) \in Seq(Ends)
      /\ \A k \in 1..Len(Links(i)) : Latest(Links(i)[k])
      /\ \A e \in Ends : e[1] = i /\ Latest(e) =>
           \E k \in 1..Len(Links(i)) : Links(i)[k] = e
  BY LinksAreLatest
<1>3. \A e : Latest(e)' <=> Latest(e)
  BY <1>1 DEF Latest
<1>4. enabled' \subseteq Ends /\ \A e \in enabled' : Latest(e)
  BY <1>1 DEF EndsCut
<1>5. \A k \in 1..Len(test'.todo) : Latest(test.todo[k])'
  BY <1>1, <1>2 DEF Latest
<1>6. \A e \in enabled' : e[1] = i =>
        \E k \in 1..Len(test'.todo) : test'.todo[k] = e
  BY <1>1, <1>2, <1>4
<1> QED
  BY <1>1, <1>2, <1>3, <1>4, <1>5, <1>6 DEF EndsCut

(* Enabling or disabling the next end keeps that.                          *)
LEMMA EnableCut ==
  ASSUME IndInv, EndsCut, EnableNext
  PROVE  EndsCut'
<1> DEFINE todo == test.todo
<1> DEFINE e == Head(todo)
<1>1. /\ todo \in Seq(Ends) /\ todo # <<>>
      /\ test' = [test EXCEPT !.todo = Tail(todo)]
      /\ UNCHANGED endnames
      /\ enabled' \in {enabled, enabled \cup {e}, enabled \ {e}}
      /\ test.op # "connect" => enabled' = enabled \ {e}
  BY DEF EndsCut, EnableNext, Wanted, Enable, rpcVars, netVars
<1>2. test'.todo = Tail(todo) /\ test'.op = test.op /\ test'.i = test.i
  BY <1>1 DEF IndInv, Types
<1> HIDE DEF todo, e
<1>3. /\ e = todo[1] /\ 1 \in 1..Len(todo) /\ e \in Ends
      /\ Tail(todo) \in Seq(Ends)
      /\ \A k \in 1..Len(Tail(todo)) : /\ k + 1 \in 1..Len(todo)
                                       /\ Tail(todo)[k] = todo[k + 1]
      /\ \A k \in 1..Len(todo) : k # 1 => /\ k - 1 \in 1..Len(Tail(todo))
                                          /\ Tail(todo)[k - 1] = todo[k]
  <2>1. todo \in Seq(Ends) /\ todo # <<>>
    BY <1>1
  <2>2. Head(todo) = todo[1] /\ 1 \in 1..Len(todo) /\ Head(todo) \in Ends
    BY SMTT(30), <2>1
  <2>3. /\ Tail(todo) \in Seq(Ends)
        /\ \A k \in 1..Len(Tail(todo)) : /\ k + 1 \in 1..Len(todo)
                                         /\ Tail(todo)[k] = todo[k + 1]
    BY SMTT(30), <2>1
  <2>4. ASSUME NEW k \in 1..Len(todo), k # 1
        PROVE  k - 1 \in 1..Len(Tail(todo)) /\ Tail(todo)[k - 1] = todo[k]
    <3>1. Len(Tail(todo)) = Len(todo) - 1 /\ Len(todo) \in Nat
      BY SMTT(30), <2>1
    <3>2. k - 1 \in 1..Len(Tail(todo)) /\ (k - 1) + 1 = k
      BY SMTT(30), <2>4, <3>1
    <3> QED
      BY <2>3, <3>2
  <2> QED
    BY <2>2, <2>3, <2>4 DEF e
<1>4. \A k \in 1..Len(todo) : Latest(todo[k])
  BY DEF EndsCut, todo
<1>5. \A f : Latest(f)' <=> Latest(f)
  BY <1>1 DEF Latest
<1>6. enabled' \subseteq Ends /\ \A f \in enabled' : Latest(f)
  BY <1>1, <1>3, <1>4 DEF EndsCut
<1>7. \A k \in 1..Len(Tail(todo)) : Latest(Tail(todo)[k])
  BY <1>3, <1>4
<1>8. \A k \in 1..Len(test'.todo) : Latest(test.todo[k])'
  BY <1>1, <1>2, <1>7 DEF Latest
<1>9. test.op \in {"connect", "disconnect", "crash"}
  BY <1>1 DEF EndsCut, todo
<1>10. ASSUME test.op = "crash", NEW f \in enabled', f[1] = test.i
       PROVE  \E k \in 1..Len(Tail(todo)) : Tail(todo)[k] = f
  <2>1. f \in enabled /\ f # e
    BY <1>1, <1>10
  <2>2. PICK k \in 1..Len(todo) : todo[k] = f
    BY <1>10, <2>1 DEF EndsCut, todo
  <2> QED
    BY <1>3, <2>1, <2>2
<1>11. test'.todo \in Seq(Ends) /\ \A f \in enabled' : Latest(f)'
  BY <1>2, <1>3, <1>5, <1>6
<1>12. test'.op = "crash" =>
         \A f \in enabled' : f[1] = test'.i =>
           \E k \in 1..Len(test'.todo) : test'.todo[k] = f
  BY <1>2, <1>10
<1> QED
  BY <1>2, <1>6, <1>8, <1>9, <1>11, <1>12 DEF EndsCut

(* The other steps of a crash change no end.                               *)
LEMMA CrashCut ==
  ASSUME IndInv, EndsCut, CrashDelete \/ CrashCopy
  PROVE  EndsCut'
<1>1. UNCHANGED <<enabled, endnames>>
  BY DEF CrashDelete, CrashCopy, DeleteServer, rpcVars, netVars
<1>2. CASE CrashDelete
  <2>1. test.op = "crash" /\ test.todo = <<>> /\ Do("deleted")
    BY <1>2 DEF CrashDelete
  <2>2. "deleted" \in Ops
    BY DEF Ops
  <2>3. test'.op = "deleted" /\ test'.i = test.i /\ test'.todo = test.todo
    BY <2>1, <2>2, ToOp
  <2>4. \A e \in enabled : e[1] # test.i
    BY SMTT(30), <2>1 DEF EndsCut
  <2> QED
    BY SMTT(30), <1>1, <2>1, <2>3, <2>4 DEF EndsCut, Latest
<1>3. CASE CrashCopy
  <2>1. test.op = "deleted" /\ (Do("ends") \/ test' = Idle)
    BY <1>3 DEF CrashCopy
  <2>2. test.todo = <<>>
    BY <2>1 DEF EndsCut
  <2>3. "ends" \in Ops
    BY DEF Ops
  <2>4. \/ test'.op = "ends" /\ test'.i = test.i /\ test'.todo = <<>>
        \/ test'.op = "idle" /\ test'.todo = <<>>
    BY SMTT(30), <2>1, <2>2, <2>3, ToOp DEF Idle
  <2>5. \A e \in enabled : Latest(e)'
    BY <1>1 DEF EndsCut, Latest
  <2>6. \A e \in enabled : e[1] # test.i
    BY <2>1 DEF EndsCut
  <2>7. enabled \subseteq Ends
    BY DEF EndsCut
  <2>8. test'.todo = <<>>
    BY <2>4
  <2>9. /\ test'.todo \in Seq(Ends)
        /\ \A k \in 1..Len(test'.todo) : Latest(test.todo[k])'
    BY SMTT(30), <2>8
  <2> QED
    BY <1>1, <2>4, <2>5, <2>6, <2>7, <2>8, <2>9 DEF EndsCut
<1> QED
  BY <1>2, <1>3

(* New ends are made when those of the old instance are disabled.          *)
LEMMA StartCut ==
  ASSUME IndInv, EndsCut, StartEnds \/ StartMake \/ StartAdd
  PROVE  EndsCut'
<1>1. UNCHANGED enabled /\ test.todo = <<>> /\ test.i \in Names
  BY DEF StartEnds, StartMake, StartAdd, AddServer, rpcVars, netVars, EndsCut,
         IndInv, Types
<1>2. "make" \in Ops /\ "add" \in Ops
  BY DEF Ops
<1>3. CASE StartEnds
  <2>1. /\ test.op = "ends" /\ Do("make")
        /\ endnames' = [endnames EXCEPT ![test.i] = Fresh(test.i)]
    BY <1>3 DEF StartEnds
  <2>2. test'.op = "make" /\ test'.todo = <<>>
    BY <1>1, <1>2, <2>1, ToOp
  <2>3. \A e \in enabled : endnames'[e[1]] = endnames[e[1]]
    BY <2>1 DEF IndInv, Types, EndsCut
  <2> QED
    BY SMTT(30), <1>1, <2>2, <2>3 DEF EndsCut, Latest
<1>4. CASE StartMake
  <2>1. Do("add") /\ UNCHANGED endnames
    BY <1>4 DEF StartMake
  <2>2. test'.op = "add" /\ test'.todo = <<>>
    BY <1>1, <1>2, <2>1, ToOp
  <2> QED
    BY SMTT(30), <1>1, <2>1, <2>2 DEF EndsCut, Latest
<1>5. CASE StartAdd
  <2>1. test' = Idle /\ UNCHANGED endnames
    BY <1>5 DEF StartAdd
  <2>2. test'.op = "idle" /\ test'.todo = <<>>
    BY <2>1 DEF Idle
  <2> QED
    BY SMTT(30), <1>1, <2>1, <2>2 DEF EndsCut, Latest
<1> QED
  BY <1>3, <1>4, <1>5

(* So every step of the harness keeps the invariant.                       *)
LEMMA TestStepCut ==
  ASSUME IndInv, CutOff, TestStep
  PROVE  CutOff'
<1>1. EndsCut
  BY DEF CutOff
<1>2. EndsCut'
  <2>1. CASE \E i \in Names : \/ BeginConnect(i) \/ BeginDisconnect(i)
                              \/ BeginCrash(i, FALSE) \/ BeginCrash(i, TRUE)
    <3>1. PICK i \in Names, restart \in BOOLEAN,
               op \in {"connect", "disconnect", "crash"} :
            Begin(op, i, restart, Links(i))
      BY <2>1 DEF BeginConnect, BeginDisconnect, BeginCrash
    <3> QED
      BY <1>1, <3>1, BeginCut
  <2>2. CASE EnableNext
    BY <1>1, <2>2, EnableCut
  <2>3. CASE EndConnect
    <3>1. UNCHANGED <<enabled, endnames>> /\ test' = Idle
      BY <2>3 DEF EndConnect, rpcVars, netVars
    <3>2. test'.op = "idle" /\ test'.todo = <<>>
      BY <3>1 DEF Idle
    <3> QED
      BY SMTT(30), <1>1, <3>1, <3>2 DEF EndsCut, Latest
  <2>4. CASE CrashDelete \/ CrashCopy
    BY <1>1, <2>4, CrashCut
  <2>5. CASE StartEnds \/ StartMake \/ StartAdd
    BY <1>1, <2>5, StartCut
  <2>6. CASE Disturb \/ EndTest
    <3>1. UNCHANGED <<enabled, endnames, test>>
      BY <2>6 DEF Disturb, EndTest, Configure, Cleanup, configVars
    <3> QED
      BY <1>1, <3>1, EndsKept
  <2> QED
    BY <2>1, <2>2, <2>3, <2>4, <2>5, <2>6 DEF TestStep
<1>3. UNCHANGED <<call, late>>
  BY DEF TestStep, BeginConnect, BeginDisconnect, BeginCrash, Begin,
    EnableNext, Enable, EndConnect, CrashDelete, DeleteServer, CrashCopy,
    StartEnds, StartMake, StartAdd, AddServer, Disturb, Configure, EndTest,
    Cleanup, rpcVars, configVars
<1>4. \A s \in Names : /\ endnames[s] \in Nat /\ endnames'[s] \in Nat
                       /\ endnames[s] <= endnames'[s]
  <2>1. endnames \in [Names -> 1..MaxGen] /\ test.i \in Names
    BY DEF IndInv, Types
  <2>2. endnames' \in {endnames, [endnames EXCEPT ![test.i] = Fresh(test.i)]}
    BY DEF TestStep, BeginConnect, BeginDisconnect, BeginCrash, Begin,
      EnableNext, EndConnect, CrashDelete, CrashCopy, StartEnds, StartMake,
      StartAdd, Disturb, EndTest, configVars
  <2>3. CASE endnames' = endnames
    BY SMTT(30), <2>1, <2>3
  <2>4. CASE endnames' = [endnames EXCEPT ![test.i] = endnames[test.i] + 1]
    <3>1. \A s \in Names : endnames[s] \in Nat
      BY SMTT(30), <2>1
    <3>2. \A s \in Names : endnames'[s] \in {endnames[s], endnames[s] + 1}
      BY <2>1, <2>4
    <3> QED
      BY SMTT(30), <3>1, <3>2
  <2> QED
    BY <2>2, <2>3, <2>4 DEF Fresh
<1>5. \A e \in Ends : e[1] \in Names /\ e[2] \in Nat
  BY SMTT(30)
<1>6. \A c \in late : LateCall(call[c])'
  <2> TAKE c \in late
  <2>1. LateCall(call[c])
    BY DEF CutOff
  <2>2. call[c].end[1] \in Names /\ call[c].end[2] \in Nat
    BY <1>5, <2>1 DEF LateCall
  <2>3. call[c].end[2] < endnames'[call[c].end[1]]
    BY SMTT(30), <1>4, <2>1, <2>2 DEF LateCall
  <2> QED
    BY <1>3, <2>1, <2>3 DEF LateCall
<1> QED
  BY <1>2, <1>3, <1>6 DEF CutOff

(***************************************************************************)
(* Whatever an instance sends after its successor's ends were made, no     *)
(* server executes, with any number of servers, restarts and calls and     *)
(* wherever the calls and the test's loops over the ends interleave.       *)
(***************************************************************************)
THEOREM OldInstancesStayCutOff == ConfigSpec => []OldInstancesAreCutOff
<1>1. ASSUME IndInv, CutOff, [ConfigNext]_allVars
      PROVE  CutOff'
  <2>1. CASE \E c \in Calls : InstanceCalls(c)
    BY <1>1, <2>1, CallCut
  <2>2. CASE \E c \in Calls : HandlerPersists(c)
    BY <1>1, <2>2, PersistCut
  <2>3. CASE \E c \in Calls : Deliver(c) /\ UNCHANGED configVars
    BY <1>1, <2>3, DeliverCut
  <2>4. CASE TestStep
    BY <1>1, <2>4, TestStepCut
  <2>5. CASE (StopReceiving /\ UNCHANGED configVars) \/ UNCHANGED allVars
    <3>1. UNCHANGED <<enabled, endnames, test, call, late>>
      BY <2>5 DEF StopReceiving, configVars, allVars, rpcVars, netVars
    <3> QED
      BY <1>1, <3>1, EndsKept DEF CutOff, LateCall
  <2> QED
    BY <1>1, <2>1, <2>2, <2>3, <2>4, <2>5 DEF ConfigNext, NetworkStep
<1>2. CutOff => OldInstancesAreCutOff
  BY DEF CutOff, LateCall, OldInstancesAreCutOff
<1> QED
  BY <1>1, <1>2, InitCutOff, IndInvHolds, PTL DEF ConfigSpec

-----------------------------------------------------------------------------
(***************************************************************************)
(* The network under the harness of the Raft tests implements the contract *)
(* of Call: every step of RaftConfig is one of RpcContract or a stutter.   *)
(***************************************************************************)
phaseBar == [c \in Calls |-> Phase(call[c].st)]
executedBar == {c \in Calls : call[c].h = "done"}

(* A step of one call that is a step of the contract or is not seen by it. *)
LEMMA StepKeepsContract ==
  ASSUME IndInv, NEW c \in Calls, NEW r \in CallType,
         call' = [call EXCEPT ![c] = r],
         \/ r.h = call[c].h /\ Phase(r.st) = Phase(call[c].st)
         \/ /\ r.h = call[c].h
            /\ call[c].st = "idle" /\ r.st = "sending"
         \/ /\ r.h = call[c].h
            /\ Phase(call[c].st) = "called" /\ r.st = "failed"
         \/ /\ r.h = call[c].h /\ r.h = "done"
            /\ Phase(call[c].st) = "called" /\ r.st = "ok"
         \/ /\ call[c].h # "done" /\ r.h = "done"
            /\ call[c].st # "idle" /\ r.st = call[c].st
  PROVE  Contract!ContractNext \/ UNCHANGED Contract!contractVars
<1>1. \A d \in Calls : call'[d] = IF d = c THEN r ELSE call[d]
  BY DEF IndInv, Types
<1>2. /\ phaseBar' = [phaseBar EXCEPT ![c] = Phase(r.st)]
      /\ phaseBar[c] = Phase(call[c].st)
  <2>1. phaseBar' = [d \in Calls |-> Phase(IF d = c THEN r.st ELSE call[d].st)]
    <3>1. phaseBar' = [d \in Calls |-> Phase(call'[d].st)]
      BY DEF phaseBar
    <3>2. \A d \in Calls : call'[d].st = IF d = c THEN r.st ELSE call[d].st
      BY SMTT(30), <1>1
    <3>3. \A d \in Calls : Phase(call'[d].st)
                          = Phase(IF d = c THEN r.st ELSE call[d].st)
      BY <3>2
    <3> QED
      BY <3>1, <3>3
  <2> QED
    BY <2>1 DEF phaseBar
<1>3. c \in executedBar <=> call[c].h = "done"
  BY DEF executedBar
<1>4. CASE r.h = call[c].h
  <2>1. executedBar' = executedBar
    BY <1>1, <1>4 DEF executedBar
  <2>2. CASE Phase(r.st) = Phase(call[c].st)
    <3>1. phaseBar' = phaseBar
      BY <1>2, <2>2 DEF phaseBar
    <3> QED
      BY <2>1, <3>1 DEF Contract!contractVars, phaseBar, executedBar
  <2>3. CASE call[c].st = "idle" /\ r.st = "sending"
    <3>1. Phase(r.st) = "called" /\ Phase(call[c].st) = "idle"
      BY <2>3 DEF Phase
    <3>2. Contract!Begin(c)
      BY <1>2, <2>1, <3>1 DEF Contract!Begin, phaseBar, executedBar
    <3> QED
      BY <3>2 DEF Contract!ContractNext
  <2>4. CASE Phase(call[c].st) = "called" /\ r.st = "failed"
    <3>1. Phase(r.st) = "failed"
      BY <2>4 DEF Phase
    <3>2. Contract!Fail(c)
      BY <1>2, <2>1, <2>4, <3>1 DEF Contract!Fail, phaseBar, executedBar
    <3> QED
      BY <3>2 DEF Contract!ContractNext
  <2>5. CASE r.h = "done" /\ Phase(call[c].st) = "called" /\ r.st = "ok"
    <3>1. Phase(r.st) = "ok"
      BY <2>5 DEF Phase
    <3>2. Contract!Succeed(c)
      BY <1>2, <1>3, <1>4, <2>1, <2>5, <3>1
         DEF Contract!Succeed, phaseBar, executedBar
    <3> QED
      BY <3>2 DEF Contract!ContractNext
  <2> QED
    BY <1>4, <2>2, <2>3, <2>4, <2>5
<1>5. CASE /\ call[c].h # "done" /\ r.h = "done"
           /\ call[c].st # "idle" /\ r.st = call[c].st
  <2>1. executedBar' = executedBar \cup {c} /\ c \notin executedBar
    BY <1>1, <1>5 DEF executedBar
  <2>2. phaseBar' = phaseBar
    BY <1>2, <1>5 DEF phaseBar
  <2>3. phaseBar[c] # "idle"
    BY <1>2, <1>5 DEF Phase
  <2>4. Contract!Run(c)
    BY <2>1, <2>2, <2>3 DEF Contract!Run, phaseBar, executedBar
  <2> QED
    BY <2>4 DEF Contract!ContractNext
<1> QED
  BY <1>4, <1>5

(* The points of the network between a call and its answer.                *)
LEMMA Called ==
  \A st \in {"sending", "taken", "timeout", "dispatch", "waiting", "replied",
             "delayed"} : Phase(st) = "called"
BY DEF Phase

(* A step of the network is a step of the contract, or none.               *)
LEMMA DeliverKeepsContract ==
  ASSUME IndInv, NEW c \in Calls, Deliver(c)
  PROVE  Contract!ContractNext \/ UNCHANGED Contract!contractVars
<1> DEFINE To(st) == [call[c] EXCEPT !.st = st]
           Goal == Contract!ContractNext \/ UNCHANGED Contract!contractVars
<1>1. call[c] \in CallType /\ Settled(c, call[c])
  BY CallIsSettled DEF Settled
<1>2. ASSUME NEW st \in States, Goto(c, st),
             \/ Phase(st) = Phase(call[c].st)
             \/ Phase(call[c].st) = "called" /\ st = "failed"
             \/ /\ Phase(call[c].st) = "called" /\ st = "ok"
                /\ call[c].h = "done"
      PROVE  Goal
  <2>1. call' = [call EXCEPT ![c] = To(st)]
    BY <1>2 DEF Goto, IndInv, Types
  <2>2. To(st) \in CallType /\ To(st).st = st /\ To(st).h = call[c].h
    BY <1>1 DEF CallType
  <2> HIDE DEF To, Goal
  <2>3. Contract!ContractNext \/ UNCHANGED Contract!contractVars
    BY <1>2, <2>1, <2>2, StepKeepsContract
  <2> QED
    BY <2>3 DEF Goal
<1> SUFFICES Goal
  OBVIOUS
<1> HIDE DEF Goal
<1>3. CASE Abort(c) \/ NotDelivered(c) \/ FindDead(c)
  <2>1. Goto(c, "failed") /\ call[c].st \in {"sending", "timeout", "dispatch",
                                             "waiting"}
    BY <1>3 DEF Abort, NotDelivered, FindDead
  <2> QED
    BY <1>2, <2>1, Called DEF States
<1>4. CASE Take(c) \/ GetReply(c)
  <2>1. \/ Goto(c, "taken") /\ call[c].st = "sending"
        \/ Goto(c, "replied") /\ call[c].st = "waiting"
    BY <1>4 DEF Take, GetReply
  <2> QED
    BY <1>2, <2>1, Called DEF States
<1>5. CASE Answer(c) \/ DelayedAnswer(c)
  <2>1. /\ \/ Goto(c, "failed") \/ Goto(c, "delayed") \/ Goto(c, "ok")
        /\ call[c].st \in {"replied", "delayed"} /\ call[c].h = "done"
    BY <1>1, <1>5 DEF Answer, DelayedAnswer, Settled
  <2> QED
    BY <1>2, <2>1, Called DEF States
<1>6. CASE ReadEndnameInfo(c)
  <2> DEFINE e == call[c].end
             s == connections[e]
             r == [call[c] EXCEPT !.st = "dispatch", !.srv = s,
                     !.inst = servers[s], !.rel = reliable,
                     !.reord = longReordering]
  <2>1. call[c].st = "taken"
    BY <1>6 DEF ReadEndnameInfo
  <2>2. CASE ~Reachable(e)
    BY <1>2, <1>6, <2>1, <2>2, Called DEF ReadEndnameInfo, States
  <2>3. CASE Reachable(e)
    <3>1. s \in Names /\ servers[s] \in Instances
      BY <1>1, <2>1, <2>3 DEF Settled, Reachable, IndInv, Types
    <3>2. /\ reliable \in BOOLEAN /\ longReordering \in BOOLEAN
          /\ call \in [Calls -> CallType]
      BY DEF IndInv, Types
    <3>3. r \in CallType /\ r.st = "dispatch" /\ r.h = call[c].h
      <4>1. r \in CallType
        BY <1>1, <3>1, <3>2 DEF CallType, States
      <4>2. r.st = "dispatch" /\ r.h = call[c].h
        BY <1>1 DEF CallType
      <4> QED
        BY <4>1, <4>2
    <3>4. call' = [call EXCEPT ![c] = r]
      BY <1>6, <2>3, <3>2 DEF ReadEndnameInfo
    <3>5. Phase(r.st) = Phase(call[c].st)
      BY <2>1, <3>3, Called
    <3> HIDE DEF r
    <3> QED
      BY <3>3, <3>4, <3>5, StepKeepsContract DEF Goal
  <2> QED
    BY <2>2, <2>3
<1>7. CASE StartHandler(c)
  <2> DEFINE r == [call[c] EXCEPT !.st = "waiting", !.h = "run"]
  <2>1. call' = [call EXCEPT ![c] = r] /\ call[c].st = "dispatch"
    BY <1>7 DEF StartHandler, IndInv, Types
  <2>2. call[c].h = "none"
    BY <1>1, <2>1 DEF Settled
  <2>3. r \in CallType /\ r.st = "waiting" /\ r.h = "run"
    BY <1>1 DEF CallType, States
  <2>4. \A d \in Calls : call'[d] = IF d = c THEN r ELSE call[d]
    BY <2>1 DEF IndInv, Types
  <2>5. Phase(r.st) = Phase(call[c].st)
    BY <2>1, <2>3, Called
  <2> HIDE DEF r
  <2>6. executedBar' = executedBar
    BY <2>2, <2>3, <2>4 DEF executedBar
  <2>7. phaseBar' = phaseBar
    <3>1. \A d \in Calls : Phase(call'[d].st) = Phase(call[d].st)
      BY <2>4, <2>5
    <3>2. phaseBar' = [d \in Calls |-> Phase(call'[d].st)]
      BY DEF phaseBar
    <3> QED
      BY <3>1, <3>2 DEF phaseBar
  <2> QED
    BY <2>6, <2>7 DEF Goal, Contract!contractVars, phaseBar, executedBar
<1> QED
  BY <1>3, <1>4, <1>5, <1>6, <1>7 DEF Deliver

(***************************************************************************)
(* labrpc.go promises that Call returns true only if the server executed   *)
(* the request: under the harness, with any number of servers that crash   *)
(* and restart, the network implements that contract.                      *)
(***************************************************************************)
THEOREM NetworkKeepsContract == ConfigSpec => CallKeepsContract
<1>1. MakeConfig => Contract!ContractInit
  BY SMTT(30) DEF MakeConfig, Contract!ContractInit, NoCall, Phase
<1>2. IndInv /\ [ConfigNext]_allVars
        => [Contract!ContractNext]_Contract!contractVars
  <2> SUFFICES ASSUME IndInv, [ConfigNext]_allVars
               PROVE  \/ Contract!ContractNext
                      \/ UNCHANGED Contract!contractVars
    OBVIOUS
  <2>1. CASE UNCHANGED call
    BY <2>1 DEF Contract!contractVars
  <2>2. ASSUME NEW c \in Calls, InstanceCalls(c)
        PROVE  Contract!ContractNext
    <3>1. PICK e : Call(c, e)
      BY <2>2 DEF InstanceCalls
    <3> DEFINE r == [call[c] EXCEPT !.st = "sending", !.end = e]
    <3>2. call' = [call EXCEPT ![c] = r] /\ call[c].st = "idle"
      BY <3>1 DEF Call, IndInv, Types
    <3>3. r.st = "sending" /\ r.h = call[c].h
      BY SMTT(30) DEF IndInv, Types, CallType
    <3> HIDE DEF r
    <3>4. \A d \in Calls : call'[d] = IF d = c THEN r ELSE call[d]
      BY <3>2 DEF IndInv, Types
    <3>5. executedBar' = executedBar
      BY <3>3, <3>4 DEF executedBar
    <3>6. Phase(r.st) = "called" /\ Phase(call[c].st) = "idle"
      BY <3>2, <3>3 DEF Phase
    <3>7. phaseBar' = [phaseBar EXCEPT ![c] = "called"]
      <4>1. \A d \in Calls : Phase(call'[d].st)
              = IF d = c THEN "called" ELSE Phase(call[d].st)
        BY <3>4, <3>6
      <4>2. phaseBar' = [d \in Calls |-> Phase(call'[d].st)]
        BY DEF phaseBar
      <4> QED
        BY <4>1, <4>2 DEF phaseBar
    <3>8. phaseBar[c] = "idle"
      BY <3>6 DEF phaseBar
    <3>9. Contract!Begin(c)
      BY <3>5, <3>7, <3>8 DEF Contract!Begin, phaseBar, executedBar
    <3> QED
      BY <3>9 DEF Contract!ContractNext
  <2>3. ASSUME NEW c \in Calls, HandlerPersists(c)
        PROVE  Contract!ContractNext \/ UNCHANGED Contract!contractVars
    <3> DEFINE r == [call[c] EXCEPT !.h = "done"]
    <3>1. Settled(c, call[c])
      BY CallIsSettled
    <3>2. call' = [call EXCEPT ![c] = r] /\ call[c].h = "run"
      BY <2>3 DEF HandlerPersists, Execute, IndInv, Types
    <3>3. r \in CallType /\ r.st = call[c].st /\ r.h = "done"
      BY <3>1 DEF Settled, CallType
    <3>4. call[c].st # "idle"
      BY <3>1, <3>2 DEF Settled
    <3> HIDE DEF r
    <3> QED
      BY <3>2, <3>3, <3>4, StepKeepsContract
  <2>4. CASE NetworkStep
    BY <2>1, <2>4, DeliverKeepsContract DEF NetworkStep, StopReceiving
  <2>5. CASE TestStep
    <3>1. UNCHANGED call
      BY <2>5 DEF TestStep, BeginConnect, BeginDisconnect, BeginCrash, Begin,
           EnableNext, Enable, EndConnect, CrashDelete, DeleteServer,
           CrashCopy, StartEnds, StartMake, StartAdd, AddServer, Disturb,
           Configure, EndTest, Cleanup, rpcVars
    <3> QED
      BY <2>1, <3>1
  <2>6. CASE UNCHANGED allVars
    BY <2>1, <2>6 DEF allVars, rpcVars
  <2> QED
    BY <2>2, <2>3, <2>4, <2>5, <2>6 DEF ConfigNext
<1> QED
  BY <1>1, <1>2, IndInvHolds, PTL
     DEF ConfigSpec, CallKeepsContract, Contract!ContractSpec
=============================================================================
