----------------------------- MODULE StressTest -----------------------------
(***************************************************************************)
(* The stress tester (lab4/cmd/stress/tester.go) and the consistency       *)
(* checker it runs beside the cluster (lab4/checker/checker.go): two loops *)
(* start Gets and Sets, each in a goroutine of its own, and the checker    *)
(* says which answers of the Gets are wrong.                               *)
(*                                                                         *)
(* What the checker keeps, it keeps for every key by itself: there is one  *)
(* key.  A Set writes a random value, so a value is known by its Set.  The *)
(* client is one Kv, whose mutex its requests take in turn.  The servers   *)
(* work and the shard map stands: a Set reaches the replicas one by one,   *)
(* may fail at some, and is over when it returns.                          *)
(* The clock is the machine's, in ticks; of two readings in a tick the one *)
(* made later is later.                                                    *)
(***************************************************************************)
EXTENDS Naturals, FiniteSets

CONSTANTS
  Sets, Gets,   \* the requests of the two loops
  Replicas,
  None,
  MaxPending,   \* flag max-pending: the weight of the semaphore
  Ttl, Buffer,  \* flags ttl and ttl-check-buffer
  Duration,     \* flag duration
  MaxTime       \* bound: ticks

ASSUME StressAssumption ==
  /\ IsFiniteSet(Sets) /\ IsFiniteSet(Gets) /\ Sets \cap Gets = {}
  /\ None \notin Sets
  /\ MaxPending \in Nat \ {0}
  /\ Ttl \in Nat /\ Buffer \in Nat /\ Duration \in Nat /\ MaxTime \in Nat

Requests == Sets \cup Gets
Loops == {"Set", "Get"}
RequestsOf(l) == IF l = "Set" THEN Sets ELSE Gets

VARIABLES
  now,
  replica,      \* the value of the key at a replica, and its end
  values,       \* cc.values: the Sets whose value may be read
  overwritten,  \* cc.overwrittenValues
  version, rc,  \* cc.version and cc.rc
  ChecksRun,
  write,        \* a Set of the tester
  read,         \* a Get of the tester
  before,       \* history: the Sets complete when a Set began
  loop,         \* where the loops are
  sem,          \* requests the semaphore still lets in
  wg,           \* st.wg
  main,         \* main waits, or has printed its report
  count,        \* gets, getErrs, sets, setErrs and inconsistencies of st
  alarms        \* what CheckReadCorrect has complained of

cc == <<values, overwritten, version, rc, before>>
tester == <<loop, sem, wg, main, count>>
stressVars == <<now, replica, cc, ChecksRun, write, read, tester, alarms>>

(***************************************************************************)
(* Times of two readings of the clock: t.Before(now).                      *)
(***************************************************************************)
Before(t, u) == t <= u

Pending == {w \in Sets : write[w].pc \in {"set", "complete"}}
Complete == {w \in Sets : write[w].pc = "done"}

-----------------------------------------------------------------------------
(***************************************************************************)
(* stressLoop: while there is time, acquire the semaphore, count the       *)
(* request and start it; its goroutine takes the time first.               *)
(***************************************************************************)
GoOn(l) ==
  /\ loop[l] = "top" /\ now < Duration
  /\ \E q \in RequestsOf(l) :
       IF l = "Set" THEN write[q].pc = "new" ELSE read[q].pc = "new"
  /\ loop' = [loop EXCEPT ![l] = "acquire"]
  /\ UNCHANGED <<now, replica, cc, ChecksRun, write, read, sem, wg, main,
                 count, alarms>>

AddLater(l) ==             \* mutant: wg.Add is in the goroutine, too late
  /\ loop[l] = "acquire" /\ sem > 0
  /\ loop' = [loop EXCEPT ![l] = "top"]
  /\ sem' = sem - 1
  /\ wg' = wg

Admit(l) ==
  /\ loop[l] = "acquire" /\ sem > 0
  /\ loop' = [loop EXCEPT ![l] = "top"]
  /\ sem' = sem - 1
  /\ wg' = wg + 1

StartSet(w) ==
  /\ write[w].pc = "new"
  /\ Admit("Set")
  /\ write' = [write EXCEPT ![w].pc = "begin", ![w].start = now]
  /\ UNCHANGED <<now, replica, cc, ChecksRun, read, main, count, alarms>>

StartGet(g) ==
  /\ read[g].pc = "new"
  /\ Admit("Get")
  /\ read' = [read EXCEPT ![g].pc = "begin", ![g].start = now]
  /\ UNCHANGED <<now, replica, cc, ChecksRun, write, main, count, alarms>>

EndLoop(l) ==
  /\ loop[l] = "top" /\ now >= Duration
  /\ loop' = [loop EXCEPT ![l] = "ended"]
  /\ wg' = wg - 1
  /\ UNCHANGED <<now, replica, cc, ChecksRun, write, read, sem, main, count,
                 alarms>>

LeaksPermit ==             \* mutant: sem.Release is forgotten
  /\ sem' = sem
  /\ wg' = wg - 1

(***************************************************************************)
(* The request's goroutine ends: sem.Release and wg.Done.                  *)
(***************************************************************************)
Release ==
  /\ sem' = sem + 1
  /\ wg' = wg - 1

-----------------------------------------------------------------------------
(***************************************************************************)
(* stressSets: BeginWrite; kv.Set, which a replica stores, or fails there, *)
(* or stores and its answer is lost; the time and the counters;            *)
(* CompleteWrite.                                                          *)
(***************************************************************************)
BeginWrite(w) ==
  /\ write[w].pc = "begin"
  /\ rc' = rc + 1
  /\ write' = [write EXCEPT ![w].pc = "set", ![w].init = version]
  /\ before' = [before EXCEPT ![w] = Complete]
  /\ UNCHANGED <<now, replica, values, overwritten, version, ChecksRun, read,
                 tester, alarms>>

(***************************************************************************)
(* kv.mu: a Set of the one client holds it from its first replica to its   *)
(* last, and other requests wait.                                          *)
(***************************************************************************)
KvFree(w) ==
  \A v \in Sets \ {w} : write[v].pc = "set" => write[v].todo = Replicas

KvSetAt(w, r) ==
  /\ write[w].pc = "set" /\ r \in write[w].todo
  /\ KvFree(w)
  /\ \E stored, err \in BOOLEAN :
       /\ stored \/ err
       /\ replica' = IF stored
            THEN [replica EXCEPT ![r] = [val |-> w, exp |-> now + Ttl]]
            ELSE replica
       /\ write' = [write EXCEPT ![w].todo = @ \ {r}, ![w].err = @ \/ err]
  /\ UNCHANGED <<now, cc, ChecksRun, read, tester, alarms>>

KvSetReturns(w) ==
  /\ write[w].pc = "set" /\ write[w].todo = {}
  /\ write' = [write EXCEPT ![w].pc = "complete", ![w].end = now]
  /\ count' = [count EXCEPT !.sets = @ + 1,
                            !.setErrs = IF write[w].err THEN @ + 1 ELSE @]
  /\ UNCHANGED <<now, replica, cc, ChecksRun, read, loop, sem, wg, main,
                 alarms>>

AloneAtEnd(w) ==           \* mutant: the version is not compared
  rc = 1

Alone(w) == write[w].init = version /\ rc = 1

CompleteWrite(w) ==
  /\ write[w].pc = "complete"
  /\ IF ~write[w].err /\ Alone(w)
     THEN /\ overwritten' = overwritten \cup values
          /\ values' = {w}
     ELSE /\ values' = values \cup {w}
          /\ UNCHANGED overwritten
  /\ rc' = rc - 1
  /\ version' = version + 1
  /\ write' = [write EXCEPT ![w].pc = "done"]
  /\ Release
  /\ UNCHANGED <<now, replica, before, ChecksRun, read, loop, main, count,
                 alarms>>

-----------------------------------------------------------------------------
(***************************************************************************)
(* stressGets: BeginRead; kv.Get, which a replica answers, or fails;       *)
(* CheckReadCorrect of an answer.                                          *)
(***************************************************************************)
BeginRead(g) ==
  /\ read[g].pc = "begin"
  /\ read' = [read EXCEPT ![g].pc = "get", ![g].init = version,
                          ![g].pending = (rc # 0)]
  /\ UNCHANGED <<now, replica, cc, ChecksRun, write, tester, alarms>>

KvGet(g, r) ==
  /\ read[g].pc = "get" /\ KvFree(g)
  /\ read' = [read EXCEPT ![g].pc = "check",
       ![g].got = IF now < replica[r].exp THEN replica[r].val ELSE None]
  /\ UNCHANGED <<now, replica, cc, ChecksRun, write, tester, alarms>>

KvGetFails(g) ==
  /\ read[g].pc = "get" /\ KvFree(g)
  /\ read' = [read EXCEPT ![g].pc = "done", ![g].err = TRUE]
  /\ count' = [count EXCEPT !.gets = @ + 1, !.getErrs = @ + 1]
  /\ Release
  /\ UNCHANGED <<now, replica, cc, ChecksRun, write, loop, main, alarms>>

MaybeExpired(w) == Before(write[w].start + Ttl, now)

DefinitelyExpired(w, start) == Before(write[w].end + Ttl + Buffer, start)

(***************************************************************************)
(* What CheckReadCorrect says of the answer got of the Get g: nothing, or  *)
(* what is wrong with it.                                                  *)
(***************************************************************************)
Complaints(g) ==
  LET got == read[g].got
  IN IF got = None
     THEN IF values # {} /\ \A w \in values : ~MaybeExpired(w)
          THEN {"not found"} ELSE {}
     ELSE (IF got \notin values THEN {"incorrect"} ELSE {})
          \cup (IF /\ got \in values /\ ~write[got].err
                   /\ DefinitelyExpired(got, read[g].start)
                THEN {"expired"} ELSE {})

BeganQuiet(g) ==           \* mutant: only BeginRead is looked at
  ~read[g].pending

Quiet(g) == read[g].init = version /\ ~read[g].pending /\ rc = 0

(***************************************************************************)
(* A complaint counts as an inconsistency when the limiter of the log      *)
(* allows it.                                                              *)
(***************************************************************************)
Counted(g, wrong) ==
  \E n \in IF wrong THEN {0, 1} ELSE {0} :
    count' = [count EXCEPT !.gets = @ + 1, !.inconsistencies = @ + n]

CheckReadCorrect(g) ==
  /\ read[g].pc = "check"
  /\ IF Quiet(g)
     THEN /\ ChecksRun' = ChecksRun + 1
          /\ alarms' = alarms \cup {[what |-> c, of |-> values] :
                                      c \in Complaints(g)}
          /\ Counted(g, Complaints(g) # {})
     ELSE Counted(g, FALSE) /\ UNCHANGED <<ChecksRun, alarms>>
  /\ read' = [read EXCEPT ![g].pc = "done"]
  /\ Release
  /\ UNCHANGED <<now, replica, cc, write, loop, main>>

-----------------------------------------------------------------------------
Tick ==
  /\ now < MaxTime
  /\ now' = now + 1
  /\ UNCHANGED <<replica, cc, ChecksRun, write, read, tester, alarms>>

(***************************************************************************)
(* main waits for the wait group, then reads the counters.                 *)
(***************************************************************************)
Report ==
  /\ main = "waits" /\ wg = 0
  /\ main' = "reports"
  /\ UNCHANGED <<now, replica, cc, ChecksRun, write, read, loop, sem, wg,
                 count, alarms>>

StressInit ==
  /\ now = 0
  /\ replica = [r \in Replicas |-> [val |-> None, exp |-> 0]]
  /\ values = {} /\ overwritten = {} /\ version = 0 /\ rc = 0
  /\ ChecksRun = 0
  /\ write = [w \in Sets |-> [pc |-> "new", start |-> 0, init |-> 0,
                              todo |-> Replicas, err |-> FALSE, end |-> 0]]
  /\ read = [g \in Gets |-> [pc |-> "new", start |-> 0, init |-> 0,
                             pending |-> FALSE, got |-> None, err |-> FALSE]]
  /\ before = [w \in Sets |-> {}]
  /\ loop = [l \in Loops |-> "top"]
  /\ sem = MaxPending /\ wg = 2
  /\ main = "waits"
  /\ count = [gets |-> 0, getErrs |-> 0, sets |-> 0, setErrs |-> 0,
              inconsistencies |-> 0]
  /\ alarms = {}

SetStep(w) ==
  \/ BeginWrite(w) \/ KvSetReturns(w) \/ CompleteWrite(w)
  \/ \E r \in Replicas : KvSetAt(w, r)

GetStep(g) ==
  \/ BeginRead(g) \/ KvGetFails(g) \/ CheckReadCorrect(g)
  \/ \E r \in Replicas : KvGet(g, r)

StressNext ==
  \/ \E w \in Sets : StartSet(w) \/ SetStep(w)
  \/ \E g \in Gets : StartGet(g) \/ GetStep(g)
  \/ \E l \in Loops : GoOn(l) \/ EndLoop(l)
  \/ Tick \/ Report

StressSpec == StressInit /\ [][StressNext]_stressVars

(***************************************************************************)
(* Time passes; a request, which has a timeout, returns; the goroutines    *)
(* run on.                                                                 *)
(***************************************************************************)
FairStressSpec ==
  /\ StressSpec
  /\ WF_stressVars(Tick) /\ WF_stressVars(Report)
  /\ \A l \in Loops : WF_stressVars(EndLoop(l))
  /\ WF_stressVars(\E w \in Sets : StartSet(w))
  /\ WF_stressVars(\E g \in Gets : StartGet(g))
  /\ \A w \in Sets : WF_stressVars(SetStep(w))
  /\ \A g \in Gets : WF_stressVars(GetStep(g))

-----------------------------------------------------------------------------
(***************************************************************************)
(* Sets with no other Set between their begin and their end.               *)
(***************************************************************************)
Overlaps(w, v) == w \notin before[v] /\ v \notin before[w]
Solo(w) == \A v \in (Pending \cup Complete) \ {w} : ~Overlaps(w, v)

(***************************************************************************)
(* checker.go: "if a write was successful and not-concurrent, it is stored *)
(* as the only correct value.  If it errored, we add it to a list of       *)
(* potential values".  By real time: a value may be read unless a          *)
(* successful Set that overlaps no other began after its Set was over.     *)
(* The checker finds that out with two counters.                           *)
(***************************************************************************)
ValuesAreThoseNotOverwritten ==
  values = {w \in Complete :
              ~\E v \in Complete : ~write[v].err /\ Solo(v) /\ w \in before[v]}

(***************************************************************************)
(* checker.go: "Care is taken to avoid false positives": while the cluster *)
(* is right, the only complaint is that nothing was found, and only when   *)
(* every Set whose value could have been found returned an error.          *)
(***************************************************************************)
OnlyFailedSetsAlarm ==
  \A a \in alarms : a.what = "not found" /\ \A w \in a.of : write[w].err

(***************************************************************************)
(* The report of main is about the whole test: no request is on its way or *)
(* counted as one, and its numbers add up: what it prints, gets-getErrs,   *)
(* sets-setErrs and checks-inconsistencies, are the requests that went     *)
(* well and at most the answers there were.                                *)
(***************************************************************************)
ReportIsComplete ==
  LET Answered == {g \in Gets : read[g].pc = "done" /\ ~read[g].err}
  IN main = "reports" =>
       /\ \A q \in Sets : write[q].pc \in {"new", "done"}
       /\ \A g \in Gets : read[g].pc \in {"new", "done"}
       /\ sem = MaxPending /\ rc = 0
       /\ count.gets - count.getErrs = Cardinality(Answered)
       /\ count.sets - count.setErrs
            = Cardinality({w \in Complete : ~write[w].err})
       /\ count.inconsistencies <= ChecksRun
       /\ ChecksRun <= Cardinality(Answered)

(***************************************************************************)
(* The test ends, whatever requests the semaphore holds up.                *)
(***************************************************************************)
TestEnds == <>(main = "reports")
=============================================================================
