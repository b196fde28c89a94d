---------------------------- MODULE StressProofs ----------------------------
(***************************************************************************)
(* Proofs about the consistency checker, for any number of Sets, Gets and  *)
(* replicas and any TTL: its two counters tell which values may be read,   *)
(* a right answer is complained of only after Sets that all failed, and    *)
(* the report at the end counts every request that was made.               *)
(***************************************************************************)
EXTENDS StressTest, Integers, FiniteSetTheorems, TLAPS

(***************************************************************************)
(* The prover of the leaves that do not name one: those with arithmetic    *)
(* name SMT.                                                               *)
(***************************************************************************)
USE ZenonT(30)

WriteType ==
  [pc : {"new", "begin", "set", "complete", "done"}, start : Nat, init : Nat,
   todo : SUBSET Replicas, err : BOOLEAN, end : Nat]

ReadType ==
  [pc : {"new", "begin", "get", "check", "done"}, start : Nat, init : Nat,
   pending : BOOLEAN, got : Sets \cup {None}, err : BOOLEAN]

Types ==
  /\ now \in Nat /\ version \in Nat /\ rc \in Nat
  /\ replica \in [Replicas -> [val : Sets \cup {None}, exp : Nat]]
  /\ write \in [Sets -> WriteType]
  /\ read \in [Gets -> ReadType]
  /\ before \in [Sets -> SUBSET Sets]

Begun == Pending \cup Complete

(***************************************************************************)
(* rc counts the pending Sets and version the complete ones, and a pending *)
(* Set remembers how many were complete before it.                         *)
(***************************************************************************)
Counting ==
  /\ rc = Cardinality(Pending) /\ version = Cardinality(Complete)
  /\ \A w \in Begun : before[w] \subseteq Complete
  /\ \A w \in Pending : write[w].init = Cardinality(before[w])

(***************************************************************************)
(* What a Set leaves at the replicas: its value, for its TTL, at those it  *)
(* reached without an error, until a Set that began later comes there.     *)
(***************************************************************************)
WritesLand ==
  \A w \in Sets :
    /\ write[w].start <= now
    /\ write[w].pc \in {"new", "begin"} => write[w].todo = Replicas
    /\ write[w].pc \in {"complete", "done"} => write[w].todo = {}
    /\ ~write[w].err => \A r \in Replicas \ write[w].todo :
                          replica[r].val # None

Kept(r, w) ==
  /\ w \in Begun /\ r \notin write[w].todo
  /\ write[w].start + Ttl <= replica[r].exp
  /\ replica[r].exp <= now + Ttl
  /\ write[w].pc # "set" => replica[r].exp <= write[w].end + Ttl
  /\ \A v \in Begun : w \in before[v] => r \in write[v].todo \/ write[v].err

ReplicasHold ==
  \A r \in Replicas : replica[r].val # None => Kept(r, replica[r].val)

(***************************************************************************)
(* What a Get has read is still there if no Set has begun since.           *)
(***************************************************************************)
Seen(x, r) ==
  IF x.got = None
  THEN replica[r].val = None \/ replica[r].exp <= now
  ELSE replica[r].val = x.got /\ x.start < replica[r].exp

Current(g) == \E r \in Replicas : Seen(read[g], r)

ReadsCurrent ==
  \A g \in Gets :
    /\ read[g].start <= now /\ read[g].init <= version
    /\ read[g].pc = "check" /\ read[g].init = version /\ Pending = {}
         => Current(g)

AlarmsRight ==
  \A a \in alarms :
    a.what = "not found" /\ \A w \in a.of : w \in Complete /\ write[w].err

IndInv ==
  /\ Types /\ Counting /\ ValuesAreThoseNotOverwritten
  /\ WritesLand /\ ReplicasHold /\ ReadsCurrent /\ AlarmsRight

USE StressAssumption

(* The invariant holds at the start.                                       *)
LEMMA InitIndInv == StressInit => IndInv
<1> SUFFICES ASSUME StressInit PROVE IndInv
  OBVIOUS
<1>1. Pending = {} /\ Complete = {}
  BY DEF StressInit, Pending, Complete
<1>2. Cardinality({}) = 0
  BY FS_EmptySet
<1>3. Types
  BY DEF StressInit, Types, WriteType, ReadType
<1>4. Counting
  BY <1>1, <1>2 DEF StressInit, Counting, Begun
<1>5. ValuesAreThoseNotOverwritten
  BY <1>1 DEF StressInit, ValuesAreThoseNotOverwritten
<1>6. WritesLand /\ ReplicasHold
  BY SMTT(30) DEF StressInit, WritesLand, ReplicasHold
<1>7. ReadsCurrent /\ AlarmsRight
  BY SMTT(30) DEF StressInit, ReadsCurrent, AlarmsRight
<1> QED
  BY <1>3, <1>4, <1>5, <1>6, <1>7 DEF IndInv

(***************************************************************************)
(* Every set of Sets is finite, and knowing how many of a set's elements   *)
(* one has is knowing whether one has them all.                            *)
(***************************************************************************)
LEMMA SetsFinite ==
  /\ IsFiniteSet(Pending) /\ IsFiniteSet(Complete)
  /\ Cardinality(Pending) \in Nat /\ Cardinality(Complete) \in Nat
<1>1. Pending \in SUBSET Sets /\ Complete \in SUBSET Sets
  BY DEF Pending, Complete
<1> QED
  BY <1>1, FS_Subset, FS_CardinalityType

(***************************************************************************)
(* CompleteWrite knows from the two counters whether a Set overlapped      *)
(* another one.                                                            *)
(***************************************************************************)
LEMMA AloneIsSolo ==
  ASSUME IndInv, NEW w \in Pending
  PROVE  /\ Alone(w) <=> Solo(w)
         /\ Alone(w) => before[w] = Complete /\ Pending = {w}
<1>1. w \notin Complete /\ w \in Begun
  BY DEF Pending, Complete, Begun
<1>2. \A v \in Begun : before[v] \subseteq Complete
  BY DEF IndInv, Counting
<1>3. Alone(w) => before[w] = Complete /\ Pending = {w}
  <2> SUFFICES ASSUME Alone(w) PROVE before[w] = Complete /\ Pending = {w}
    OBVIOUS
  <2>1. Cardinality(before[w]) = Cardinality(Complete)
        /\ Cardinality(Pending) = 1
    BY DEF Alone, IndInv, Counting
  <2>2. before[w] = Complete
    BY <1>1, <1>2, <2>1, SetsFinite, FS_Subset
  <2>3. {w} \in SUBSET Pending /\ Cardinality({w}) = 1
    BY FS_Singleton
  <2>4. Pending = {w}
    BY <2>1, <2>3, SetsFinite, FS_Subset
  <2> QED
    BY <2>2, <2>4
<1>4. Alone(w) => Solo(w)
  BY <1>3 DEF Solo, Overlaps
<1>5. Solo(w) => Alone(w)
  <2> SUFFICES ASSUME Solo(w) PROVE Alone(w)
    OBVIOUS
  <2>1. \A v \in Begun \ {w} : v \in before[w]
    BY <1>1, <1>2 DEF Solo, Overlaps, Begun
  <2>2. before[w] = Complete
    BY <1>1, <1>2, <2>1 DEF Begun
  <2>3. Pending = {w}
    BY <1>1, <2>1, <2>2 DEF Begun, Pending, Complete
  <2>4. Cardinality({w}) = 1
    BY FS_Singleton
  <2> QED
    BY <2>2, <2>3, <2>4 DEF Alone, IndInv, Counting
<1> QED
  BY <1>3, <1>4, <1>5

-----------------------------------------------------------------------------
(***************************************************************************)
(* Steps that leave the pending and the complete Sets as they are.         *)
(***************************************************************************)
LEMMA SameSets ==
  ASSUME IndInv, Pending' = Pending, Complete' = Complete,
         UNCHANGED <<values, version, rc, before>>,
         \A w \in Pending : write'[w].init = write[w].init,
         \A w \in Complete : write'[w].err = write[w].err
  PROVE  Counting' /\ ValuesAreThoseNotOverwritten'
<1>1. Counting'
  BY DEF IndInv, Counting, Begun
<1>2. \A v : Solo(v)' <=> Solo(v)
  BY DEF Solo, Overlaps
<1>3. ValuesAreThoseNotOverwritten'
  BY <1>2 DEF IndInv, ValuesAreThoseNotOverwritten
<1> QED
  BY <1>1, <1>3

(* The tester's own steps touch nothing of it.                             *)
LEMMA QuietStep ==
  ASSUME IndInv, UNCHANGED <<now, replica, cc, write, read, alarms>>
  PROVE  IndInv'
<1>1. Pending' = Pending /\ Complete' = Complete
  BY DEF Pending, Complete
<1>2. UNCHANGED <<values, version, rc, before>>
  BY DEF cc
<1>3. Counting' /\ ValuesAreThoseNotOverwritten'
  BY <1>1, <1>2, SameSets
<1>4. Types' /\ WritesLand'
  BY <1>2 DEF IndInv, Types, WritesLand
<1>5. ReplicasHold'
  BY <1>1, <1>2 DEF IndInv, ReplicasHold, Kept, Begun
<1>6. ReadsCurrent' /\ AlarmsRight'
  BY <1>1, <1>2 DEF IndInv, ReadsCurrent, Current, Seen, AlarmsRight
<1> QED
  BY <1>3, <1>4, <1>5, <1>6 DEF IndInv

(* Time only makes values expire.                                          *)
LEMMA TickStep ==
  ASSUME IndInv, Tick
  PROVE  IndInv'
<1>1. /\ now' = now + 1 /\ now \in Nat
      /\ UNCHANGED <<replica, values, version, rc, before, write, read, alarms>>
  BY DEF Tick, cc, IndInv, Types
<1>2. Pending' = Pending /\ Complete' = Complete
  BY <1>1 DEF Pending, Complete
<1>3. Counting' /\ ValuesAreThoseNotOverwritten'
  BY <1>1, <1>2, SameSets
<1>4. Types'
  BY SMTT(30), <1>1 DEF IndInv, Types
<1>5. WritesLand'
  BY SMTT(30), <1>1 DEF IndInv, WritesLand, Types, WriteType
<1>6. ReplicasHold'
  <2> SUFFICES ASSUME NEW r \in Replicas, replica[r].val # None
               PROVE  Kept(r, replica[r].val)'
    BY <1>1 DEF ReplicasHold
  <2>1. Kept(r, replica[r].val) /\ replica[r].exp \in Nat
    BY DEF IndInv, ReplicasHold, Types
  <2> QED
    BY SMTT(30), <1>1, <1>2, <2>1 DEF Kept, Begun
<1>7. ReadsCurrent'
  <2> SUFFICES ASSUME NEW g \in Gets
               PROVE  /\ read[g].start <= now + 1 /\ read[g].init <= version
                      /\ read[g].pc = "check" /\ read[g].init = version
                         /\ Pending = {} => Current(g)'
    BY <1>1, <1>2 DEF ReadsCurrent
  <2>1. /\ read[g].start <= now /\ read[g].init <= version
        /\ read[g].pc = "check" /\ read[g].init = version
           /\ Pending = {} => Current(g)
    BY DEF IndInv, ReadsCurrent
  <2>2. Current(g) => Current(g)'
    BY SMTT(30), <1>1 DEF Current, Seen, IndInv, Types
  <2>3. read[g].start \in Nat
    BY DEF IndInv, Types, ReadType
  <2> QED
    BY SMTT(30), <1>1, <2>1, <2>2, <2>3
<1>8. AlarmsRight'
  BY <1>1, <1>2 DEF IndInv, AlarmsRight
<1> QED
  BY <1>3, <1>4, <1>5, <1>6, <1>7, <1>8 DEF IndInv

(* The start of a Set, which is counted as pending.                        *)
LEMMA StartSetStep ==
  ASSUME IndInv, NEW w \in Sets, StartSet(w)
  PROVE  IndInv'
<1> DEFINE x == [write[w] EXCEPT !.pc = "begin", !.start = now]
<1>1. /\ write[w].pc = "new" /\ write' = [write EXCEPT ![w] = x]
      /\ UNCHANGED <<now, replica, values, version, rc, before, read, alarms>>
  BY DEF StartSet, cc, IndInv, Types
<1>2. /\ x \in WriteType /\ x.pc = "begin" /\ x.start = now
      /\ x.todo = write[w].todo /\ x.err = write[w].err
  <2>1. write[w] \in WriteType /\ now \in Nat
    BY DEF IndInv, Types
  <2>2. x \in WriteType
    BY <2>1 DEF WriteType
  <2> QED
    BY <2>1, <2>2 DEF WriteType
<1> HIDE DEF x
<1>3. \A v \in Sets : write'[v] = IF v = w THEN x ELSE write[v]
  BY <1>1 DEF IndInv, Types
<1>4. Pending' = Pending /\ Complete' = Complete
      /\ w \notin Pending /\ w \notin Complete
  BY <1>1, <1>2, <1>3 DEF Pending, Complete
<1>5. \A v \in Begun : v \in Sets /\ v # w
  BY <1>4 DEF Begun, Pending, Complete
<1>6. Counting' /\ ValuesAreThoseNotOverwritten'
  BY SMTT(30), <1>1, <1>3, <1>4, SameSets DEF Pending, Complete
<1>7. Types'
  BY <1>1, <1>2 DEF IndInv, Types
<1>8. WritesLand'
  BY SMTT(30), <1>1, <1>2, <1>3 DEF IndInv, WritesLand, Types
<1>9. ReplicasHold'
  BY SMTT(30), <1>1, <1>3, <1>4, <1>5 DEF IndInv, ReplicasHold, Kept, Begun
<1>10. ReadsCurrent'
  BY <1>1, <1>4 DEF IndInv, ReadsCurrent, Current, Seen
<1>11. AlarmsRight'
  <2>1. \A v \in Complete : write'[v] = write[v]
    BY <1>3, <1>4 DEF Complete
  <2> QED
    BY <1>1, <1>4, <2>1 DEF IndInv, AlarmsRight
<1> QED
  BY <1>6, <1>7, <1>8, <1>9, <1>10, <1>11 DEF IndInv

(***************************************************************************)
(* A Set that begins is pending, after all that are complete.              *)
(***************************************************************************)
LEMMA BeginWriteStep ==
  ASSUME IndInv, NEW w \in Sets, BeginWrite(w)
  PROVE  IndInv'
<1> DEFINE x == [write[w] EXCEPT !.pc = "set", !.init = version]
<1>1. /\ write[w].pc = "begin" /\ write' = [write EXCEPT ![w] = x]
      /\ rc' = rc + 1 /\ before' = [before EXCEPT ![w] = Complete]
      /\ UNCHANGED <<now, replica, values, version, read, alarms>>
  BY DEF BeginWrite, IndInv, Types
<1>2. /\ x \in WriteType /\ x.pc = "set" /\ x.init = version
      /\ x.start = write[w].start /\ x.todo = write[w].todo
      /\ x.err = write[w].err
  <2>1. write[w] \in WriteType /\ version \in Nat
    BY DEF IndInv, Types
  <2>2. x \in WriteType
    BY <2>1 DEF WriteType
  <2> QED
    BY <2>1, <2>2 DEF WriteType
<1> HIDE DEF x
<1>3. \A v \in Sets : /\ write'[v] = IF v = w THEN x ELSE write[v]
                      /\ before'[v] = IF v = w THEN Complete ELSE before[v]
  BY <1>1 DEF IndInv, Types
<1>4. /\ Pending' = Pending \cup {w} /\ Complete' = Complete
      /\ w \notin Pending /\ w \notin Complete
  <2>1. Pending' = Pending \cup {w} /\ w \notin Pending
    BY SMTT(30), <1>1, <1>2, <1>3 DEF Pending
  <2>2. Complete' = Complete /\ w \notin Complete
    BY SMTT(30), <1>1, <1>2, <1>3 DEF Complete
  <2> QED
    BY <2>1, <2>2
<1>5. \A v \in Begun : v \in Sets /\ v # w
  BY <1>4 DEF Begun, Pending, Complete
<1>6. Types'
  <2>1. Complete \in SUBSET Sets
    BY DEF Complete
  <2> QED
    BY SMTT(30), <1>1, <1>2, <2>1 DEF IndInv, Types
<1>7. Counting'
  <2>1. rc' = Cardinality(Pending)'
    BY <1>1, <1>4, SetsFinite, FS_AddElement DEF IndInv, Counting
  <2>2. \A v \in Begun' : before'[v] \subseteq Complete'
    BY <1>3, <1>4, <1>5 DEF IndInv, Counting, Begun
  <2>3. \A v \in Pending' : write'[v].init = Cardinality(before'[v])
    BY SMTT(30), <1>1, <1>2, <1>3, <1>4, <1>5 DEF IndInv, Counting, Begun
  <2> QED
    BY <1>1, <1>4, <2>1, <2>2, <2>3 DEF IndInv, Counting
<1>8. \A v \in Complete : /\ Solo(v)' <=> Solo(v)
                          /\ before'[v] = before[v]
                          /\ write'[v].err = write[v].err
  <2> SUFFICES ASSUME NEW v \in Complete
               PROVE  /\ Solo(v)' <=> Solo(v)
                      /\ before'[v] = before[v]
                      /\ write'[v].err = write[v].err
    OBVIOUS
  <2>1. v \in Sets /\ v # w /\ before'[v] = before[v]
    BY <1>3, <1>5 DEF Begun
  <2>2. ~Overlaps(v, w)'
    BY <1>3 DEF Overlaps
  <2>3. \A u \in Begun : Overlaps(v, u)' <=> Overlaps(v, u)
    BY <1>3, <1>5, <2>1 DEF Overlaps
  <2>4. Solo(v)' <=> Solo(v)
    BY <1>4, <2>2, <2>3 DEF Solo, Begun
  <2> QED
    BY <1>3, <2>1, <2>4
<1>9. ValuesAreThoseNotOverwritten'
  BY <1>1, <1>4, <1>8 DEF IndInv, ValuesAreThoseNotOverwritten
<1>10. WritesLand'
  BY SMTT(30), <1>1, <1>2, <1>3 DEF IndInv, WritesLand, Types
<1>11. ReplicasHold'
  <2> SUFFICES ASSUME NEW r \in Replicas, replica[r].val # None
               PROVE  Kept(r, replica[r].val)'
    BY <1>1 DEF ReplicasHold
  <2> DEFINE v == replica[r].val
  <2>1. Kept(r, v)
    BY DEF IndInv, ReplicasHold
  <2>2. v \in Begun' /\ v \in Sets /\ v # w
    BY <1>4, <1>5, <2>1 DEF Kept, Begun
  <2>3. x.todo = Replicas
    BY <1>1, <1>2 DEF IndInv, WritesLand
  <2>4. \A u \in Begun' : v \in before'[u] =>
                            r \in write'[u].todo \/ write'[u].err
    BY <1>3, <1>4, <1>5, <2>1, <2>3 DEF Kept, Begun
  <2> QED
    BY <1>1, <1>3, <2>1, <2>2, <2>4 DEF Kept
<1>12. ReadsCurrent'
  BY <1>1, <1>4 DEF IndInv, ReadsCurrent
<1>13. AlarmsRight'
  BY <1>1, <1>4, <1>8 DEF IndInv, AlarmsRight
<1> QED
  BY <1>6, <1>7, <1>9, <1>10, <1>11, <1>12, <1>13 DEF IndInv

(***************************************************************************)
(* A pending Set reaches a replica, or fails there, or both.               *)
(***************************************************************************)
LEMMA KvSetAtStep ==
  ASSUME IndInv, NEW w \in Sets, NEW r \in Replicas, KvSetAt(w, r)
  PROVE  IndInv'
<1> DEFINE at == [val |-> w, exp |-> now + Ttl]
<1>1. /\ write[w].pc = "set" /\ r \in write[w].todo
      /\ UNCHANGED <<now, values, version, rc, before, read, alarms>>
  BY DEF KvSetAt, cc
<1>2. write[w] \in WriteType /\ now \in Nat
  BY DEF IndInv, Types
<1>3. PICK x \in WriteType :
        /\ write' = [write EXCEPT ![w] = x]
        /\ x.pc = "set" /\ x.start = write[w].start
        /\ x.init = write[w].init /\ x.todo = write[w].todo \ {r}
        /\ write[w].err => x.err
        /\ \/ replica' = [replica EXCEPT ![r] = at]
           \/ x.err /\ replica' = replica
  <2>1. PICK stored, err \in BOOLEAN :
          /\ stored \/ err
          /\ replica' = IF stored THEN [replica EXCEPT ![r] = at] ELSE replica
          /\ write' = [write EXCEPT ![w].todo = @ \ {r},
                                    ![w].err = @ \/ err]
    BY DEF KvSetAt
  <2> DEFINE y == [write[w] EXCEPT !.todo = @ \ {r}, !.err = @ \/ err]
  <2>2. write' = [write EXCEPT ![w] = y]
    BY <2>1 DEF IndInv, Types
  <2>3. y \in WriteType /\ y.pc = "set" /\ y.start = write[w].start
        /\ y.init = write[w].init /\ y.todo = write[w].todo \ {r}
        /\ y.err = (write[w].err \/ err)
    BY <1>1, <1>2 DEF WriteType
  <2> HIDE DEF y
  <2> QED
    BY <2>1, <2>2, <2>3
<1>4. \A v \in Sets : write'[v] = IF v = w THEN x ELSE write[v]
  BY <1>3 DEF IndInv, Types
<1>5. Pending' = Pending /\ w \in Pending
  BY <1>1, <1>3, <1>4 DEF Pending
<1>6. Complete' = Complete /\ w \notin Complete
  BY <1>1, <1>3, <1>4 DEF Complete
<1>7. \A v \in Begun : v \in Sets /\ w \notin before[v]
  BY <1>6 DEF IndInv, Counting, Begun, Pending, Complete
<1>8. at \in [val : Sets \cup {None}, exp : Nat] /\ at.val = w
      /\ at.exp = now + Ttl
  BY SMTT(30), <1>2
<1> HIDE DEF at
<1>9. \A q \in Replicas : \/ replica'[q] = replica[q]
                          \/ q = r /\ replica'[q] = at
  BY <1>3 DEF IndInv, Types
<1>10. Types'
  <2>1. replica' \in [Replicas -> [val : Sets \cup {None}, exp : Nat]]
    BY <1>3, <1>8 DEF IndInv, Types
  <2> QED
    BY <1>1, <1>3, <2>1 DEF IndInv, Types
<1>11. Counting' /\ ValuesAreThoseNotOverwritten'
  BY SMTT(30), <1>1, <1>3, <1>4, <1>5, <1>6, SameSets DEF Pending, Complete
<1>12. WritesLand'
  <2> SUFFICES ASSUME NEW v \in Sets
               PROVE  /\ write'[v].start <= now'
                      /\ write'[v].pc \in {"new", "begin"}
                           => write'[v].todo = Replicas
                      /\ write'[v].pc \in {"complete", "done"}
                           => write'[v].todo = {}
                      /\ ~write'[v].err => \A q \in Replicas \ write'[v].todo :
                                             replica'[q].val # None
    BY DEF WritesLand
  <2>1. /\ write[v].start <= now
        /\ write[v].pc \in {"new", "begin"} => write[v].todo = Replicas
        /\ write[v].pc \in {"complete", "done"} => write[v].todo = {}
        /\ ~write[v].err => \A q \in Replicas \ write[v].todo :
                              replica[q].val # None
    BY DEF IndInv, WritesLand
  <2>2. \A q \in Replicas : replica[q].val # None => replica'[q].val # None
    BY <1>8, <1>9
  <2>3. CASE v # w
    BY <1>1, <1>4, <2>1, <2>2, <2>3
  <2>4. CASE v = w
    <3>1. write'[v] = x
      BY <1>4, <2>4
    <3>2. ~x.err => replica'[r].val # None
      BY <1>3, <1>8 DEF IndInv, Types
    <3>3. ~x.err => \A q \in Replicas \ x.todo : replica'[q].val # None
      BY <1>3, <2>1, <2>2, <2>4, <3>2
    <3> QED
      BY <1>1, <1>3, <2>1, <2>4, <3>1, <3>3
  <2> QED
    BY <2>3, <2>4
<1>13. ReplicasHold'
  <2> SUFFICES ASSUME NEW q \in Replicas, replica'[q].val # None
               PROVE  Kept(q, replica[q].val)'
    BY DEF ReplicasHold
  <2>1. CASE replica'[q] = replica[q]
    <3> DEFINE v == replica[q].val
    <3>1. Kept(q, v)
      BY <2>1 DEF IndInv, ReplicasHold
    <3>2. v \in Begun' /\ v \in Sets
      BY <1>5, <1>6, <1>7, <3>1 DEF Kept, Begun
    <3>3. \A u \in Begun : v \in before[u] =>
                             q \in write'[u].todo \/ write'[u].err
      <4> SUFFICES ASSUME NEW u \in Begun, v \in before[u]
                   PROVE  q \in write'[u].todo \/ write'[u].err
        OBVIOUS
      <4>1. q \in write[u].todo \/ write[u].err
        BY <3>1 DEF Kept
      <4>2. CASE u = w /\ q = r /\ ~x.err
        <5>1. replica'[r] = at
          BY <1>3, <4>2 DEF IndInv, Types
        <5>2. v = w
          BY <1>8, <2>1, <4>2, <5>1
        <5> QED
          BY <1>7, <5>2
      <4> QED
        BY <1>3, <1>4, <1>7, <4>1, <4>2
    <3>4. /\ q \notin write'[v].todo /\ write'[v].start = write[v].start
          /\ write'[v].pc # "set" => write'[v] = write[v]
      BY <1>3, <1>4, <3>1, <3>2 DEF Kept
    <3> QED
      BY <1>1, <1>5, <1>6, <2>1, <3>1, <3>2, <3>3, <3>4 DEF Kept, Begun
  <2>2. CASE q = r /\ replica'[q] = at
    <3>1. write'[w] = x /\ w \in Begun /\ x.pc = "set" /\ r \notin x.todo
          /\ x.start = write[w].start
      BY <1>3, <1>4, <1>5 DEF Begun
    <3>2. write[w].start \in Nat /\ write[w].start <= now
      BY <1>2 DEF IndInv, WritesLand, WriteType
    <3>3. x.start + Ttl <= now + Ttl
      BY SMTT(30), <1>2, <3>1, <3>2
    <3>4. now + Ttl <= now + Ttl
      BY SMTT(30), <1>2
    <3> QED
      BY <1>1, <1>5, <1>6, <1>7, <1>8, <2>2, <3>1, <3>3, <3>4 DEF Kept, Begun
  <2> QED
    BY <1>9, <2>1, <2>2
<1>14. ReadsCurrent'
  BY <1>1, <1>5 DEF IndInv, ReadsCurrent
<1>15. AlarmsRight'
  <2>1. \A v \in Complete : v \in Complete' /\ write'[v] = write[v]
    BY <1>4, <1>6 DEF Complete
  <2> QED
    BY <1>1, <2>1 DEF IndInv, AlarmsRight
<1> QED
  BY <1>10, <1>11, <1>12, <1>13, <1>14, <1>15 DEF IndInv

(* The return of a Set, which is counted as complete.                      *)
LEMMA KvSetReturnsStep ==
  ASSUME IndInv, NEW w \in Sets, KvSetReturns(w)
  PROVE  IndInv'
<1> DEFINE x == [write[w] EXCEPT !.pc = "complete", !.end = now]
<1>1. /\ write[w].pc = "set" /\ write[w].todo = {}
      /\ write' = [write EXCEPT ![w] = x]
      /\ UNCHANGED <<now, replica, values, version, rc, before, read, alarms>>
  BY DEF KvSetReturns, cc, IndInv, Types
<1>2. write[w] \in WriteType /\ now \in Nat
  BY DEF IndInv, Types
<1>3. /\ x \in WriteType /\ x.pc = "complete" /\ x.start = write[w].start
      /\ x.init = write[w].init /\ x.todo = write[w].todo
      /\ x.err = write[w].err /\ x.end = now
  BY <1>2 DEF WriteType
<1> HIDE DEF x
<1>4. \A v \in Sets : write'[v] = IF v = w THEN x ELSE write[v]
  BY <1>1 DEF IndInv, Types
<1>5. Pending' = Pending /\ w \in Pending
  BY SMTT(30), <1>1, <1>3, <1>4 DEF Pending
<1>6. Complete' = Complete /\ w \notin Complete
  BY <1>1, <1>3, <1>4 DEF Complete
<1>7. Types'
  BY <1>1, <1>3 DEF IndInv, Types
<1>8. Counting' /\ ValuesAreThoseNotOverwritten'
  BY SMTT(30), <1>1, <1>3, <1>4, <1>5, <1>6, SameSets DEF Pending, Complete
<1>9. WritesLand'
  BY <1>1, <1>3, <1>4 DEF IndInv, WritesLand, Types
<1>10. ReplicasHold'
  <2> SUFFICES ASSUME NEW r \in Replicas, replica[r].val # None
               PROVE  Kept(r, replica[r].val)'
    BY <1>1 DEF ReplicasHold
  <2> DEFINE v == replica[r].val
  <2>1. Kept(r, v)
    BY DEF IndInv, ReplicasHold
  <2>2. v \in Sets /\ Begun' = Begun
    BY <1>5, <1>6, <2>1 DEF Kept, Begun, Pending, Complete
  <2>3. /\ r \notin write'[v].todo /\ write'[v].start = write[v].start
        /\ write'[v].pc # "set" => replica[r].exp <= write'[v].end + Ttl
    BY <1>3, <1>4, <2>1, <2>2 DEF Kept
  <2>4. \A u \in Begun : v \in before[u] =>
                           r \in write'[u].todo \/ write'[u].err
    BY <1>3, <1>4, <2>1 DEF Kept, Begun, Pending, Complete
  <2> QED
    BY <1>1, <2>1, <2>2, <2>3, <2>4 DEF Kept
<1>11. ReadsCurrent'
  BY <1>1, <1>5 DEF IndInv, ReadsCurrent
<1>12. AlarmsRight'
  <2>1. \A v \in Complete : v \in Complete' /\ write'[v] = write[v]
    BY <1>4, <1>6 DEF Complete
  <2> QED
    BY <1>1, <2>1 DEF IndInv, AlarmsRight
<1> QED
  BY <1>7, <1>8, <1>9, <1>10, <1>11, <1>12 DEF IndInv

(***************************************************************************)
(* A Set that is complete overwrites all others if it was alone.           *)
(***************************************************************************)
LEMMA CompleteWriteStep ==
  ASSUME IndInv, NEW w \in Sets, CompleteWrite(w)
  PROVE  IndInv'
<1> DEFINE x == [write[w] EXCEPT !.pc = "done"]
<1>1. /\ write[w].pc = "complete" /\ write' = [write EXCEPT ![w] = x]
      /\ rc' = rc - 1 /\ version' = version + 1
      /\ UNCHANGED <<now, replica, before, read, alarms>>
  BY DEF CompleteWrite, IndInv, Types
<1>2. write[w] \in WriteType /\ version \in Nat
  BY DEF IndInv, Types
<1>3. /\ x \in WriteType /\ x.pc = "done" /\ x.start = write[w].start
      /\ x.init = write[w].init /\ x.todo = write[w].todo
      /\ x.err = write[w].err /\ x.end = write[w].end
  BY <1>2 DEF WriteType
<1> HIDE DEF x
<1>4. \A v \in Sets : write'[v] = IF v = w THEN x ELSE write[v]
  BY <1>1 DEF IndInv, Types
<1>5. Pending' = Pending \ {w} /\ w \in Pending
  BY SMTT(30), <1>1, <1>3, <1>4 DEF Pending
<1>6. Complete' = Complete \cup {w} /\ w \notin Complete
  BY SMTT(30), <1>1, <1>3, <1>4 DEF Complete
<1>7. Begun' = Begun /\ \A v \in Begun : v \in Sets
  BY <1>5, <1>6 DEF Begun, Pending, Complete
<1>8. /\ rc' = Cardinality(Pending') /\ rc' \in Nat
      /\ version' = Cardinality(Complete')
  <2>1. Cardinality(Pending \ {w}) = Cardinality(Pending) - 1
    BY <1>5, SetsFinite, FS_RemoveElement
  <2>2. Cardinality(Pending \ {w}) \in Nat
    BY <1>5, SetsFinite, FS_RemoveElement, FS_CardinalityType
  <2>3. Cardinality(Complete \cup {w}) = Cardinality(Complete) + 1
    BY <1>6, SetsFinite, FS_AddElement
  <2> QED
    BY <1>1, <1>5, <1>6, <2>1, <2>2, <2>3 DEF IndInv, Counting
<1>9. Types'
  BY SMTT(30), <1>1, <1>2, <1>3, <1>8 DEF IndInv, Types
<1>10. Counting'
  <2>1. \A v \in Begun' : before'[v] \subseteq Complete'
    BY <1>1, <1>6, <1>7 DEF IndInv, Counting
  <2>2. \A v \in Pending' : write'[v].init = Cardinality(before'[v])
    BY <1>1, <1>4, <1>5 DEF IndInv, Counting, Pending
  <2> QED
    BY <1>8, <2>1, <2>2 DEF Counting
<1>11. ValuesAreThoseNotOverwritten'
  <2>1. \A v : Solo(v)' <=> Solo(v)
    BY <1>1, <1>7 DEF Solo, Overlaps, Begun
  <2>2. \A v \in Complete' : w \notin before[v]
    BY <1>5, <1>6 DEF IndInv, Counting, Begun
  <2>3. \A v \in Complete : write'[v].err = write[v].err
    BY <1>4, <1>6 DEF Complete
  <2>4. write'[w].err = write[w].err
    BY <1>3, <1>4
  <2>5. values = {v \in Complete : ~\E u \in Complete :
                    ~write[u].err /\ Solo(u) /\ v \in before[u]}
    BY DEF IndInv, ValuesAreThoseNotOverwritten
  <2>6. CASE ~write[w].err /\ Alone(w)
    <3>1. values' = {w}
      BY <2>6 DEF CompleteWrite
    <3>2. Solo(w) /\ before[w] = Complete
      BY <1>5, <2>6, AloneIsSolo
    <3>3. {v \in Complete' : ~\E u \in Complete' :
             ~write'[u].err /\ Solo(u)' /\ v \in before'[u]} = {w}
      BY <1>1, <1>6, <2>1, <2>2, <2>4, <2>6, <3>2
    <3> QED
      BY <3>1, <3>3 DEF ValuesAreThoseNotOverwritten
  <2>7. CASE ~(~write[w].err /\ Alone(w))
    <3>1. values' = values \cup {w}
      BY <2>7 DEF CompleteWrite
    <3>2. write[w].err \/ ~Solo(w)
      BY <1>5, <2>7, AloneIsSolo
    <3>3. {v \in Complete' : ~\E u \in Complete' :
             ~write'[u].err /\ Solo(u)' /\ v \in before'[u]}
            = values \cup {w}
      BY <1>1, <1>6, <2>1, <2>2, <2>3, <2>4, <2>5, <3>2
    <3> QED
      BY <3>1, <3>3 DEF ValuesAreThoseNotOverwritten
  <2> QED
    BY <2>6, <2>7
<1>12. WritesLand'
  BY <1>1, <1>3, <1>4 DEF IndInv, WritesLand, Types
<1>13. ReplicasHold'
  <2> SUFFICES ASSUME NEW r \in Replicas, replica[r].val # None
               PROVE  Kept(r, replica[r].val)'
    BY <1>1 DEF ReplicasHold
  <2> DEFINE v == replica[r].val
  <2>1. Kept(r, v)
    BY DEF IndInv, ReplicasHold
  <2>2. v \in Sets
    BY <1>7, <2>1 DEF Kept
  <2>3. /\ r \notin write'[v].todo /\ write'[v].start = write[v].start
        /\ write'[v].pc # "set" => replica[r].exp <= write'[v].end + Ttl
    BY <1>1, <1>3, <1>4, <2>1, <2>2 DEF Kept
  <2>4. \A u \in Begun : v \in before[u] =>
                           r \in write'[u].todo \/ write'[u].err
    BY <1>3, <1>4, <1>7, <2>1 DEF Kept
  <2> QED
    BY <1>1, <1>7, <2>1, <2>3, <2>4 DEF Kept
<1>14. ReadsCurrent'
  <2> SUFFICES ASSUME NEW g \in Gets
               PROVE  /\ read[g].start <= now
                      /\ read[g].init <= version + 1
                      /\ read[g].init # version + 1
    BY <1>1 DEF ReadsCurrent
  <2>1. /\ read[g].start <= now /\ read[g].init <= version
        /\ read[g].init \in Nat
    BY DEF IndInv, ReadsCurrent, Types, ReadType
  <2> QED
    BY SMTT(30), <1>2, <2>1
<1>15. AlarmsRight'
  <2>1. \A v \in Complete : v \in Complete' /\ write'[v] = write[v]
    BY <1>4, <1>6 DEF Complete
  <2> QED
    BY <1>1, <2>1 DEF IndInv, AlarmsRight
<1> QED
  BY <1>9, <1>10, <1>11, <1>12, <1>13, <1>14, <1>15 DEF IndInv

-----------------------------------------------------------------------------
(***************************************************************************)
(* A step of one Get.                                                      *)
(***************************************************************************)
LEMMA ReadStep ==
  ASSUME IndInv, NEW g \in Gets, NEW x \in ReadType,
         read' = [read EXCEPT ![g] = x],
         UNCHANGED <<now, replica, values, version, rc, before, write>>,
         x.start <= now, x.init <= version,
         x.pc = "check" => \E r \in Replicas : Seen(x, r),
         AlarmsRight'
  PROVE  IndInv'
<1>1. Pending' = Pending /\ Complete' = Complete
  BY DEF Pending, Complete
<1>2. \A h \in Gets : read'[h] = IF h = g THEN x ELSE read[h]
  BY DEF IndInv, Types
<1>3. Counting' /\ ValuesAreThoseNotOverwritten'
  BY <1>1, SameSets
<1>4. Types' /\ WritesLand'
  BY DEF IndInv, Types, WritesLand
<1>5. ReplicasHold'
  BY <1>1 DEF IndInv, ReplicasHold, Kept, Begun
<1>6. ReadsCurrent'
  BY SMTT(30), <1>1, <1>2 DEF IndInv, ReadsCurrent, Current, Seen
<1> QED
  BY <1>3, <1>4, <1>5, <1>6 DEF IndInv

(* A complaint that was right stays right while the Sets stay the same.    *)
LEMMA SameAlarms ==
  ASSUME IndInv, UNCHANGED <<alarms, write>>
  PROVE  AlarmsRight'
BY DEF IndInv, AlarmsRight, Complete

(* The start of a Get, its snapshot of the counters and its failure.       *)
LEMMA StartGetStep ==
  ASSUME IndInv, NEW g \in Gets, StartGet(g) \/ BeginRead(g) \/ KvGetFails(g)
  PROVE  IndInv'
<1>1. /\ UNCHANGED <<now, replica, values, version, rc, before, write>>
      /\ AlarmsRight'
  BY SameAlarms DEF StartGet, BeginRead, KvGetFails, cc
<1>2. /\ read[g] \in ReadType /\ now \in Nat /\ version \in Nat
      /\ read[g].start <= now /\ read[g].init <= version
      /\ read \in [Gets -> ReadType]
  BY DEF IndInv, Types, ReadsCurrent
<1>3. CASE StartGet(g)
  <2> DEFINE x == [read[g] EXCEPT !.pc = "begin", !.start = now]
  <2>1. read' = [read EXCEPT ![g] = x]
    BY <1>2, <1>3 DEF StartGet
  <2>2. x \in ReadType /\ x.pc = "begin" /\ x.start <= now
        /\ x.init <= version
    <3>1. x \in ReadType
      BY <1>2 DEF ReadType
    <3>2. x.pc = "begin" /\ x.start = now /\ x.init = read[g].init
      BY <1>2 DEF ReadType
    <3> HIDE DEF x
    <3> QED
      BY SMTT(30), <1>2, <3>1, <3>2
  <2> HIDE DEF x
  <2> QED
    BY <1>1, <2>1, <2>2, ReadStep
<1>4. CASE BeginRead(g)
  <2> DEFINE x == [read[g] EXCEPT !.pc = "get", !.init = version,
                                  !.pending = (rc # 0)]
  <2>1. read' = [read EXCEPT ![g] = x]
    BY <1>2, <1>4 DEF BeginRead
  <2>2. x \in ReadType
    BY <1>2 DEF ReadType
  <2>3. x.pc = "get" /\ x.start <= now /\ x.init <= version
    BY SMTT(30), <1>2 DEF ReadType
  <2> HIDE DEF x
  <2> QED
    BY <1>1, <2>1, <2>2, <2>3, ReadStep
<1>5. CASE KvGetFails(g)
  <2> DEFINE x == [read[g] EXCEPT !.pc = "done", !.err = TRUE]
  <2>1. read' = [read EXCEPT ![g] = x]
    BY <1>2, <1>5 DEF KvGetFails
  <2>2. x \in ReadType /\ x.pc = "done" /\ x.start <= now
        /\ x.init <= version
    BY <1>2 DEF ReadType
  <2> HIDE DEF x
  <2> QED
    BY <1>1, <2>1, <2>2, ReadStep
<1> QED
  BY <1>3, <1>4, <1>5

(* A Get reads at a replica.                                               *)
LEMMA KvGetStep ==
  ASSUME IndInv, NEW g \in Gets, NEW r \in Replicas, KvGet(g, r)
  PROVE  IndInv'
<1> DEFINE got == IF now < replica[r].exp THEN replica[r].val ELSE None
           x == [read[g] EXCEPT !.pc = "check", !.got = got]
<1>1. /\ UNCHANGED <<now, replica, values, version, rc, before, write>>
      /\ AlarmsRight'
  BY SameAlarms DEF KvGet, cc
<1>2. /\ read[g] \in ReadType /\ now \in Nat
      /\ read[g].start <= now /\ read[g].init <= version
      /\ read \in [Gets -> ReadType]
      /\ replica[r] \in [val : Sets \cup {None}, exp : Nat]
  BY DEF IndInv, Types, ReadsCurrent
<1>3. read' = [read EXCEPT ![g] = x]
  BY <1>2 DEF KvGet
<1>4. got \in Sets \cup {None}
  BY <1>2
<1>5. /\ got = None => replica[r].val = None \/ replica[r].exp <= now
      /\ got # None => replica[r].val = got /\ now < replica[r].exp
  BY SMTT(30), <1>2
<1> HIDE DEF got
<1>6. x \in ReadType /\ x.start = read[g].start /\ x.init = read[g].init
      /\ x.got = got
  BY <1>2, <1>4 DEF ReadType
<1>7. x.start \in Nat
  BY <1>6 DEF ReadType
<1> HIDE DEF x
<1>8. Seen(x, r)
  BY SMTT(30), <1>2, <1>5, <1>6, <1>7 DEF Seen
<1> QED
  BY <1>1, <1>2, <1>3, <1>6, <1>8, ReadStep

(***************************************************************************)
(* While no Set is pending, what a replica holds is a value that may be    *)
(* read.                                                                   *)
(***************************************************************************)
LEMMA HeldIsValue ==
  ASSUME IndInv, Pending = {}, NEW r \in Replicas, replica[r].val # None
  PROVE  /\ replica[r].val \in values
         /\ write[replica[r].val].start + Ttl <= replica[r].exp
         /\ replica[r].exp <= write[replica[r].val].end + Ttl
<1> DEFINE v == replica[r].val
<1>1. Kept(r, v)
  BY DEF IndInv, ReplicasHold
<1>2. v \in Complete /\ Begun = Complete
  BY <1>1 DEF Kept, Begun
<1>3. \A u \in Complete : write[u].todo = {} /\ write[u].pc = "done"
  BY DEF IndInv, WritesLand, Complete
<1>4. \A u \in Complete : v \in before[u] => write[u].err
  BY <1>1, <1>2, <1>3 DEF Kept
<1>5. v \in values
  BY <1>2, <1>4 DEF IndInv, ValuesAreThoseNotOverwritten
<1> QED
  BY <1>1, <1>2, <1>3, <1>5 DEF Kept

(***************************************************************************)
(* What CheckReadCorrect may complain of.                                  *)
(***************************************************************************)
LEMMA ComplaintsRight ==
  ASSUME IndInv, NEW g \in Gets, read[g].pc = "check", Quiet(g),
         NEW c \in Complaints(g)
  PROVE  c = "not found" /\ \A w \in values : w \in Complete /\ write[w].err
<1>1. Pending = {}
  <2>1. Cardinality(Pending) = 0
    BY DEF Quiet, IndInv, Counting
  <2> QED
    BY <2>1, SetsFinite, FS_EmptySet
<1>2. PICK r \in Replicas : Seen(read[g], r)
  BY <1>1 DEF Quiet, IndInv, ReadsCurrent, Current
<1>3. /\ now \in Nat /\ replica[r].exp \in Nat
      /\ read[g].start \in Nat /\ read[g].start <= now
      /\ \A w \in Sets : write[w].start \in Nat /\ write[w].end \in Nat
  BY DEF IndInv, Types, ReadType, WriteType, ReadsCurrent
<1>4. values \subseteq Complete /\ Complete \subseteq Sets
  BY DEF IndInv, ValuesAreThoseNotOverwritten, Complete
<1>5. CASE read[g].got = None
  <2>1. c = "not found" /\ \A w \in values : ~MaybeExpired(w)
    BY <1>5 DEF Complaints
  <2> SUFFICES ASSUME NEW w \in values, ~write[w].err PROVE FALSE
    BY <1>4, <2>1
  <2>2. write[w].todo = {}
    BY <1>4 DEF IndInv, WritesLand, Complete
  <2>3. replica[r].val # None
    BY <1>4, <2>2 DEF IndInv, WritesLand
  <2>4. replica[r].exp <= now
    BY <1>2, <1>5, <2>3 DEF Seen
  <2>5. /\ replica[r].val \in values
        /\ write[replica[r].val].start + Ttl <= replica[r].exp
    BY <1>1, <2>3, HeldIsValue
  <2>6. ~(write[replica[r].val].start + Ttl <= now)
    BY <2>1, <2>5 DEF MaybeExpired, Before
  <2> QED
    BY SMTT(30), <1>3, <1>4, <2>4, <2>5, <2>6
<1>6. CASE read[g].got # None
  <2> DEFINE v == read[g].got
  <2>1. replica[r].val = v /\ read[g].start < replica[r].exp
    BY <1>2, <1>6 DEF Seen
  <2>2. v \in values /\ replica[r].exp <= write[v].end + Ttl
    BY <1>1, <1>6, <2>1, HeldIsValue
  <2>3. DefinitelyExpired(v, read[g].start)
    BY <1>6, <2>2 DEF Complaints
  <2>4. write[v].end + Ttl + Buffer <= read[g].start
    BY <2>3 DEF DefinitelyExpired, Before
  <2>5. write[v].end \in Nat
    BY <1>3, <1>4, <2>2
  <2>6. \A e, s, t \in Nat : ~(e + Ttl + Buffer <= s /\ s < t /\ t <= e + Ttl)
    BY SMTT(30)
  <2> QED
    BY <1>3, <2>1, <2>2, <2>4, <2>5, <2>6
<1> QED
  BY <1>5, <1>6

(* The check of what a Get has read.                                       *)
LEMMA CheckStep ==
  ASSUME IndInv, NEW g \in Gets, CheckReadCorrect(g)
  PROVE  IndInv'
<1> DEFINE x == [read[g] EXCEPT !.pc = "done"]
<1>1. UNCHANGED <<now, replica, values, version, rc, before, write>>
  BY DEF CheckReadCorrect, cc
<1>2. /\ read[g] \in ReadType /\ read[g].start <= now
      /\ read[g].init <= version /\ read \in [Gets -> ReadType]
  BY DEF IndInv, Types, ReadsCurrent
<1>3. read' = [read EXCEPT ![g] = x]
  BY <1>2 DEF CheckReadCorrect
<1>4. x \in ReadType /\ x.pc = "done" /\ x.start <= now /\ x.init <= version
  BY <1>2 DEF ReadType
<1>5. AlarmsRight'
  <2>1. CASE ~Quiet(g)
    BY <1>1, <2>1, SameAlarms DEF CheckReadCorrect
  <2>2. CASE Quiet(g)
    <3>1. alarms' = alarms \cup {[what |-> c, of |-> values] :
                                   c \in Complaints(g)}
      BY <2>2 DEF CheckReadCorrect
    <3>2. \A c \in Complaints(g) : /\ c = "not found"
            /\ \A w \in values : w \in Complete /\ write[w].err
      BY <2>2, ComplaintsRight DEF CheckReadCorrect
    <3>3. Complete' = Complete
      BY <1>1 DEF Complete
    <3>4. ASSUME NEW a \in alarms'
          PROVE  /\ a.what = "not found"
                 /\ \A w \in a.of : w \in Complete' /\ write'[w].err
      <4>1. CASE a \in alarms
        BY <1>1, <3>3, <4>1 DEF IndInv, AlarmsRight
      <4>2. CASE a \notin alarms
        <5>1. PICK c \in Complaints(g) : a = [what |-> c, of |-> values]
          BY <3>1, <4>2
        <5>2. a.what = c /\ a.of = values
          BY <5>1
        <5> QED
          BY <1>1, <3>2, <3>3, <5>2
      <4> QED
        BY <4>1, <4>2
    <3> QED
      BY <3>4 DEF AlarmsRight
  <2> QED
    BY <2>1, <2>2
<1> HIDE DEF x
<1> QED
  BY <1>1, <1>3, <1>4, <1>5, ReadStep

(* Every step keeps the invariant,                                         *)
LEMMA NextIndInv == IndInv /\ [StressNext]_stressVars => IndInv'
<1> SUFFICES ASSUME IndInv, [StressNext]_stressVars PROVE IndInv'
  OBVIOUS
<1>1. ASSUME NEW w \in Sets, StartSet(w) \/ SetStep(w) PROVE IndInv'
  BY <1>1, StartSetStep, BeginWriteStep, KvSetAtStep, KvSetReturnsStep,
     CompleteWriteStep DEF SetStep
<1>2. ASSUME NEW g \in Gets, StartGet(g) \/ GetStep(g) PROVE IndInv'
  BY <1>2, StartGetStep, KvGetStep, CheckStep DEF GetStep
<1>3. ASSUME NEW l \in Loops, GoOn(l) \/ EndLoop(l) PROVE IndInv'
  BY <1>3, QuietStep DEF GoOn, EndLoop, tester
<1>4. CASE Tick
  BY <1>4, TickStep
<1>5. CASE Report \/ UNCHANGED stressVars
  BY <1>5, QuietStep DEF Report, stressVars
<1> QED
  BY <1>1, <1>2, <1>3, <1>4, <1>5 DEF StressNext

(* so it holds in all reachable states.                                    *)
LEMMA IndInvHolds == StressSpec => []IndInv
<1> QED
  BY InitIndInv, NextIndInv, PTL DEF StressSpec

-----------------------------------------------------------------------------
(***************************************************************************)
(* The counters of the tester: who runs holds a permit of the semaphore    *)
(* and is counted in the wait group, as the loops are; a request is        *)
(* counted when its answer is there.                                       *)
(***************************************************************************)
RunningSets == {w \in Sets : write[w].pc \notin {"new", "done"}}
RunningGets == {g \in Gets : read[g].pc \notin {"new", "done"}}
LoopRuns(l) == IF loop[l] # "ended" THEN 1 ELSE 0
SetsWell ==
  {w \in Sets : write[w].pc \in {"complete", "done"} /\ ~write[w].err}
GetsWell == {g \in Gets : read[g].pc = "done" /\ ~read[g].err}

CountType ==
  [gets : Nat, getErrs : Nat, sets : Nat, setErrs : Nat, inconsistencies : Nat]

TesterTypes ==
  /\ loop \in [Loops -> {"top", "acquire", "ended"}]
  /\ main \in {"waits", "reports"} /\ sem \in Int /\ wg \in Int
  /\ count \in CountType
  /\ ChecksRun \in Nat

TesterInv ==
  /\ TesterTypes
  /\ \A g \in Gets : read[g].err => read[g].pc = "done"
  /\ sem + Cardinality(RunningSets) + Cardinality(RunningGets) = MaxPending
  /\ wg = Cardinality(RunningSets) + Cardinality(RunningGets)
          + LoopRuns("Set") + LoopRuns("Get")
  /\ main = "reports" => wg = 0
  /\ count.gets = count.getErrs + Cardinality(GetsWell)
  /\ count.sets = count.setErrs + Cardinality(SetsWell)
  /\ count.inconsistencies <= ChecksRun
  /\ ChecksRun <= Cardinality(GetsWell)

(***************************************************************************)
(* Two sets that differ in one element at most.                            *)
(***************************************************************************)
LEMMA CountMoves ==
  ASSUME NEW T, IsFiniteSet(T), NEW q \in T, NEW A \in SUBSET T,
         NEW B \in SUBSET T, \A p \in T \ {q} : p \in A <=> p \in B
  PROVE  /\ Cardinality(A) \in Nat /\ Cardinality(B) \in Nat
         /\ (q \in A <=> q \in B) => Cardinality(B) = Cardinality(A)
         /\ q \in A /\ q \notin B => Cardinality(A) = Cardinality(B) + 1
         /\ q \notin A /\ q \in B => Cardinality(B) = Cardinality(A) + 1
<1>1. IsFiniteSet(A) /\ IsFiniteSet(B)
  BY FS_Subset
<1>2. Cardinality(A) \in Nat /\ Cardinality(B) \in Nat
  BY <1>1, FS_CardinalityType
<1>3. (q \in A <=> q \in B) => A = B
  BY SMTT(30)
<1>4. ASSUME q \in A, q \notin B PROVE Cardinality(A) = Cardinality(B) + 1
  <2>1. A = B \cup {q}
    BY <1>4
  <2> QED
    BY <1>1, <1>4, <2>1, FS_AddElement
<1>5. ASSUME q \notin A, q \in B PROVE Cardinality(B) = Cardinality(A) + 1
  <2>1. B = A \cup {q}
    BY <1>5
  <2> QED
    BY <1>1, <1>5, <2>1, FS_AddElement
<1> QED
  BY <1>2, <1>3, <1>4, <1>5

(***************************************************************************)
(* What a step of a Set, or of a Get, is to the counters.                  *)
(***************************************************************************)
LEMMA SetMoves ==
  ASSUME NEW w \in Sets, \A v \in Sets \ {w} : write'[v] = write[v]
  PROVE  /\ Cardinality(RunningSets) \in Nat /\ Cardinality(RunningSets') \in Nat
         /\ Cardinality(SetsWell) \in Nat /\ Cardinality(SetsWell') \in Nat
         /\ (w \in RunningSets <=> w \in RunningSets') =>
              Cardinality(RunningSets') = Cardinality(RunningSets)
         /\ w \in RunningSets /\ w \notin RunningSets' =>
              Cardinality(RunningSets) = Cardinality(RunningSets') + 1
         /\ w \notin RunningSets /\ w \in RunningSets' =>
              Cardinality(RunningSets') = Cardinality(RunningSets) + 1
         /\ (w \in SetsWell <=> w \in SetsWell') =>
              Cardinality(SetsWell') = Cardinality(SetsWell)
         /\ w \notin SetsWell /\ w \in SetsWell' =>
              Cardinality(SetsWell') = Cardinality(SetsWell) + 1
<1>1. /\ RunningSets \in SUBSET Sets /\ RunningSets' \in SUBSET Sets
      /\ SetsWell \in SUBSET Sets /\ SetsWell' \in SUBSET Sets
  BY DEF RunningSets, SetsWell
<1>2. \A v \in Sets \ {w} : v \in RunningSets <=> v \in RunningSets'
  BY DEF RunningSets
<1>3. \A v \in Sets \ {w} : v \in SetsWell <=> v \in SetsWell'
  BY DEF SetsWell
<1>4. IsFiniteSet(Sets)
  OBVIOUS
<1> QED
  BY SMTT(30), <1>1, <1>2, <1>3, <1>4, CountMoves

(* The same of the Gets, when one of them moves.                           *)
LEMMA GetMoves ==
  ASSUME NEW g \in Gets, \A h \in Gets \ {g} : read'[h] = read[h]
  PROVE  /\ Cardinality(RunningGets) \in Nat /\ Cardinality(RunningGets') \in Nat
         /\ Cardinality(GetsWell) \in Nat /\ Cardinality(GetsWell') \in Nat
         /\ (g \in RunningGets <=> g \in RunningGets') =>
              Cardinality(RunningGets') = Cardinality(RunningGets)
         /\ g \in RunningGets /\ g \notin RunningGets' =>
              Cardinality(RunningGets) = Cardinality(RunningGets') + 1
         /\ g \notin RunningGets /\ g \in RunningGets' =>
              Cardinality(RunningGets') = Cardinality(RunningGets) + 1
         /\ (g \in GetsWell <=> g \in GetsWell') =>
              Cardinality(GetsWell') = Cardinality(GetsWell)
         /\ g \notin GetsWell /\ g \in GetsWell' =>
              Cardinality(GetsWell') = Cardinality(GetsWell) + 1
<1>1. /\ RunningGets \in SUBSET Gets /\ RunningGets' \in SUBSET Gets
      /\ GetsWell \in SUBSET Gets /\ GetsWell' \in SUBSET Gets
  BY DEF RunningGets, GetsWell
<1>2. \A h \in Gets \ {g} : h \in RunningGets <=> h \in RunningGets'
  BY DEF RunningGets
<1>3. \A h \in Gets \ {g} : h \in GetsWell <=> h \in GetsWell'
  BY DEF GetsWell
<1>4. IsFiniteSet(Gets)
  OBVIOUS
<1> QED
  BY SMTT(30), <1>1, <1>2, <1>3, <1>4, CountMoves

(* All the numbers are natural, and zero only if nothing is counted.       *)
LEMMA AllFinite ==
  /\ Cardinality(RunningSets) \in Nat /\ Cardinality(RunningGets) \in Nat
  /\ Cardinality(SetsWell) \in Nat /\ Cardinality(GetsWell) \in Nat
  /\ Cardinality(RunningSets) = 0 => RunningSets = {}
  /\ Cardinality(RunningGets) = 0 => RunningGets = {}
<1>1. /\ RunningSets \subseteq Sets /\ RunningGets \subseteq Gets
      /\ SetsWell \subseteq Sets /\ GetsWell \subseteq Gets
  BY DEF RunningSets, RunningGets, SetsWell, GetsWell
<1>2. /\ IsFiniteSet(RunningSets) /\ IsFiniteSet(RunningGets)
      /\ IsFiniteSet(SetsWell) /\ IsFiniteSet(GetsWell)
  BY <1>1, FS_Subset
<1> QED
  BY <1>2, FS_CardinalityType, FS_EmptySet

(***************************************************************************)
(* Once main reports nothing runs any more.                                *)
(***************************************************************************)
LEMMA NothingRuns ==
  ASSUME TesterInv, main = "reports"
  PROVE  /\ RunningSets = {} /\ RunningGets = {}
         /\ \A l \in Loops : loop[l] = "ended"
<1>1. /\ Cardinality(RunningSets) \in Nat /\ Cardinality(RunningGets) \in Nat
      /\ LoopRuns("Set") \in {0, 1} /\ LoopRuns("Get") \in {0, 1}
  BY AllFinite DEF LoopRuns
<1>2. Cardinality(RunningSets) + Cardinality(RunningGets)
        + LoopRuns("Set") + LoopRuns("Get") = 0
  BY DEF TesterInv
<1>3. /\ Cardinality(RunningSets) = 0 /\ Cardinality(RunningGets) = 0
      /\ LoopRuns("Set") = 0 /\ LoopRuns("Get") = 0
  BY SMTT(30), <1>1, <1>2
<1>4. loop["Set"] = "ended" /\ loop["Get"] = "ended"
  BY SMTT(30), <1>3 DEF LoopRuns
<1> QED
  BY <1>3, <1>4, AllFinite DEF Loops

(***************************************************************************)
(* The steps of the loops, of main and of the clock.                       *)
(***************************************************************************)
LEMMA TesterKept ==
  ASSUME TesterInv, UNCHANGED <<write, read, sem, wg, main, count, ChecksRun>>,
         loop' \in [Loops -> {"top", "acquire", "ended"}],
         \A l \in Loops : loop'[l] = "ended" <=> loop[l] = "ended"
  PROVE  TesterInv'
<1>1. /\ RunningSets' = RunningSets /\ RunningGets' = RunningGets
      /\ SetsWell' = SetsWell /\ GetsWell' = GetsWell
  BY DEF RunningSets, RunningGets, SetsWell, GetsWell
<1>2. LoopRuns("Set")' = LoopRuns("Set") /\ LoopRuns("Get")' = LoopRuns("Get")
  BY DEF LoopRuns, Loops
<1> QED
  BY <1>1, <1>2 DEF TesterInv, TesterTypes

(* A loop goes on or ends: the wait group follows.                         *)
LEMMA LoopSteps ==
  ASSUME TesterInv, NEW l \in Loops, GoOn(l) \/ EndLoop(l)
  PROVE  TesterInv'
<1>1. loop \in [Loops -> {"top", "acquire", "ended"}]
  BY DEF TesterInv, TesterTypes
<1>2. CASE GoOn(l)
  <2>1. UNCHANGED <<write, read, sem, wg, main, count, ChecksRun>>
    BY <1>2 DEF GoOn
  <2>2. /\ loop' \in [Loops -> {"top", "acquire", "ended"}]
        /\ \A m \in Loops : loop'[m] = "ended" <=> loop[m] = "ended"
    BY <1>1, <1>2 DEF GoOn
  <2> QED
    BY <2>1, <2>2, TesterKept
<1>3. CASE EndLoop(l)
  <2>1. /\ loop' = [loop EXCEPT ![l] = "ended"] /\ loop[l] = "top"
        /\ wg' = wg - 1
        /\ UNCHANGED <<write, read, sem, main, count, ChecksRun>>
    BY <1>3 DEF EndLoop
  <2>2. /\ RunningSets' = RunningSets /\ RunningGets' = RunningGets
        /\ SetsWell' = SetsWell /\ GetsWell' = GetsWell
    BY <2>1 DEF RunningSets, RunningGets, SetsWell, GetsWell
  <2>3. LoopRuns("Set") + LoopRuns("Get")
          = LoopRuns("Set")' + LoopRuns("Get")' + 1
    BY SMTT(30), <1>1, <2>1 DEF LoopRuns, Loops
  <2>4. /\ LoopRuns("Set")' \in Nat /\ LoopRuns("Get")' \in Nat
        /\ LoopRuns("Set") \in Nat /\ LoopRuns("Get") \in Nat
    BY DEF LoopRuns
  <2>5. main # "reports"
    BY <2>1, NothingRuns
  <2>6. TesterTypes'
    BY SMTT(30), <1>1, <2>1 DEF TesterInv, TesterTypes
  <2>7. wg' = Cardinality(RunningSets') + Cardinality(RunningGets')
              + LoopRuns("Set")' + LoopRuns("Get")'
    BY SMTT(30), <2>1, <2>2, <2>3, <2>4, AllFinite DEF TesterInv
  <2> QED
    BY <2>1, <2>2, <2>5, <2>6, <2>7 DEF TesterInv
<1> QED
  BY <1>2, <1>3

(* The report changes nothing of it.                                       *)
LEMMA ReportStep ==
  ASSUME TesterInv, Report
  PROVE  TesterInv'
<1>1. /\ RunningSets' = RunningSets /\ RunningGets' = RunningGets
      /\ SetsWell' = SetsWell /\ GetsWell' = GetsWell
      /\ LoopRuns("Set")' = LoopRuns("Set")
      /\ LoopRuns("Get")' = LoopRuns("Get")
  BY DEF Report, RunningSets, RunningGets, SetsWell, GetsWell, LoopRuns
<1> QED
  BY <1>1 DEF Report, TesterInv, TesterTypes

(***************************************************************************)
(* A request is admitted by its loop: a permit less, one more to wait for. *)
(***************************************************************************)
LEMMA AdmitLoop ==
  ASSUME TesterInv, NEW l \in Loops, Admit(l)
  PROVE  /\ loop' \in [Loops -> {"top", "acquire", "ended"}]
         /\ LoopRuns("Set")' = LoopRuns("Set")
         /\ LoopRuns("Get")' = LoopRuns("Get")
         /\ LoopRuns("Set") \in Nat /\ LoopRuns("Get") \in Nat
         /\ main # "reports" /\ sem' = sem - 1 /\ wg' = wg + 1
<1>1. loop \in [Loops -> {"top", "acquire", "ended"}]
  BY DEF TesterInv, TesterTypes
<1>2. loop' = [loop EXCEPT ![l] = "top"] /\ loop[l] = "acquire"
  BY DEF Admit
<1>3. main # "reports"
  BY <1>2, NothingRuns
<1> QED
  BY <1>1, <1>2, <1>3 DEF Admit, LoopRuns, Loops

(***************************************************************************)
(* The steps of a Set.                                                     *)
(***************************************************************************)
LEMMA SetTester ==
  ASSUME IndInv, TesterInv, NEW w \in Sets, StartSet(w) \/ SetStep(w)
  PROVE  TesterInv'
<1>1. write \in [Sets -> WriteType]
  BY DEF IndInv, Types
<1>2. /\ sem \in Int /\ wg \in Int /\ MaxPending \in Nat
      /\ sem + Cardinality(RunningSets) + Cardinality(RunningGets) = MaxPending
      /\ wg = Cardinality(RunningSets) + Cardinality(RunningGets)
              + LoopRuns("Set") + LoopRuns("Get")
      /\ LoopRuns("Set") \in Nat /\ LoopRuns("Get") \in Nat
  BY DEF TesterInv, TesterTypes, LoopRuns
<1>3. CASE StartSet(w)
  <2> DEFINE x == [write[w] EXCEPT !.pc = "begin", !.start = now]
  <2>1. /\ write' = [write EXCEPT ![w] = x] /\ write[w].pc = "new"
        /\ Admit("Set") /\ UNCHANGED <<read, main, count, ChecksRun>>
    BY <1>1, <1>3 DEF StartSet
  <2>2. x.pc = "begin"
    BY <1>1 DEF WriteType
  <2> HIDE DEF x
  <2>3. /\ \A v \in Sets \ {w} : write'[v] = write[v]
        /\ write'[w].pc = "begin"
    BY <1>1, <2>1, <2>2
  <2>4. /\ w \notin RunningSets /\ w \in RunningSets'
        /\ w \notin SetsWell /\ w \notin SetsWell'
    BY <2>1, <2>3 DEF RunningSets, SetsWell
  <2>5. /\ Cardinality(RunningSets) \in Nat
        /\ Cardinality(RunningSets') = Cardinality(RunningSets) + 1
        /\ Cardinality(SetsWell') = Cardinality(SetsWell)
    BY <2>3, <2>4, SetMoves
  <2>6. RunningGets' = RunningGets /\ GetsWell' = GetsWell
    BY <2>1 DEF RunningGets, GetsWell
  <2>7. "Set" \in Loops
    BY DEF Loops
  <2>8. /\ loop' \in [Loops -> {"top", "acquire", "ended"}]
        /\ LoopRuns("Set")' = LoopRuns("Set")
        /\ LoopRuns("Get")' = LoopRuns("Get")
        /\ main # "reports" /\ sem' = sem - 1 /\ wg' = wg + 1
    BY <2>1, <2>7, AdmitLoop
  <2>9. /\ sem' + Cardinality(RunningSets') + Cardinality(RunningGets')
             = MaxPending
        /\ wg' = Cardinality(RunningSets') + Cardinality(RunningGets')
                 + LoopRuns("Set")' + LoopRuns("Get")'
    BY SMTT(30), <1>2, <2>5, <2>6, <2>8, AllFinite
  <2>10. TesterTypes'
    BY SMTT(30), <1>2, <2>1, <2>8 DEF TesterInv, TesterTypes
  <2> QED
    BY <2>1, <2>5, <2>6, <2>8, <2>9, <2>10 DEF TesterInv
<1>4. CASE BeginWrite(w) \/ \E r \in Replicas : KvSetAt(w, r)
  <2>1. /\ \A v \in Sets \ {w} : write'[v] = write[v]
        /\ write[w].pc \in {"begin", "set"} /\ write'[w].pc = "set"
        /\ UNCHANGED <<read, loop, sem, wg, main, count, ChecksRun>>
    <3>1. CASE BeginWrite(w)
      <4>1. /\ write[w].pc = "begin"
            /\ write' = [write EXCEPT ![w].pc = "set", ![w].init = version]
            /\ UNCHANGED <<read, loop, sem, wg, main, count, ChecksRun>>
        BY <3>1 DEF BeginWrite, tester
      <4> QED
        BY <1>1, <4>1 DEF WriteType
    <3>2. ASSUME NEW r \in Replicas, KvSetAt(w, r)
          PROVE  /\ \A v \in Sets \ {w} : write'[v] = write[v]
                 /\ write[w].pc = "set" /\ write'[w].pc = "set"
                 /\ UNCHANGED <<read, loop, sem, wg, main, count, ChecksRun>>
      <4>1. /\ write[w].pc = "set"
            /\ \E err \in BOOLEAN :
                 write' = [write EXCEPT ![w].todo = @ \ {r},
                                        ![w].err = @ \/ err]
            /\ UNCHANGED <<read, loop, sem, wg, main, count, ChecksRun>>
        BY <3>2 DEF KvSetAt, tester
      <4>2. write[w] \in WriteType
        BY <1>1
      <4> QED
        BY SMTT(30), <1>1, <4>1, <4>2 DEF WriteType
    <3> QED
      BY <1>4, <3>1, <3>2
  <2>2. /\ w \in RunningSets /\ w \in RunningSets'
        /\ w \notin SetsWell /\ w \notin SetsWell'
    BY <2>1 DEF RunningSets, SetsWell
  <2>3. /\ Cardinality(RunningSets') = Cardinality(RunningSets)
        /\ Cardinality(SetsWell') = Cardinality(SetsWell)
    BY <2>1, <2>2, SetMoves
  <2>4. /\ RunningGets' = RunningGets /\ GetsWell' = GetsWell
        /\ LoopRuns("Set")' = LoopRuns("Set")
        /\ LoopRuns("Get")' = LoopRuns("Get")
    BY <2>1 DEF RunningGets, GetsWell, LoopRuns
  <2> QED
    BY <2>1, <2>3, <2>4 DEF TesterInv, TesterTypes
<1>5. CASE KvSetReturns(w)
  <2>1. /\ write[w].pc = "set"
        /\ write' = [write EXCEPT ![w].pc = "complete", ![w].end = now]
        /\ count' = [count EXCEPT !.sets = @ + 1,
                       !.setErrs = IF write[w].err THEN @ + 1 ELSE @]
        /\ UNCHANGED <<read, loop, sem, wg, main, ChecksRun>>
    BY <1>5 DEF KvSetReturns
  <2>2. /\ \A v \in Sets \ {w} : write'[v] = write[v]
        /\ write'[w].pc = "complete" /\ write'[w].err = write[w].err
    BY <1>1, <2>1 DEF WriteType
  <2>3. /\ w \in RunningSets /\ w \in RunningSets' /\ w \notin SetsWell
        /\ w \in SetsWell' <=> ~write[w].err
    BY <2>1, <2>2 DEF RunningSets, SetsWell
  <2>4. /\ Cardinality(RunningSets') = Cardinality(RunningSets)
        /\ Cardinality(SetsWell) \in Nat
        /\ write[w].err => Cardinality(SetsWell') = Cardinality(SetsWell)
        /\ ~write[w].err => Cardinality(SetsWell') = Cardinality(SetsWell) + 1
    BY <2>2, <2>3, SetMoves
  <2>5. /\ RunningGets' = RunningGets /\ GetsWell' = GetsWell
        /\ LoopRuns("Set")' = LoopRuns("Set")
        /\ LoopRuns("Get")' = LoopRuns("Get")
    BY <2>1 DEF RunningGets, GetsWell, LoopRuns
  <2>6. /\ count \in CountType /\ count.sets \in Nat /\ count.setErrs \in Nat
        /\ count.sets = count.setErrs + Cardinality(SetsWell)
    BY DEF TesterInv, TesterTypes, CountType
  <2>7. /\ count' \in CountType
        /\ count'.sets = count'.setErrs + Cardinality(SetsWell')
        /\ count'.gets = count.gets /\ count'.getErrs = count.getErrs
        /\ count'.inconsistencies = count.inconsistencies
    <3>1. CASE write[w].err
      <4>1. count' = [count EXCEPT !.sets = count.sets + 1,
                                   !.setErrs = count.setErrs + 1]
        BY <2>1, <3>1
      <4>2. count.sets + 1 \in Nat /\ count.setErrs + 1 \in Nat
        BY SMTT(30), <2>6
      <4>3. /\ count' \in CountType /\ count'.sets = count.sets + 1
            /\ count'.setErrs = count.setErrs + 1
            /\ count'.gets = count.gets /\ count'.getErrs = count.getErrs
            /\ count'.inconsistencies = count.inconsistencies
        BY <2>6, <4>1, <4>2 DEF CountType
      <4> QED
        BY SMTT(30), <2>4, <2>6, <3>1, <4>3
    <3>2. CASE ~write[w].err
      <4>1. count' = [count EXCEPT !.sets = count.sets + 1,
                                   !.setErrs = count.setErrs]
        BY <2>1, <3>2
      <4>2. count.sets + 1 \in Nat
        BY SMTT(30), <2>6
      <4>3. /\ count' \in CountType /\ count'.sets = count.sets + 1
            /\ count'.setErrs = count.setErrs
            /\ count'.gets = count.gets /\ count'.getErrs = count.getErrs
            /\ count'.inconsistencies = count.inconsistencies
        BY <2>6, <4>1, <4>2 DEF CountType
      <4> QED
        BY SMTT(30), <2>4, <2>6, <3>2, <4>3
    <3> QED
      BY <3>1, <3>2
  <2> QED
    BY <2>1, <2>4, <2>5, <2>7 DEF TesterInv, TesterTypes
<1>6. CASE CompleteWrite(w)
  <2>1. /\ write[w].pc = "complete"
        /\ write' = [write EXCEPT ![w].pc = "done"]
        /\ sem' = sem + 1 /\ wg' = wg - 1
        /\ UNCHANGED <<read, loop, main, count, ChecksRun>>
    BY <1>6 DEF CompleteWrite, Release
  <2>2. /\ \A v \in Sets \ {w} : write'[v] = write[v]
        /\ write'[w].pc = "done" /\ write'[w].err = write[w].err
    BY <1>1, <2>1 DEF WriteType
  <2>3. /\ w \in RunningSets /\ w \notin RunningSets'
        /\ w \in SetsWell <=> w \in SetsWell'
    BY <2>1, <2>2 DEF RunningSets, SetsWell
  <2>4. /\ Cardinality(RunningSets) = Cardinality(RunningSets') + 1
        /\ Cardinality(RunningSets') \in Nat
        /\ Cardinality(SetsWell') = Cardinality(SetsWell)
    BY <2>2, <2>3, SetMoves
  <2>5. /\ RunningGets' = RunningGets /\ GetsWell' = GetsWell
        /\ LoopRuns("Set")' = LoopRuns("Set")
        /\ LoopRuns("Get")' = LoopRuns("Get")
    BY <2>1 DEF RunningGets, GetsWell, LoopRuns
  <2>6. main # "reports"
    BY <2>3, NothingRuns
  <2>7. /\ sem' + Cardinality(RunningSets') + Cardinality(RunningGets')
             = MaxPending
        /\ wg' = Cardinality(RunningSets') + Cardinality(RunningGets')
                 + LoopRuns("Set")' + LoopRuns("Get")'
        /\ sem' \in Int /\ wg' \in Int
    BY SMTT(30), <1>2, <2>1, <2>4, <2>5, AllFinite
  <2> QED
    BY <2>1, <2>4, <2>5, <2>6, <2>7 DEF TesterInv, TesterTypes
<1> QED
  BY <1>3, <1>4, <1>5, <1>6 DEF SetStep

(***************************************************************************)
(* The steps of a Get.                                                     *)
(***************************************************************************)
LEMMA GetTester ==
  ASSUME IndInv, TesterInv, NEW g \in Gets, StartGet(g) \/ GetStep(g)
  PROVE  TesterInv'
<1>1. read \in [Gets -> ReadType]
  BY DEF IndInv, Types
<1>2. /\ sem \in Int /\ wg \in Int /\ MaxPending \in Nat
      /\ sem + Cardinality(RunningSets) + Cardinality(RunningGets) = MaxPending
      /\ wg = Cardinality(RunningSets) + Cardinality(RunningGets)
              + LoopRuns("Set") + LoopRuns("Get")
      /\ LoopRuns("Set") \in Nat /\ LoopRuns("Get") \in Nat
      /\ \A h \in Gets : read[h].err => read[h].pc = "done"
  BY DEF TesterInv, TesterTypes, LoopRuns
<1>3. CASE StartGet(g)
  <2>1. /\ read' = [read EXCEPT ![g].pc = "begin", ![g].start = now]
        /\ read[g].pc = "new"
        /\ Admit("Get") /\ UNCHANGED <<write, main, count, ChecksRun>>
    BY <1>3 DEF StartGet
  <2>2. /\ \A h \in Gets \ {g} : read'[h] = read[h]
        /\ read'[g].pc = "begin" /\ read'[g].err = read[g].err
    BY <1>1, <2>1 DEF ReadType
  <2>3. \A h \in Gets : read'[h].err => read'[h].pc = "done"
    BY <1>2, <2>1, <2>2
  <2>4. /\ g \notin RunningGets /\ g \in RunningGets'
        /\ g \notin GetsWell /\ g \notin GetsWell'
    BY <2>1, <2>2 DEF RunningGets, GetsWell
  <2>5. /\ Cardinality(RunningGets) \in Nat
        /\ Cardinality(RunningGets') = Cardinality(RunningGets) + 1
        /\ Cardinality(GetsWell') = Cardinality(GetsWell)
    BY <2>2, <2>4, GetMoves
  <2>6. RunningSets' = RunningSets /\ SetsWell' = SetsWell
    BY <2>1 DEF RunningSets, SetsWell
  <2>7. "Get" \in Loops
    BY DEF Loops
  <2>8. /\ loop' \in [Loops -> {"top", "acquire", "ended"}]
        /\ LoopRuns("Set")' = LoopRuns("Set")
        /\ LoopRuns("Get")' = LoopRuns("Get")
        /\ main # "reports" /\ sem' = sem - 1 /\ wg' = wg + 1
    BY <2>1, <2>7, AdmitLoop
  <2>9. /\ sem' + Cardinality(RunningSets') + Cardinality(RunningGets')
             = MaxPending
        /\ wg' = Cardinality(RunningSets') + Cardinality(RunningGets')
                 + LoopRuns("Set")' + LoopRuns("Get")'
    BY SMTT(30), <1>2, <2>5, <2>6, <2>8, AllFinite
  <2>10. TesterTypes'
    BY SMTT(30), <1>2, <2>1, <2>8 DEF TesterInv, TesterTypes
  <2> QED
    BY <2>1, <2>3, <2>5, <2>6, <2>8, <2>9, <2>10 DEF TesterInv
<1>4. CASE BeginRead(g) \/ \E r \in Replicas : KvGet(g, r)
  <2>1. /\ \A h \in Gets \ {g} : read'[h] = read[h]
        /\ read[g].pc \in {"begin", "get"} /\ read'[g].pc \in {"get", "check"}
        /\ read'[g].err = read[g].err
        /\ UNCHANGED <<write, loop, sem, wg, main, count, ChecksRun>>
    <3>1. CASE BeginRead(g)
      <4>1. /\ read[g].pc = "begin"
            /\ read' = [read EXCEPT ![g].pc = "get", ![g].init = version,
                                    ![g].pending = (rc # 0)]
            /\ UNCHANGED <<write, loop, sem, wg, main, count, ChecksRun>>
        BY <3>1 DEF BeginRead, tester
      <4> QED
        BY SMTT(30), <1>1, <4>1 DEF ReadType
    <3>2. ASSUME NEW r \in Replicas, KvGet(g, r)
          PROVE  /\ \A h \in Gets \ {g} : read'[h] = read[h]
                 /\ read[g].pc = "get" /\ read'[g].pc = "check"
                 /\ read'[g].err = read[g].err
                 /\ UNCHANGED <<write, loop, sem, wg, main, count, ChecksRun>>
      <4>1. PICK got : read' = [read EXCEPT ![g].pc = "check", ![g].got = got]
        BY <3>2 DEF KvGet
      <4>2. /\ read[g].pc = "get"
            /\ UNCHANGED <<write, loop, sem, wg, main, count, ChecksRun>>
        BY <3>2 DEF KvGet, tester
      <4> QED
        BY <1>1, <4>1, <4>2 DEF ReadType
    <3> QED
      BY <1>4, <3>1, <3>2
  <2>2. \A h \in Gets : read'[h].err => read'[h].pc = "done"
    BY <1>2, <2>1
  <2>3. /\ g \in RunningGets /\ g \in RunningGets'
        /\ g \notin GetsWell /\ g \notin GetsWell'
    BY <2>1 DEF RunningGets, GetsWell
  <2>4. /\ Cardinality(RunningGets') = Cardinality(RunningGets)
        /\ Cardinality(GetsWell') = Cardinality(GetsWell)
    BY <2>1, <2>3, GetMoves
  <2>5. /\ RunningSets' = RunningSets /\ SetsWell' = SetsWell
        /\ LoopRuns("Set")' = LoopRuns("Set")
        /\ LoopRuns("Get")' = LoopRuns("Get")
    BY <2>1 DEF RunningSets, SetsWell, LoopRuns
  <2> QED
    BY <2>1, <2>2, <2>4, <2>5 DEF TesterInv, TesterTypes
<1>5. CASE KvGetFails(g) \/ CheckReadCorrect(g)
  <2>1. /\ \A h \in Gets \ {g} : read'[h] = read[h]
        /\ read[g].pc \in {"get", "check"} /\ read'[g].pc = "done"
        /\ sem' = sem + 1 /\ wg' = wg - 1
        /\ UNCHANGED <<write, loop, main>>
    <3>1. CASE KvGetFails(g)
      <4>1. /\ read[g].pc = "get"
            /\ read' = [read EXCEPT ![g].pc = "done", ![g].err = TRUE]
            /\ UNCHANGED <<write, loop, main>>
        BY <3>1 DEF KvGetFails
      <4>2. sem' = sem + 1 /\ wg' = wg - 1
        BY <3>1 DEF KvGetFails, Release
      <4> QED
        BY <1>1, <4>1, <4>2 DEF ReadType
    <3>2. CASE CheckReadCorrect(g)
      <4>1. /\ read[g].pc = "check" /\ read' = [read EXCEPT ![g].pc = "done"]
            /\ UNCHANGED <<write, loop, main>>
        BY <3>2 DEF CheckReadCorrect
      <4>2. sem' = sem + 1 /\ wg' = wg - 1
        BY <3>2 DEF CheckReadCorrect, Release
      <4> QED
        BY <1>1, <4>1, <4>2 DEF ReadType
    <3> QED
      BY <1>5, <3>1, <3>2
  <2>2. \A h \in Gets : read'[h].err => read'[h].pc = "done"
    BY <1>2, <2>1
  <2>3. /\ g \in RunningGets /\ g \notin RunningGets' /\ g \notin GetsWell
        /\ g \in GetsWell' <=> ~read'[g].err
    BY <2>1 DEF RunningGets, GetsWell
  <2>4. /\ Cardinality(RunningGets) = Cardinality(RunningGets') + 1
        /\ Cardinality(RunningGets') \in Nat
        /\ Cardinality(GetsWell) \in Nat /\ Cardinality(GetsWell') \in Nat
        /\ read'[g].err => Cardinality(GetsWell') = Cardinality(GetsWell)
        /\ ~read'[g].err => Cardinality(GetsWell') = Cardinality(GetsWell) + 1
    BY <2>1, <2>3, GetMoves
  <2>5. /\ RunningSets' = RunningSets /\ SetsWell' = SetsWell
        /\ LoopRuns("Set")' = LoopRuns("Set")
        /\ LoopRuns("Get")' = LoopRuns("Get")
    BY <2>1 DEF RunningSets, SetsWell, LoopRuns
  <2>6. main # "reports"
    BY <2>3, NothingRuns
  <2>7. /\ sem' + Cardinality(RunningSets') + Cardinality(RunningGets')
             = MaxPending
        /\ wg' = Cardinality(RunningSets') + Cardinality(RunningGets')
                 + LoopRuns("Set")' + LoopRuns("Get")'
        /\ sem' \in Int /\ wg' \in Int
    BY SMTT(30), <1>2, <2>1, <2>4, <2>5, AllFinite
  <2>8. /\ count \in CountType /\ count.gets \in Nat /\ count.getErrs \in Nat
        /\ count.inconsistencies \in Nat /\ ChecksRun \in Nat
        /\ count.gets = count.getErrs + Cardinality(GetsWell)
        /\ count.inconsistencies <= ChecksRun
        /\ ChecksRun <= Cardinality(GetsWell)
        /\ count.sets = count.setErrs + Cardinality(SetsWell)
        /\ loop \in [Loops -> {"top", "acquire", "ended"}]
        /\ main \in {"waits", "reports"}
    BY DEF TesterInv, TesterTypes, CountType
  <2>9. /\ count' \in CountType /\ ChecksRun' \in Nat
        /\ count'.gets = count'.getErrs + Cardinality(GetsWell')
        /\ count'.inconsistencies <= ChecksRun'
        /\ ChecksRun' <= Cardinality(GetsWell')
        /\ count'.sets = count.sets /\ count'.setErrs = count.setErrs
    <3>1. CASE KvGetFails(g)
      <4>1. /\ read' = [read EXCEPT ![g].pc = "done", ![g].err = TRUE]
            /\ count' = [count EXCEPT !.gets = count.gets + 1,
                                      !.getErrs = count.getErrs + 1]
            /\ ChecksRun' = ChecksRun
        BY <2>8, <3>1 DEF KvGetFails, CountType
      <4>2. read'[g].err
        BY <1>1, <4>1 DEF ReadType
      <4>3. count.gets + 1 \in Nat /\ count.getErrs + 1 \in Nat
        BY SMTT(30), <2>8
      <4>4. /\ count' \in CountType /\ count'.gets = count.gets + 1
            /\ count'.getErrs = count.getErrs + 1
            /\ count'.sets = count.sets /\ count'.setErrs = count.setErrs
            /\ count'.inconsistencies = count.inconsistencies
        BY <2>8, <4>1, <4>3 DEF CountType
      <4> QED
        BY SMTT(30), <2>4, <2>8, <4>1, <4>2, <4>4
    <3>2. CASE CheckReadCorrect(g)
      <4>1. PICK n \in {0, 1} :
              /\ count' = [count EXCEPT !.gets = @ + 1, !.inconsistencies = @ + n]
              /\ ChecksRun' \in {ChecksRun, ChecksRun + 1}
              /\ n = 1 => ChecksRun' = ChecksRun + 1
        <5>1. CASE Quiet(g)
          <6>1. ChecksRun' = ChecksRun + 1 /\ Counted(g, Complaints(g) # {})
            BY <3>2, <5>1 DEF CheckReadCorrect
          <6> QED
            BY <6>1 DEF Counted
        <5>2. CASE ~Quiet(g)
          <6>1. ChecksRun' = ChecksRun /\ Counted(g, FALSE)
            BY <3>2, <5>2 DEF CheckReadCorrect
          <6> QED
            BY SMTT(30), <6>1 DEF Counted
        <5> QED
          BY <5>1, <5>2
      <4>2. count' = [count EXCEPT !.gets = count.gets + 1,
                        !.inconsistencies = count.inconsistencies + n]
        BY <2>8, <4>1 DEF CountType
      <4>3. count.gets + 1 \in Nat /\ count.inconsistencies + n \in Nat
        BY SMTT(30), <2>8, <4>1
      <4>4. /\ count' \in CountType /\ count'.gets = count.gets + 1
            /\ count'.inconsistencies = count.inconsistencies + n
            /\ count'.sets = count.sets /\ count'.setErrs = count.setErrs
            /\ count'.getErrs = count.getErrs
        BY <2>8, <4>2, <4>3 DEF CountType
      <4>5. ~read'[g].err
        <5>1. read[g].pc = "check" /\ read' = [read EXCEPT ![g].pc = "done"]
          BY <3>2 DEF CheckReadCorrect
        <5>2. read'[g].err = read[g].err
          BY <1>1, <5>1 DEF ReadType
        <5> QED
          BY <1>2, <5>1, <5>2
      <4> QED
        BY SMTT(30), <2>4, <2>8, <4>1, <4>4, <4>5
    <3> QED
      BY <1>5, <3>1, <3>2
  <2>10. TesterTypes'
    BY <2>1, <2>7, <2>8, <2>9 DEF TesterTypes
  <2> QED
    BY <2>1, <2>2, <2>4, <2>5, <2>6, <2>7, <2>8, <2>9, <2>10 DEF TesterInv
<1> QED
  BY <1>3, <1>4, <1>5 DEF GetStep

(* The tester's invariant holds at the start,                              *)
LEMMA InitTester == StressInit => TesterInv
<1> SUFFICES ASSUME StressInit PROVE TesterInv
  OBVIOUS
<1>1. /\ RunningSets = {} /\ RunningGets = {}
      /\ SetsWell = {} /\ GetsWell = {}
  BY DEF StressInit, RunningSets, RunningGets, SetsWell, GetsWell
<1>2. Cardinality({}) = 0
  BY FS_EmptySet
<1>3. LoopRuns("Set") = 1 /\ LoopRuns("Get") = 1
  BY DEF StressInit, LoopRuns, Loops
<1>4. TesterTypes
  BY SMTT(30) DEF StressInit, TesterTypes, Loops, CountType
<1>5. \A g \in Gets : ~read[g].err
  BY DEF StressInit
<1> QED
  BY SMTT(30), <1>1, <1>2, <1>3, <1>4, <1>5 DEF StressInit, TesterInv

(* and in all reachable states.                                            *)
LEMMA TesterInvHolds == StressSpec => []TesterInv
<1>1. ASSUME IndInv, TesterInv, [StressNext]_stressVars
      PROVE  TesterInv'
  <2>1. CASE \E w \in Sets : StartSet(w) \/ SetStep(w)
    BY <1>1, <2>1, SetTester
  <2>2. CASE \E g \in Gets : StartGet(g) \/ GetStep(g)
    BY <1>1, <2>2, GetTester
  <2>3. CASE \E l \in Loops : GoOn(l) \/ EndLoop(l)
    BY <1>1, <2>3, LoopSteps
  <2>4. CASE Report
    BY <1>1, <2>4, ReportStep
  <2>5. CASE Tick \/ UNCHANGED stressVars
    <3>1. UNCHANGED <<write, read, loop, sem, wg, main, count, ChecksRun>>
      BY <2>5 DEF Tick, stressVars, tester
    <3>2. loop \in [Loops -> {"top", "acquire", "ended"}]
      BY <1>1 DEF TesterInv, TesterTypes
    <3> QED
      BY <1>1, <3>1, <3>2, TesterKept
  <2> QED
    BY <1>1, <2>1, <2>2, <2>3, <2>4, <2>5 DEF StressNext
<1> QED
  BY <1>1, IndInvHolds, InitTester, PTL DEF StressSpec

(***************************************************************************)
(* main prints its report only when both loops and all their goroutines    *)
(* are done, whatever the semaphore and the wait group went through, and   *)
(* what it prints adds up, for any number of requests.                     *)
(***************************************************************************)
THEOREM ReportIsAlwaysComplete == StressSpec => []ReportIsComplete
<1>1. ASSUME IndInv, TesterInv
      PROVE  ReportIsComplete
  <2> SUFFICES ASSUME main = "reports"
               PROVE  /\ \A q \in Sets : write[q].pc \in {"new", "done"}
                      /\ \A g \in Gets : read[g].pc \in {"new", "done"}
                      /\ sem = MaxPending /\ rc = 0
                      /\ count.gets - count.getErrs = Cardinality(GetsWell)
                      /\ count.sets - count.setErrs
                           = Cardinality({w \in Complete : ~write[w].err})
                      /\ count.inconsistencies <= ChecksRun
                      /\ ChecksRun <= Cardinality(GetsWell)
    BY DEF ReportIsComplete, GetsWell
  <2>1. RunningSets = {} /\ RunningGets = {}
    BY <1>1, NothingRuns
  <2>2. /\ \A q \in Sets : write[q].pc \in {"new", "done"}
        /\ \A g \in Gets : read[g].pc \in {"new", "done"}
    BY <2>1 DEF RunningSets, RunningGets
  <2>3. Pending = {} /\ {w \in Complete : ~write[w].err} = SetsWell
    BY <2>2 DEF Pending, Complete, SetsWell
  <2>4. Cardinality({}) = 0
    BY FS_EmptySet
  <2>5. rc = 0
    BY <1>1, <2>3, <2>4 DEF IndInv, Counting
  <2>6. /\ count.gets \in Nat /\ count.getErrs \in Nat
        /\ count.sets \in Nat /\ count.setErrs \in Nat
        /\ sem \in Int /\ MaxPending \in Nat
    BY <1>1 DEF TesterInv, TesterTypes, CountType
  <2>7. sem = MaxPending
    BY SMTT(30), <1>1, <2>1, <2>4, <2>6 DEF TesterInv
  <2>8. /\ count.gets - count.getErrs = Cardinality(GetsWell)
        /\ count.sets - count.setErrs = Cardinality(SetsWell)
        /\ count.inconsistencies <= ChecksRun
        /\ ChecksRun <= Cardinality(GetsWell)
    BY SMTT(30), <1>1, <2>6, AllFinite DEF TesterInv
  <2> QED
    BY <2>2, <2>3, <2>5, <2>7, <2>8
<1> QED
  BY <1>1, IndInvHolds, TesterInvHolds, PTL

-----------------------------------------------------------------------------
(***************************************************************************)
(* BeginWrite and CompleteWrite find out, with the counters rc and version *)
(* alone, exactly which values no successful, not concurrent Set has       *)
(* overwritten, for any number of Sets that overlap in any way.            *)
(***************************************************************************)
THEOREM CountersSuffice == StressSpec => []ValuesAreThoseNotOverwritten
<1>1. IndInv => ValuesAreThoseNotOverwritten
  BY DEF IndInv
<1> QED
  BY <1>1, IndInvHolds, PTL

(***************************************************************************)
(* CheckReadCorrect never calls an answer of a right cluster incorrect or  *)
(* expired, whatever the TTL, the buffer and the requests that overlap;    *)
(* "not found" may be wrong only when all values it knows of come from     *)
(* Sets that returned an error.                                            *)
(***************************************************************************)
THEOREM NoOtherFalseAlarm == StressSpec => []OnlyFailedSetsAlarm
<1>1. IndInv => OnlyFailedSetsAlarm
  BY DEF IndInv, AlarmsRight, OnlyFailedSetsAlarm
<1> QED
  BY <1>1, IndInvHolds, PTL
=============================================================================
