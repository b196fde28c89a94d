----------------------- MODULE RaftReplicationProofs ------------------------
(***************************************************************************)
(* LogsMatch and MatchIsHeld of RaftReplication, for any servers, terms,   *)
(* logs, crashes and messages under way.                                   *)
(*                                                                         *)
(* A log, and what a call carries of one, are read as segments: functions  *)
(* from an interval of indices to terms.  AppendEntries copies a segment   *)
(* into a log, so that the logs match only because all segments do, those  *)
(* of old calls included.                                                  *)
(***************************************************************************)
EXTENDS RaftReplication, FiniteSetTheorems, TLAPS

(***************************************************************************)
(* The prover of the leaves that do not name one: those with arithmetic    *)
(* name SMT.                                                               *)
(***************************************************************************)
USE ZenonT(30)

Call == [type: {"call"}, leader: Server, peer: Server, term: Nat,
         prev: Nat, prevTerm: Nat, entries: Seq(Nat), commit: Nat,
         orphan: BOOLEAN]

Answer == [type: {"reply"}, leader: Server, peer: Server, term: Nat,
           last: Nat, rterm: Nat, success: BOOLEAN, nex: Nat]

Types ==
  /\ currentTerm \in [Server -> Nat]
  /\ role \in [Server -> {"Follower", "Leader"}]
  /\ logEntries \in [Server -> Seq(Nat)]
  /\ commitIndex \in [Server -> Nat]
  /\ nextIndex \in [Server -> [Server -> Nat \ {0}]]
  /\ matchIndex \in [Server -> [Server -> Nat]]
  /\ msgs \subseteq Call \cup Answer

-----------------------------------------------------------------------------
(***************************************************************************)
(* Segments.                                                               *)
(***************************************************************************)
Calls == {m \in msgs : m.type = "call"}
MEnd(m) == m.prev + Len(m.entries)

LogSeg(s) == [k \in 0..LastIndex(s) |-> TermAt(s, k)]

CallSeg(m) == [k \in m.prev..MEnd(m) |->
                 IF k = m.prev THEN m.prevTerm ELSE m.entries[k - m.prev]]

Segs == {LogSeg(s) : s \in Server} \cup {CallSeg(m) : m \in Calls}

Matches(f, g) ==
  \A k \in DOMAIN f \cap DOMAIN g :
    f[k] = g[k] => \A j \in DOMAIN f \cap DOMAIN g : j <= k => f[j] = g[j]

Segment(f) ==
  /\ DOMAIN f \subseteq Nat
  /\ \A k \in DOMAIN f : f[k] \in Nat
  /\ \A i, j \in DOMAIN f : i..j \subseteq DOMAIN f
  /\ \A i, j \in DOMAIN f : i <= j => f[i] <= f[j]

(***************************************************************************)
(* The terms that a majority has reached: no later vote is for one of      *)
(* them.                                                                   *)
(***************************************************************************)
Reached == {t \in Nat : IsMajority({s \in Server : currentTerm[s] >= t})}

IsLeader(s) == role[s] = "Leader"

Held(l, p, n) ==
  /\ n <= LastIndex(p) /\ n <= LastIndex(l)
  /\ \A k \in 0..n : TermAt(l, k) = TermAt(p, k)

-----------------------------------------------------------------------------
(***************************************************************************)
(* The inductive invariant.                                                *)
(***************************************************************************)
Elections ==
  /\ \A s \in Server : IsLeader(s) => currentTerm[s] # 0 /\ currentTerm[s] \in Reached
  /\ \A s, r \in Server :
       IsLeader(s) /\ IsLeader(r) /\ currentTerm[s] = currentTerm[r] => s = r
  /\ \A m \in msgs : m.term \in Reached /\ m.peer # m.leader
  /\ \A m \in msgs, s \in Server :
       IsLeader(s) /\ currentTerm[s] = m.term => m.leader = s

SegmentsMatch ==
  /\ \A f \in Segs : Segment(f)
  /\ \A f, g \in Segs : Matches(f, g)

CallTerms(m) ==
  /\ m.prev = 0 => m.prevTerm = 0
  /\ \A k \in m.prev..MEnd(m) : CallSeg(m)[k] <= m.term

SegmentTerms ==
  /\ \A f \in Segs : \A k \in DOMAIN f : f[k] # 0 => f[k] \in Reached
  /\ \A f \in Segs, s \in Server : \A k \in DOMAIN f :
       IsLeader(s) /\ f[k] = currentTerm[s] => k <= LastIndex(s)
  /\ \A s \in Server : \A k \in 0..LastIndex(s) :
       TermAt(s, k) <= currentTerm[s]
  /\ \A m \in Calls : CallTerms(m)

CallsAreOfLeader ==
  \A m \in Calls, l \in Server : IsLeader(l) /\ currentTerm[l] = m.term =>
    /\ MEnd(m) <= LastIndex(l)
    /\ \A k \in m.prev..MEnd(m) : CallSeg(m)[k] = TermAt(l, k)
    /\ \A k \in MEnd(m) + 1..LastIndex(l) : TermAt(l, k) = m.term

AnswersHold ==
  \A r \in msgs : r.type = "reply" /\ r.success =>
    /\ r.nex # 0 /\ currentTerm[r.peer] >= r.term
    /\ IsLeader(r.leader) /\ currentTerm[r.leader] = r.term
         /\ currentTerm[r.peer] <= r.term
       => Held(r.leader, r.peer, r.nex - 1)

MatchHolds ==
  \A l, p \in Server : IsLeader(l) =>
    /\ p # l /\ matchIndex[l][p] # 0 => currentTerm[p] >= currentTerm[l]
    /\ currentTerm[p] <= currentTerm[l] => Held(l, p, matchIndex[l][p])

IndInv ==
  /\ Types /\ Elections /\ SegmentsMatch /\ SegmentTerms
  /\ CallsAreOfLeader /\ AnswersHold /\ MatchHolds

-----------------------------------------------------------------------------
(***************************************************************************)
(* A segment matches what the one that it is a part of matches.            *)
(***************************************************************************)
LEMMA PartMatches ==
  ASSUME NEW f, NEW g, NEW h, Matches(f, g), Matches(g, f),
         DOMAIN h \subseteq DOMAIN f, \A k \in DOMAIN h : h[k] = f[k]
  PROVE  Matches(h, g) /\ Matches(g, h)
BY DEF Matches

(***************************************************************************)
(* What AppendEntries makes: the segment a up to p, and from there on the  *)
(* segment b that agrees with a at p.  It matches what both match.         *)
(***************************************************************************)
IsSplice(h, a, b, p) ==
  /\ p \in DOMAIN a /\ p \in DOMAIN b /\ a[p] = b[p]
  /\ DOMAIN h = {k \in DOMAIN a : k <= p} \cup {k \in DOMAIN b : k >= p}
  /\ \A k \in DOMAIN h : h[k] = IF k <= p THEN a[k] ELSE b[k]

(***************************************************************************)
(* A splice matches every segment that both its parts match.               *)
(***************************************************************************)
LEMMA SpliceMatches ==
  ASSUME NEW a, NEW b, NEW g, NEW h, NEW p \in Nat,
         Segment(a), Segment(b), Segment(g), IsSplice(h, a, b, p),
         Matches(a, g), Matches(b, g)
  PROVE  Matches(h, g) /\ Matches(g, h)
<1>1. ASSUME NEW k \in DOMAIN h \cap DOMAIN g, h[k] = g[k],
             NEW j \in DOMAIN h \cap DOMAIN g, j <= k
      PROVE  h[j] = g[j]
  <2>0. k \in Nat /\ j \in Nat
    BY DEF Segment
  <2>1. CASE k <= p
    BY SMTT(30), <1>1, <2>0, <2>1 DEF IsSplice, Matches
  <2>2. CASE k > p /\ j > p
    BY SMTT(30), <1>1, <2>0, <2>2 DEF IsSplice, Matches
  <2>3. CASE k > p /\ j <= p
    <3>1. p \in DOMAIN g
      BY SMTT(30), <2>0, <2>3 DEF Segment
    <3>2. b[p] = g[p]
      BY SMTT(30), <1>1, <2>0, <2>3, <3>1 DEF IsSplice, Matches
    <3> QED
      BY SMTT(30), <1>1, <2>0, <2>3, <3>1, <3>2 DEF IsSplice, Matches
  <2> QED
    BY SMTT(30), <2>0, <2>1, <2>2, <2>3
<1> QED
  BY <1>1 DEF Matches

(***************************************************************************)
(* A splice is a segment.                                                  *)
(***************************************************************************)
LEMMA SpliceIsSegment ==
  ASSUME NEW a, NEW b, NEW h, NEW p \in Nat,
         Segment(a), Segment(b), IsSplice(h, a, b, p)
  PROVE  Segment(h)
<1>1. DOMAIN h \subseteq Nat /\ \A k \in DOMAIN h : h[k] \in Nat
  BY SMTT(30) DEF Segment, IsSplice
<1>2. ASSUME NEW i \in DOMAIN h, NEW j \in DOMAIN h, NEW k \in i..j
      PROVE  k \in DOMAIN h
  <2>1. i \in Nat /\ j \in Nat /\ k \in Nat /\ i <= k /\ k <= j
    BY SMTT(30), <1>1
  <2>2. CASE k <= p
    <3>1. i \in DOMAIN a /\ k \in i..p
      BY SMTT(30), <2>1, <2>2 DEF IsSplice
    <3> QED
      BY <2>2, <3>1 DEF Segment, IsSplice
  <2>3. CASE k > p
    <3>1. j \in DOMAIN b /\ k \in p..j
      BY SMTT(30), <2>1, <2>3 DEF IsSplice
    <3> QED
      BY SMTT(30), <2>1, <2>3, <3>1 DEF Segment, IsSplice
  <2> QED
    BY SMTT(30), <2>1, <2>2, <2>3
<1>3. ASSUME NEW i \in DOMAIN h, NEW j \in DOMAIN h, i <= j
      PROVE  h[i] <= h[j]
  <2>1. i \in Nat /\ j \in Nat
    BY <1>1
  <2>2. CASE j <= p
    BY SMTT(30), <1>3, <2>1, <2>2 DEF Segment, IsSplice
  <2>3. CASE i > p
    BY SMTT(30), <1>3, <2>1, <2>3 DEF Segment, IsSplice
  <2>4. CASE i <= p /\ j > p
    <3>1. i \in DOMAIN a /\ j \in DOMAIN b /\ h[i] = a[i] /\ h[j] = b[j]
      BY SMTT(30), <2>1, <2>4 DEF IsSplice
    <3>2. a[i] <= a[p] /\ b[p] <= b[j] /\ a[p] = b[p]
      BY SMTT(30), <2>1, <2>4, <3>1 DEF Segment, IsSplice
    <3>3. a[i] \in Nat /\ a[p] \in Nat /\ b[j] \in Nat
      BY <3>1 DEF Segment, IsSplice
    <3> QED
      BY SMTT(30), <3>1, <3>2, <3>3
  <2> QED
    BY SMTT(30), <2>1, <2>2, <2>3, <2>4
<1> QED
  BY <1>1, <1>2, <1>3 DEF Segment

-----------------------------------------------------------------------------
(***************************************************************************)
(* Every action keeps the types.  In AppendEntries that is so because the  *)
(* search for the conflicting term ends, at the latest, at index 0.        *)
(***************************************************************************)
LEMMA LogTypes ==
  ASSUME Types, NEW s \in Server
  PROVE  /\ LastIndex(s) \in Nat
         /\ \A k \in 0..LastIndex(s) : TermAt(s, k) \in Nat
BY SMTT(30) DEF Types, LastIndex, TermAt

(***************************************************************************)
(* What is known of a message of either kind.                              *)
(***************************************************************************)
LEMMA CallType ==
  ASSUME Types, NEW m \in msgs
  PROVE  /\ m.type = "call" => m \in Call
         /\ m.type = "reply" => m \in Answer
         /\ m.type \in {"call", "reply"}
         /\ m.leader \in Server /\ m.peer \in Server /\ m.term \in Nat
BY DEF Types, Call, Answer

(***************************************************************************)
(* Two sequences that agree up to k have the same prefix.                  *)
(***************************************************************************)
LEMMA SamePrefix ==
  ASSUME NEW a \in Seq(Nat), NEW b \in Seq(Nat), NEW k \in Nat,
         k <= Len(a), k <= Len(b), \A n \in 1..k : a[n] = b[n]
  PROVE  SubSeq(a, 1, k) = SubSeq(b, 1, k)
<1> DEFINE c == SubSeq(a, 1, k)
           d == SubSeq(b, 1, k)
<1>1. /\ c \in Seq(Nat) /\ Len(c) = k /\ \A n \in 1..k : c[n] = a[n]
      /\ d \in Seq(Nat) /\ Len(d) = k /\ \A n \in 1..k : d[n] = b[n]
  BY SMTT(30)
<1> HIDE DEF c, d
<1>2. c \in [1..k -> Nat] /\ d \in [1..k -> Nat]
  BY SMTT(30), <1>1
<1>3. \A n \in 1..k : c[n] = d[n]
  BY <1>1
<1>4. c = [n \in 1..k |-> c[n]] /\ d = [n \in 1..k |-> d[n]]
  BY <1>2
<1>5. [n \in 1..k |-> c[n]] = [n \in 1..k |-> d[n]]
  BY <1>3
<1> QED
  BY <1>4, <1>5 DEF c, d

(***************************************************************************)
(* The log that AppendEntries makes, entry by entry.                       *)
(***************************************************************************)
LEMMA NewLog ==
  ASSUME NEW a \in Seq(Nat), NEW b \in Seq(Nat), NEW p \in 0..Len(a)
  PROVE  LET c == SubSeq(a, 1, p) \o b
         IN /\ c \in Seq(Nat) /\ Len(c) = p + Len(b)
            /\ \A k \in 1..p : c[k] = a[k]
            /\ \A k \in p + 1..p + Len(b) : c[k] = b[k - p]
<1> DEFINE d == SubSeq(a, 1, p)
<1>3. d \in Seq(Nat) /\ Len(d) = p /\ \A i \in 1..p : d[i] = a[i]
  BY SMTT(30)
<1> HIDE DEF d
<1>4. /\ d \o b \in Seq(Nat) /\ Len(d \o b) = Len(d) + Len(b)
      /\ \A i \in 1..Len(d) + Len(b) :
           (d \o b)[i] = IF i <= Len(d) THEN d[i] ELSE b[i - Len(d)]
  <2>1. d \o b \in Seq(Nat)
    BY SMTT(30), <1>3
  <2>2. Len(d \o b) = Len(d) + Len(b)
    <3>1. Len(d) \in Nat /\ Len(b) \in Nat /\ d \in Seq(Nat) /\ b \in Seq(Nat)
      BY SMTT(30), <1>3
    <3> QED
      BY SMTT(30), <3>1
  <2>3. ASSUME NEW i \in 1..Len(d) + Len(b)
        PROVE  (d \o b)[i] = IF i <= Len(d) THEN d[i] ELSE b[i - Len(d)]
    BY SMTT(30), <1>3, <2>3
  <2> QED
    BY <2>1, <2>2, <2>3
<1>5. Len(b) \in Nat
  BY SMTT(30)
<1>6. /\ d \o b \in Seq(Nat) /\ Len(d \o b) = p + Len(b)
      /\ \A k \in 1..p : (d \o b)[k] = a[k]
      /\ \A k \in p + 1..p + Len(b) : (d \o b)[k] = b[k - p]
  BY SMTT(30), <1>3, <1>4, <1>5
<1> QED
  BY <1>6 DEF d

(***************************************************************************)
(* What the handler AppendEntries does to a log.                           *)
(***************************************************************************)
LEMMA AppendEntriesLogs ==
  ASSUME Types, NEW m \in msgs, AppendEntries(m)
  PROVE  /\ logEntries' \in [Server -> Seq(Nat)]
         /\ \A s \in Server \ {m.peer} : logEntries'[s] = logEntries[s]
         /\ ~Accepts(m.peer, m) => logEntries' = logEntries
         /\ Accepts(m.peer, m) =>
              /\ m.prev <= LastIndex(m.peer)
              /\ LastIndex(m.peer)' = MEnd(m)
              /\ \A k \in 0..m.prev : TermAt(m.peer, k)' = TermAt(m.peer, k)
              /\ \A k \in m.prev + 1..MEnd(m) :
                   TermAt(m.peer, k)' = m.entries[k - m.prev]
<1> DEFINE f == m.peer
<1>1. m \in Call /\ f \in Server
  BY CallType DEF AppendEntries
<1>2. logEntries' = [logEntries EXCEPT ![f] =
        IF Accepts(f, m) THEN SubSeq(logEntries[f], 1, m.prev) \o m.entries
                         ELSE logEntries[f]]
  BY DEF AppendEntries
<1>3. logEntries \in [Server -> Seq(Nat)] /\ m.entries \in Seq(Nat)
      /\ m.prev \in Nat /\ Len(m.entries) \in Nat
  BY SMTT(30), <1>1 DEF Types, Call
<1>4. CASE ~Accepts(f, m)
  <2>1. logEntries' = logEntries
    BY <1>1, <1>2, <1>3, <1>4
  <2> QED
    BY <1>3, <1>4, <2>1
<1>5. CASE Accepts(f, m)
  <2>1. m.prev <= LastIndex(f)
    BY <1>5 DEF Accepts, PrevMatches
  <2>2. m.prev \in 0..Len(logEntries[f]) /\ logEntries[f] \in Seq(Nat)
    BY SMTT(30), <1>1, <1>3, <2>1 DEF LastIndex
  <2> DEFINE c == SubSeq(logEntries[f], 1, m.prev) \o m.entries
  <2>3. /\ c \in Seq(Nat) /\ Len(c) = m.prev + Len(m.entries)
        /\ \A k \in 1..m.prev : c[k] = logEntries[f][k]
        /\ \A k \in m.prev + 1..m.prev + Len(m.entries) :
             c[k] = m.entries[k - m.prev]
    BY <1>3, <2>2, NewLog
  <2>4. logEntries' = [logEntries EXCEPT ![f] = c]
    BY <1>2, <1>5
  <2> HIDE DEF c
  <2>5. logEntries'[f] = c
    BY <1>1, <1>3, <2>4
  <2>6. \A k \in 0..m.prev : TermAt(f, k)' = TermAt(f, k)
    BY SMTT(30), <1>3, <2>3, <2>5 DEF TermAt
  <2>7. \A k \in m.prev + 1..MEnd(m) : TermAt(f, k)' = m.entries[k - m.prev]
    BY SMTT(30), <1>3, <2>3, <2>5 DEF TermAt, MEnd
  <2>8. LastIndex(f)' = MEnd(m)
    BY <2>3, <2>5 DEF LastIndex, MEnd
  <2>9. logEntries' \in [Server -> Seq(Nat)]
        /\ \A s \in Server \ {f} : logEntries'[s] = logEntries[s]
    BY <1>3, <2>3, <2>4
  <2> QED
    BY <1>5, <2>1, <2>6, <2>7, <2>8, <2>9
<1> QED
  BY <1>4, <1>5

-----------------------------------------------------------------------------
(***************************************************************************)
(* Majorities: a term that was reached stays so, and a vote is for a term  *)
(* after all of them.                                                      *)
(***************************************************************************)
TermsGrow == \A s \in Server : currentTerm[s] <= currentTerm'[s]

NoNewLeader ==
  \A s \in Server : IsLeader(s)' => IsLeader(s) /\ currentTerm'[s] = currentTerm[s]

(***************************************************************************)
(* A term that a majority has reached stays so.                            *)
(***************************************************************************)
LEMMA ReachedGrows ==
  ASSUME Types, Types', TermsGrow
  PROVE  Reached \subseteq Reached'
<1> SUFFICES ASSUME NEW t \in Reached PROVE t \in Reached'
  OBVIOUS
<1> DEFINE V == {s \in Server : currentTerm[s] >= t}
           W == {s \in Server : currentTerm'[s] >= t}
<1>1. t \in Nat /\ IsMajority(V)
  BY DEF Reached
<1>2. V \subseteq W
  BY SMTT(30), <1>1 DEF TermsGrow, Types
<1>3. IsFiniteSet(W)
  BY RaftAssumption, FS_Subset
<1> HIDE DEF V, W
<1>4. /\ Cardinality(V) <= Cardinality(W)
      /\ Cardinality(V) \in Nat /\ Cardinality(W) \in Nat
      /\ Cardinality(Server) \in Nat
  BY <1>2, <1>3, RaftAssumption, FS_Subset, FS_CardinalityType
<1>5. IsMajority(W)
  BY SMTT(30), <1>1, <1>4 DEF IsMajority
<1> QED
  BY <1>1, <1>5 DEF Reached, W

-----------------------------------------------------------------------------
(***************************************************************************)
(* Segments, where they are defined.                                       *)
(***************************************************************************)
LEMMA LogSegFacts ==
  ASSUME Types, NEW s \in Server
  PROVE  /\ LogSeg(s) \in Segs /\ DOMAIN LogSeg(s) = 0..LastIndex(s)
         /\ \A k \in 0..LastIndex(s) : LogSeg(s)[k] = TermAt(s, k)
BY DEF LogSeg, Segs

(***************************************************************************)
(* The segment of a call.                                                  *)
(***************************************************************************)
LEMMA CallSegFacts ==
  ASSUME Types, NEW m \in msgs, m.type = "call"
  PROVE  /\ CallSeg(m) \in Segs /\ DOMAIN CallSeg(m) = m.prev..MEnd(m)
         /\ m.prev \in Nat /\ MEnd(m) \in Nat /\ m.prev <= MEnd(m)
         /\ CallSeg(m)[m.prev] = m.prevTerm
         /\ \A k \in m.prev + 1..MEnd(m) : CallSeg(m)[k] = m.entries[k - m.prev]
<1>1. m.prev \in Nat /\ Len(m.entries) \in Nat
  BY SMTT(30), CallType DEF Call
<1>2. MEnd(m) \in Nat /\ m.prev <= MEnd(m)
  BY SMTT(30), <1>1 DEF MEnd
<1> QED
  BY SMTT(30), <1>1, <1>2 DEF CallSeg, Segs, Calls

(***************************************************************************)
(* Elections are kept by a step in which nobody is elected and the new     *)
(* messages are of calls under way, or of leaders.                         *)
(***************************************************************************)
LEMMA ElectionsKept ==
  ASSUME Types, Types', Elections, TermsGrow, NoNewLeader,
         \A m \in msgs' :
           \/ \E n \in msgs : /\ n.term = m.term /\ n.leader = m.leader
                              /\ n.peer = m.peer
           \/ /\ m.leader \in Server /\ IsLeader(m.leader)
              /\ m.term = currentTerm[m.leader] /\ m.peer # m.leader
  PROVE  Elections'
<1>1. Reached \subseteq Reached'
  BY ReachedGrows
<1>2. \A s \in Server : IsLeader(s)' =>
        currentTerm'[s] # 0 /\ currentTerm'[s] \in Reached'
  BY <1>1 DEF Elections, NoNewLeader
<1>3. \A s, r \in Server :
        IsLeader(s)' /\ IsLeader(r)' /\ currentTerm'[s] = currentTerm'[r] => s = r
  BY DEF Elections, NoNewLeader
<1>4. \A m \in msgs' : m.term \in Reached' /\ m.peer # m.leader
  BY <1>1 DEF Elections
<1>5. \A m \in msgs', s \in Server :
        IsLeader(s)' /\ currentTerm'[s] = m.term => m.leader = s
  BY SMTT(30) DEF Elections, NoNewLeader
<1> QED
  BY <1>2, <1>3, <1>4, <1>5 DEF Elections

(***************************************************************************)
(* A step that leaves the logs as they are, elects nobody, and adds no     *)
(* call and no successful answer keeps all but MatchHolds.                 *)
(***************************************************************************)
SameCall(m, n) ==
  /\ m.type = n.type /\ m.leader = n.leader /\ m.peer = n.peer
  /\ m.term = n.term /\ m.prev = n.prev /\ m.prevTerm = n.prevTerm
  /\ m.entries = n.entries

QuietMsgs ==
  /\ \A m \in msgs' : m.type = "call" => \E n \in msgs : SameCall(m, n)
  /\ \A m \in msgs' : m.type = "reply" =>
       \/ m \in msgs
       \/ ~m.success /\ \E n \in msgs : /\ n.term = m.term
                                        /\ n.leader = m.leader
                                        /\ n.peer = m.peer

(***************************************************************************)
(* The segment of a call does not depend on who waits for its answer.      *)
(***************************************************************************)
LEMMA SameCallSeg ==
  ASSUME NEW m, NEW n, SameCall(m, n)
  PROVE  CallSeg(m) = CallSeg(n) /\ MEnd(m) = MEnd(n)
BY DEF SameCall, CallSeg, MEnd

(***************************************************************************)
(* A quiet step adds no segment.                                           *)
(***************************************************************************)
LEMMA QuietSegs ==
  ASSUME Types, logEntries' = logEntries, QuietMsgs
  PROVE  Segs' \subseteq Segs
<1> SUFFICES ASSUME NEW f \in Segs' PROVE f \in Segs
  OBVIOUS
<1>1. CASE \E s \in Server : f = LogSeg(s)'
  BY SMTT(30), <1>1 DEF Segs, LogSeg, LastIndex, TermAt
<1>2. CASE \E m \in Calls' : f = CallSeg(m)
  <2>1. PICK m \in Calls' : f = CallSeg(m)
    BY <1>2
  <2>2. PICK n \in msgs : SameCall(m, n) /\ n.type = "call"
    BY SMTT(30), <2>1 DEF Calls, QuietMsgs, SameCall
  <2>3. f = CallSeg(n)
    BY <2>1, <2>2, SameCallSeg
  <2> QED
    BY <2>2, <2>3 DEF Segs, Calls
<1> QED
  BY <1>1, <1>2 DEF Segs, Calls, CallSeg, MEnd

(***************************************************************************)
(* A quiet step keeps the invariant but for matchIndex.                    *)
(***************************************************************************)
LEMMA QuietStep ==
  ASSUME IndInv, Types', logEntries' = logEntries, TermsGrow, NoNewLeader,
         QuietMsgs
  PROVE  /\ Elections' /\ SegmentsMatch' /\ SegmentTerms'
         /\ CallsAreOfLeader' /\ AnswersHold'
<1> USE DEF IndInv
<1>1. \A s \in Server, k \in Nat :
        LastIndex(s)' = LastIndex(s) /\ TermAt(s, k)' = TermAt(s, k)
  BY DEF LastIndex, TermAt
<1>2. Segs' \subseteq Segs
  BY QuietSegs
<1>3. Elections'
  <2>1. \A m \in msgs' : \E n \in msgs :
          n.term = m.term /\ n.leader = m.leader /\ n.peer = m.peer
    <3> SUFFICES ASSUME NEW m \in msgs'
                 PROVE  \E n \in msgs : /\ n.term = m.term /\ n.peer = m.peer
                                        /\ n.leader = m.leader
      OBVIOUS
    <3>1. m.type \in {"call", "reply"}
      BY DEF Types, Call, Answer
    <3> QED
      BY <3>1 DEF QuietMsgs, SameCall
  <2> QED
    BY <2>1, ElectionsKept
<1>4. SegmentsMatch'
  <2>1. \A f \in Segs' : Segment(f)
    BY <1>2 DEF SegmentsMatch
  <2>2. \A f, g \in Segs' : Matches(f, g)
    BY <1>2 DEF SegmentsMatch
  <2> QED
    BY <2>1, <2>2 DEF SegmentsMatch, Segment, Matches
<1>5. SegmentTerms'
  <2>1. \A f \in Segs' : \A k \in DOMAIN f : f[k] # 0 => f[k] \in Reached'
    BY <1>2, ReachedGrows DEF SegmentTerms
  <2>2. \A f \in Segs', s \in Server : \A k \in DOMAIN f :
          IsLeader(s)' /\ f[k] = currentTerm'[s] => k <= LastIndex(s)'
    BY <1>1, <1>2 DEF SegmentTerms, NoNewLeader
  <2>3. ASSUME NEW s \in Server, NEW k \in 0..LastIndex(s)'
        PROVE  TermAt(s, k)' <= currentTerm'[s]
    <3>1. k \in 0..LastIndex(s) /\ k \in Nat
      BY SMTT(30), <1>1, LogTypes
    <3>2. TermAt(s, k) \in Nat /\ currentTerm[s] \in Nat /\ currentTerm'[s] \in Nat
      BY <3>1, LogTypes DEF Types
    <3> QED
      BY SMTT(30), <1>1, <3>1, <3>2 DEF SegmentTerms, TermsGrow
  <2>4. \A m \in Calls' : CallTerms(m)
    <3> SUFFICES ASSUME NEW m \in Calls' PROVE CallTerms(m)
      OBVIOUS
    <3>1. PICK n \in msgs : SameCall(m, n) /\ n.type = "call"
      BY SMTT(30) DEF Calls, QuietMsgs, SameCall
    <3>2. CallTerms(n)
      BY <3>1 DEF SegmentTerms, Calls
    <3> QED
      BY <3>1, <3>2, SameCallSeg DEF CallTerms, SameCall
  <2> QED
    BY <2>1, <2>2, <2>3, <2>4 DEF SegmentTerms, CallTerms, CallSeg, MEnd
<1>6. CallsAreOfLeader'
  <2> SUFFICES ASSUME NEW m \in Calls', NEW l \in Server,
                      IsLeader(l)', currentTerm'[l] = m.term
               PROVE  /\ MEnd(m) <= LastIndex(l)'
                      /\ \A k \in m.prev..MEnd(m) : CallSeg(m)[k] = TermAt(l, k)'
                      /\ \A k \in MEnd(m) + 1..LastIndex(l)' :
                           TermAt(l, k)' = m.term
    BY DEF CallsAreOfLeader, MEnd, CallSeg
  <2>1. PICK n \in msgs : SameCall(m, n)
    BY DEF Calls, QuietMsgs
  <2>2. n \in Calls /\ n.term = m.term /\ n.prev = m.prev /\ n.type = "call"
    BY <2>1 DEF Calls, SameCall
  <2>3. CallSeg(m) = CallSeg(n) /\ MEnd(m) = MEnd(n)
    BY <2>1, SameCallSeg
  <2>4. n.prev \in Nat /\ MEnd(n) \in Nat
    BY <2>2, CallSegFacts
  <2>5. IsLeader(l) /\ currentTerm[l] = n.term
    BY <2>2 DEF NoNewLeader
  <2>6. /\ MEnd(n) <= LastIndex(l)
        /\ \A k \in n.prev..MEnd(n) : CallSeg(n)[k] = TermAt(l, k)
        /\ \A k \in MEnd(n) + 1..LastIndex(l) : TermAt(l, k) = n.term
    BY <2>2, <2>5 DEF CallsAreOfLeader
  <2> QED
    BY SMTT(30), <1>1, <2>2, <2>3, <2>4, <2>6
<1>7. AnswersHold'
  <2> SUFFICES ASSUME NEW r \in msgs', r.type = "reply", r.success
               PROVE  /\ r.nex # 0 /\ currentTerm'[r.peer] >= r.term
                      /\ IsLeader(r.leader)' /\ currentTerm'[r.leader] = r.term
                           /\ currentTerm'[r.peer] <= r.term
                         => Held(r.leader, r.peer, r.nex - 1)'
    BY DEF AnswersHold
  <2>1. r \in msgs
    BY DEF QuietMsgs
  <2>2. r \in Answer /\ r.leader \in Server /\ r.peer \in Server /\ r.term \in Nat
    BY <2>1, CallType
  <2>3. currentTerm[r.peer] \in Nat /\ currentTerm'[r.peer] \in Nat
        /\ currentTerm[r.peer] <= currentTerm'[r.peer]
    BY <2>2 DEF Types, TermsGrow
  <2>4. r.nex # 0 /\ currentTerm[r.peer] >= r.term /\ r.nex \in Nat
    BY <2>1, <2>2 DEF AnswersHold, Answer
  <2>5. ASSUME IsLeader(r.leader)', currentTerm'[r.leader] = r.term,
               currentTerm'[r.peer] <= r.term
        PROVE  Held(r.leader, r.peer, r.nex - 1)'
    <3>1. Held(r.leader, r.peer, r.nex - 1)
      BY SMTT(30), <2>1, <2>2, <2>3, <2>5 DEF AnswersHold, NoNewLeader
    <3> QED
      BY SMTT(30), <1>1, <2>2, <2>4, <3>1 DEF Held
  <2> QED
    BY SMTT(30), <2>2, <2>3, <2>4, <2>5
<1> QED
  BY <1>3, <1>4, <1>5, <1>6, <1>7

(***************************************************************************)
(* A quiet step that leaves matchIndex keeps what it says.                 *)
(***************************************************************************)
LEMMA QuietMatch ==
  ASSUME IndInv, Types', logEntries' = logEntries, TermsGrow, NoNewLeader,
         matchIndex' = matchIndex
  PROVE  MatchHolds'
<1> SUFFICES ASSUME NEW l \in Server, NEW p \in Server, IsLeader(l)'
             PROVE  /\ p # l /\ matchIndex'[l][p] # 0 =>
                         currentTerm'[p] >= currentTerm'[l]
                    /\ currentTerm'[p] <= currentTerm'[l] =>
                         Held(l, p, matchIndex[l][p])'
  BY DEF MatchHolds
<1>1. IsLeader(l) /\ currentTerm'[l] = currentTerm[l]
  BY DEF NoNewLeader
<1>2. /\ currentTerm[p] \in Nat /\ currentTerm'[p] \in Nat
      /\ currentTerm[l] \in Nat /\ currentTerm[p] <= currentTerm'[p]
      /\ matchIndex[l][p] \in Nat
  BY DEF IndInv, Types, TermsGrow
<1>3. /\ p # l /\ matchIndex[l][p] # 0 => currentTerm[p] >= currentTerm[l]
      /\ currentTerm[p] <= currentTerm[l] => Held(l, p, matchIndex[l][p])
  BY <1>1 DEF IndInv, MatchHolds
<1>4. Held(l, p, matchIndex[l][p]) => Held(l, p, matchIndex[l][p])'
  BY DEF Held, LastIndex, TermAt
<1> QED
  BY SMTT(30), <1>1, <1>2, <1>3, <1>4

-----------------------------------------------------------------------------
(***************************************************************************)
(* A step that adds one segment.                                           *)
(***************************************************************************)
LEMMA OneMoreSegment ==
  ASSUME SegmentsMatch, NEW h, Segment(h),
         \A g \in Segs : Matches(h, g) /\ Matches(g, h),
         Segs' \subseteq Segs \cup {h}
  PROVE  SegmentsMatch'
<1>1. Matches(h, h)
  BY DEF Matches
<1>2. \A f, g \in Segs' : Matches(f, g)
  BY <1>1 DEF SegmentsMatch
<1>3. \A f \in Segs' : Segment(f)
  BY DEF SegmentsMatch
<1> QED
  BY <1>2, <1>3 DEF SegmentsMatch, Segment, Matches

(***************************************************************************)
(* A step whose segments have only old entries keeps their terms.          *)
(***************************************************************************)
LEMMA SegmentTermsKept ==
  ASSUME Types, Types', SegmentTerms, TermsGrow, NoNewLeader,
         \A f \in Segs' : \A k \in DOMAIN f :
           \E g \in Segs : k \in DOMAIN g /\ f[k] = g[k],
         \A s \in Server : IsLeader(s)' => LastIndex(s)' = LastIndex(s)
  PROVE  /\ \A f \in Segs' : \A k \in DOMAIN f : f[k] # 0 => f[k] \in Reached'
         /\ \A f \in Segs', s \in Server : \A k \in DOMAIN f :
              IsLeader(s)' /\ f[k] = currentTerm'[s] => k <= LastIndex(s)'
<1>1. Reached \subseteq Reached'
  BY ReachedGrows
<1>2. \A f \in Segs' : \A k \in DOMAIN f : f[k] # 0 => f[k] \in Reached'
  BY <1>1 DEF SegmentTerms
<1>3. ASSUME NEW f \in Segs', NEW s \in Server, NEW k \in DOMAIN f,
             IsLeader(s)', f[k] = currentTerm'[s]
      PROVE  k <= LastIndex(s)'
  <2>1. PICK g \in Segs : k \in DOMAIN g /\ f[k] = g[k]
    OBVIOUS
  <2>2. IsLeader(s) /\ g[k] = currentTerm[s]
    BY <1>3, <2>1 DEF NoNewLeader
  <2>3. k <= LastIndex(s)
    BY <2>1, <2>2 DEF SegmentTerms
  <2> QED
    BY <1>3, <2>3
<1> QED
  BY <1>2, <1>3

-----------------------------------------------------------------------------
(***************************************************************************)
(* AppendEntries.  A call that is accepted from the leader of the term     *)
(* makes the follower's log that of the leader up to the call's end.       *)
(***************************************************************************)
LEMMA AcceptedFromLeader ==
  ASSUME IndInv, NEW m \in msgs, AppendEntries(m), Accepts(m.peer, m),
         NEW l \in Server, l # m.peer, IsLeader(l), currentTerm[l] = m.term
  PROVE  /\ \A k \in 0..MEnd(m) : TermAt(m.peer, k)' = TermAt(l, k)
         /\ MEnd(m) <= LastIndex(l) /\ LastIndex(m.peer)' = MEnd(m)
<1> USE DEF IndInv
<1> DEFINE f == m.peer
<1>1. m.type = "call" /\ f \in Server /\ m \in Calls
  BY CallType DEF AppendEntries, Calls
<1>2. /\ m.prev <= LastIndex(f) /\ LastIndex(f)' = MEnd(m)
      /\ \A k \in 0..m.prev : TermAt(f, k)' = TermAt(f, k)
      /\ \A k \in m.prev + 1..MEnd(m) : TermAt(f, k)' = m.entries[k - m.prev]
  BY AppendEntriesLogs
<1>3. /\ MEnd(m) <= LastIndex(l)
      /\ \A k \in m.prev..MEnd(m) : CallSeg(m)[k] = TermAt(l, k)
  BY <1>1 DEF CallsAreOfLeader
<1>4. /\ m.prev \in Nat /\ MEnd(m) \in Nat /\ m.prev <= MEnd(m)
      /\ CallSeg(m)[m.prev] = m.prevTerm
      /\ \A k \in m.prev + 1..MEnd(m) : CallSeg(m)[k] = m.entries[k - m.prev]
  BY <1>1, CallSegFacts
<1>5. LastIndex(f) \in Nat /\ LastIndex(l) \in Nat
  BY <1>1, LogTypes
<1>6. TermAt(f, m.prev) = TermAt(l, m.prev)
  <2>1. CASE m.prev = 0
    BY <2>1 DEF TermAt
  <2>2. CASE m.prev # 0
    <3>1. TermAt(f, m.prev) = m.prevTerm
      BY <2>2 DEF Accepts, PrevMatches
    <3> QED
      BY SMTT(30), <1>3, <1>4, <3>1
  <2> QED
    BY <2>1, <2>2
<1>7. \A k \in 0..m.prev : TermAt(f, k) = TermAt(l, k)
  <2>1. Matches(LogSeg(f), LogSeg(l))
    BY <1>1, LogSegFacts DEF SegmentsMatch
  <2>2. /\ DOMAIN LogSeg(f) = 0..LastIndex(f) /\ DOMAIN LogSeg(l) = 0..LastIndex(l)
        /\ \A k \in 0..LastIndex(f) : LogSeg(f)[k] = TermAt(f, k)
        /\ \A k \in 0..LastIndex(l) : LogSeg(l)[k] = TermAt(l, k)
    BY <1>1, LogSegFacts
  <2>3. m.prev \in 0..LastIndex(f) /\ m.prev \in 0..LastIndex(l)
    BY SMTT(30), <1>2, <1>3, <1>4, <1>5
  <2>4. LogSeg(f)[m.prev] = LogSeg(l)[m.prev]
    BY <1>6, <2>2, <2>3
  <2> SUFFICES ASSUME NEW k \in 0..m.prev PROVE TermAt(f, k) = TermAt(l, k)
    OBVIOUS
  <2>5. k \in 0..LastIndex(f) /\ k \in 0..LastIndex(l) /\ k <= m.prev
    BY SMTT(30), <1>4, <1>5, <2>3
  <2>6. LogSeg(f)[k] = LogSeg(l)[k]
    BY <2>1, <2>2, <2>3, <2>4, <2>5 DEF Matches
  <2> QED
    BY <2>2, <2>5, <2>6
<1>8. ASSUME NEW k \in 0..MEnd(m) PROVE TermAt(f, k)' = TermAt(l, k)
  <2>1. CASE k <= m.prev
    BY SMTT(30), <1>2, <1>4, <1>7, <2>1
  <2>2. CASE k > m.prev
    BY SMTT(30), <1>2, <1>3, <1>4, <2>2
  <2> QED
    BY SMTT(30), <1>4, <2>1, <2>2
<1> QED
  BY <1>2, <1>3, <1>8

(***************************************************************************)
(* What a follower held of that leader's log it still holds: of a call     *)
(* that ends before it, isArgsEntriesOutOfOrder says so, because the       *)
(* leader has only started commands of its own term since the call.        *)
(***************************************************************************)
LEMMA HeldIsKept ==
  ASSUME IndInv, NEW m \in msgs, AppendEntries(m), Accepts(m.peer, m),
         NEW l \in Server, l # m.peer, IsLeader(l), currentTerm[l] = m.term,
         NEW n \in Nat, Held(l, m.peer, n)
  PROVE  Held(l, m.peer, n)' /\ n <= MEnd(m)
<1> USE DEF IndInv
<1> DEFINE f == m.peer
<1>1. m.type = "call" /\ f \in Server /\ m \in Calls /\ m.term \in Nat
      /\ m.term >= currentTerm[f] /\ currentTerm[f] \in Nat
  BY CallType DEF AppendEntries, Calls, Types
<1>2. /\ \A k \in 0..MEnd(m) : TermAt(f, k)' = TermAt(l, k)
      /\ MEnd(m) <= LastIndex(l) /\ LastIndex(f)' = MEnd(m)
  BY AcceptedFromLeader
<1>3. MEnd(m) \in Nat /\ LastIndex(f) \in Nat /\ LastIndex(l) \in Nat
  BY <1>1, CallSegFacts, LogTypes
<1>4. /\ n <= LastIndex(f) /\ n <= LastIndex(l)
      /\ \A k \in 0..n : TermAt(l, k) = TermAt(f, k)
  BY DEF Held
<1>5. n <= MEnd(m)
  <2> SUFFICES ASSUME n > MEnd(m) PROVE FALSE
    BY SMTT(30), <1>3
  <2> DEFINE e == LastIndex(f)
  <2>1. n \in MEnd(m) + 1..LastIndex(l) /\ n \in 0..e /\ e \in 0..e /\ n \in 0..n
    BY SMTT(30), <1>3, <1>4
  <2>2. TermAt(l, n) = m.term
    BY <1>1, <2>1 DEF CallsAreOfLeader
  <2>3. TermAt(f, n) = m.term
    BY <1>4, <2>1, <2>2
  <2>4. TermAt(f, n) <= TermAt(f, e)
    <3>1. Segment(LogSeg(f)) /\ DOMAIN LogSeg(f) = 0..e
          /\ \A k \in 0..e : LogSeg(f)[k] = TermAt(f, k)
      BY <1>1, LogSegFacts DEF SegmentsMatch
    <3> QED
      BY <1>4, <2>1, <3>1 DEF Segment
  <2>5. TermAt(f, e) <= currentTerm[f] /\ TermAt(f, e) \in Nat
    BY <1>1, <2>1, LogTypes DEF SegmentTerms
  <2>6. TermAt(f, e) = m.term
    BY SMTT(30), <1>1, <2>3, <2>4, <2>5
  <2>7. MEnd(m) < e
    BY SMTT(30), <1>3, <1>4
  <2>8. IsArgsEntriesOutOfOrder(f, m)
    BY <2>6, <2>7 DEF IsArgsEntriesOutOfOrder, MEnd
  <2> QED
    BY <2>8 DEF Accepts
<1>6. LastIndex(l)' = LastIndex(l) /\ \A k \in 0..n : TermAt(l, k)' = TermAt(l, k)
  <2>1. logEntries'[l] = logEntries[l]
    BY AppendEntriesLogs
  <2> QED
    BY <2>1 DEF LastIndex, TermAt
<1>7. ASSUME NEW k \in 0..n PROVE TermAt(l, k)' = TermAt(f, k)'
  <2>1. k \in 0..MEnd(m)
    BY SMTT(30), <1>3, <1>5
  <2> QED
    BY <1>2, <1>6, <2>1
<1> QED
  BY <1>2, <1>3, <1>4, <1>5, <1>6, <1>7 DEF Held

(***************************************************************************)
(* The answer to AppendEntries.                                            *)
(***************************************************************************)
LEMMA AppendEntriesMsgs ==
  ASSUME IndInv, Types', NEW m \in msgs, AppendEntries(m)
  PROVE  \E r : /\ msgs' \subseteq msgs \cup {r} /\ r.type = "reply"
                /\ r.term = m.term /\ r.leader = m.leader /\ r.peer = m.peer
                /\ r.success = Accepts(m.peer, m)
                /\ Accepts(m.peer, m) => r.nex = MEnd(m) + 1
<1> DEFINE r == Reply(m, currentTerm[m.peer], Accepts(m.peer, m),
                      NexIndex(m.peer, m))
<1>1. /\ r.type = "reply" /\ r.term = m.term /\ r.leader = m.leader
      /\ r.peer = m.peer /\ r.success = Accepts(m.peer, m)
      /\ r.nex = NexIndex(m.peer, m)
  BY DEF Reply
<1>2. msgs' \subseteq msgs \cup {r}
  BY DEF AppendEntries, Answered
<1>3. Accepts(m.peer, m) => NexIndex(m.peer, m) = MEnd(m) + 1
  <2>1. m.type = "call" /\ m.peer \in Server
    BY CallType DEF AppendEntries, IndInv
  <2>2. m.prev \in Nat /\ LastIndex(m.peer) \in Nat
    BY <2>1, CallSegFacts, LogTypes DEF IndInv
  <2>3. Accepts(m.peer, m) => /\ ~(m.prev > LastIndex(m.peer))
                              /\ ~IsArgsEntriesOutOfOrder(m.peer, m)
    BY SMTT(30), <2>2 DEF Accepts, PrevMatches
  <2> QED
    BY <2>3 DEF NexIndex, MEnd
<1> HIDE DEF r
<1> QED
  BY <1>1, <1>2, <1>3

(***************************************************************************)
(* AppendEntries keeps the invariant.                                      *)
(***************************************************************************)
LEMMA AppendEntriesStep ==
  ASSUME IndInv, Types', NEW m \in msgs, AppendEntries(m)
  PROVE  IndInv'
<1> USE DEF IndInv
<1> DEFINE f == m.peer
<1>1. /\ m.type = "call" /\ f \in Server /\ m.leader \in Server
      /\ m \in Calls /\ m.term \in Nat
      /\ m.term >= currentTerm[f] /\ matchIndex' = matchIndex
      /\ currentTerm' = [currentTerm EXCEPT ![f] = m.term]
      /\ role' = [role EXCEPT ![f] = "Follower"]
  BY CallType DEF AppendEntries, Calls, leaderVars
<1>2. /\ \A s \in Server : currentTerm[s] \in Nat /\ currentTerm'[s] \in Nat
      /\ currentTerm'[f] = m.term /\ ~IsLeader(f)'
      /\ \A s \in Server : s # f => /\ currentTerm'[s] = currentTerm[s]
                                    /\ IsLeader(s)' = IsLeader(s)
  BY <1>1 DEF Types, IsLeader
<1>3. TermsGrow /\ NoNewLeader
  <2>1. TermsGrow
    BY SMTT(30), <1>1, <1>2 DEF TermsGrow
  <2>2. NoNewLeader
    BY <1>1, <1>2 DEF NoNewLeader
  <2> QED
    BY <2>1, <2>2
<1>4. PICK r : /\ msgs' \subseteq msgs \cup {r} /\ r.type = "reply"
               /\ r.term = m.term /\ r.leader = m.leader /\ r.peer = m.peer
               /\ r.success = Accepts(m.peer, m)
               /\ Accepts(m.peer, m) => r.nex = MEnd(m) + 1
  BY AppendEntriesMsgs
<1>5. CASE ~Accepts(f, m)
  <2>1. logEntries' = logEntries
    BY <1>5, AppendEntriesLogs
  <2>2. QuietMsgs
    BY <1>1, <1>4, <1>5 DEF QuietMsgs, SameCall
  <2> QED
    BY <1>1, <1>3, <2>1, <2>2, QuietStep, QuietMatch
<1>6. CASE Accepts(f, m)
  <2>1. \A s \in Server, k \in Nat : s # f =>
          LastIndex(s)' = LastIndex(s) /\ TermAt(s, k)' = TermAt(s, k)
    BY SMTT(30), AppendEntriesLogs DEF LastIndex, TermAt
  <2>2. /\ m.prev <= LastIndex(f) /\ LastIndex(f)' = MEnd(m)
        /\ \A k \in 0..m.prev : TermAt(f, k)' = TermAt(f, k)
        /\ \A k \in m.prev + 1..MEnd(m) : TermAt(f, k)' = m.entries[k - m.prev]
    BY <1>6, AppendEntriesLogs
  <2>3. /\ CallSeg(m) \in Segs /\ DOMAIN CallSeg(m) = m.prev..MEnd(m)
        /\ m.prev \in Nat /\ MEnd(m) \in Nat /\ m.prev <= MEnd(m)
        /\ CallSeg(m)[m.prev] = m.prevTerm
        /\ \A k \in m.prev + 1..MEnd(m) : CallSeg(m)[k] = m.entries[k - m.prev]
    BY <1>1, CallSegFacts
  <2>4. /\ LogSeg(f) \in Segs /\ DOMAIN LogSeg(f) = 0..LastIndex(f)
        /\ \A k \in 0..LastIndex(f) : LogSeg(f)[k] = TermAt(f, k)
        /\ \A s \in Server : LastIndex(s) \in Nat
    BY <1>1, LogSegFacts, LogTypes
  <2>5. CallTerms(m)
    BY <1>1 DEF SegmentTerms
  <2>6. PICK h : h = LogSeg(f)'
    OBVIOUS
  <2>7. DOMAIN h = 0..MEnd(m) /\ \A k \in 0..MEnd(m) : h[k] = TermAt(f, k)'
    BY <2>2, <2>6 DEF LogSeg
  <2>8. IsSplice(h, LogSeg(f), CallSeg(m), m.prev)
    <3>1. m.prev \in DOMAIN LogSeg(f) /\ m.prev \in DOMAIN CallSeg(m)
      BY SMTT(30), <1>1, <2>2, <2>3, <2>4
    <3>2. LogSeg(f)[m.prev] = CallSeg(m)[m.prev]
      <4>1. LogSeg(f)[m.prev] = TermAt(f, m.prev)
        BY <2>4, <3>1
      <4>2. TermAt(f, m.prev) = m.prevTerm
        BY <1>6, <2>5 DEF Accepts, PrevMatches, CallTerms, TermAt
      <4> QED
        BY <2>3, <4>1, <4>2
    <3>3. DOMAIN h = {k \in DOMAIN LogSeg(f) : k <= m.prev}
                      \cup {k \in DOMAIN CallSeg(m) : k >= m.prev}
      BY SMTT(30), <1>1, <2>2, <2>3, <2>4, <2>7
    <3>4. \A k \in DOMAIN h : h[k] = IF k <= m.prev THEN LogSeg(f)[k]
                                                    ELSE CallSeg(m)[k]
      BY SMTT(30), <1>1, <2>2, <2>3, <2>4, <2>7
    <3> QED
      BY <3>1, <3>2, <3>3, <3>4 DEF IsSplice
  <2>9. Calls' \subseteq Calls /\ Segs' \subseteq Segs \cup {h}
    <3>1. Calls' \subseteq Calls
      BY <1>4 DEF Calls
    <3>2. \A s \in Server : s # f => LogSeg(s)' = LogSeg(s)
      BY SMTT(30), <2>1, <2>4 DEF LogSeg
    <3> QED
      BY <2>6, <3>1, <3>2 DEF Segs, CallSeg, MEnd
  <2>10. SegmentsMatch'
    <3>1. Segment(LogSeg(f)) /\ Segment(CallSeg(m))
      BY <2>3, <2>4 DEF SegmentsMatch
    <3>2. Segment(h)
      BY <2>3, <2>8, <3>1, SpliceIsSegment
    <3>3. ASSUME NEW g \in Segs PROVE Matches(h, g) /\ Matches(g, h)
      <4>1. Segment(g) /\ Matches(LogSeg(f), g) /\ Matches(CallSeg(m), g)
        BY <2>3, <2>4 DEF SegmentsMatch
      <4> QED
        BY <2>3, <2>8, <3>1, <4>1, SpliceMatches
    <3> QED
      BY <2>9, <3>2, <3>3, OneMoreSegment
  <2>11. Elections'
    <3>1. \A n \in msgs' : \E o \in msgs :
            o.term = n.term /\ o.leader = n.leader /\ o.peer = n.peer
      BY <1>4
    <3> QED
      BY <1>3, <3>1, ElectionsKept
  <2>12. SegmentTerms'
    <3>1. \A g \in Segs' : \A k \in DOMAIN g :
            \E o \in Segs : k \in DOMAIN o /\ g[k] = o[k]
      <4>1. ASSUME NEW k \in DOMAIN h
            PROVE  \E o \in {LogSeg(f), CallSeg(m)} : k \in DOMAIN o /\ h[k] = o[k]
        <5>1. k \in 0..MEnd(m)
          BY <2>7
        <5>2. k <= m.prev => k \in DOMAIN LogSeg(f) /\ h[k] = LogSeg(f)[k]
          BY SMTT(30), <1>1, <2>2, <2>3, <2>4, <2>8, <5>1 DEF IsSplice
        <5>3. ~(k <= m.prev) => k \in DOMAIN CallSeg(m) /\ h[k] = CallSeg(m)[k]
          BY <2>3, <2>8, <5>1 DEF IsSplice
        <5> QED
          BY <5>2, <5>3
      <4> QED
        BY <2>3, <2>4, <2>9, <4>1
    <3>2. /\ \A g \in Segs' : \A k \in DOMAIN g : g[k] # 0 => g[k] \in Reached'
          /\ \A g \in Segs', s \in Server : \A k \in DOMAIN g :
               IsLeader(s)' /\ g[k] = currentTerm'[s] => k <= LastIndex(s)'
      BY <1>2, <1>3, <2>1, <3>1, SegmentTermsKept
    <3>3. ASSUME NEW s \in Server, NEW k \in 0..LastIndex(s)'
          PROVE  TermAt(s, k)' <= currentTerm'[s]
      <4>1. CASE s = f
        <5>1. k \in 0..MEnd(m) /\ k \in DOMAIN h /\ h[k] = TermAt(f, k)'
          BY <2>2, <2>7, <4>1
        <5>2. CASE k <= m.prev
          <6>1. k \in 0..LastIndex(f) /\ TermAt(f, k)' = TermAt(f, k)
            BY SMTT(30), <1>1, <2>2, <2>3, <2>4, <5>1, <5>2
          <6>2. TermAt(f, k) <= currentTerm[f] /\ TermAt(f, k) \in Nat
            BY <1>1, <6>1, LogTypes DEF SegmentTerms
          <6> QED
            BY SMTT(30), <1>1, <1>2, <4>1, <6>1, <6>2
        <5>3. CASE k > m.prev
          <6>1. k \in m.prev + 1..MEnd(m)
            BY SMTT(30), <2>3, <5>1, <5>3
          <6>2. TermAt(f, k)' = CallSeg(m)[k]
            BY <2>2, <2>3, <6>1
          <6>3. k \in m.prev..MEnd(m)
            BY SMTT(30), <2>3, <6>1
          <6> QED
            BY <1>2, <2>5, <4>1, <6>2, <6>3 DEF CallTerms
        <5> QED
          BY SMTT(30), <2>3, <5>1, <5>2, <5>3
      <4>2. CASE s # f
        <5>1. k \in 0..LastIndex(s) /\ k \in Nat
          BY SMTT(30), <2>1, <2>4, <4>2
        <5> QED
          BY <1>2, <2>1, <4>2, <5>1 DEF SegmentTerms
      <4> QED
        BY <4>1, <4>2
    <3>4. \A n \in Calls' : CallTerms(n)
      BY <2>9 DEF SegmentTerms
    <3> QED
      BY <3>2, <3>3, <3>4 DEF SegmentTerms, CallTerms, CallSeg, MEnd
  <2>13. CallsAreOfLeader'
    <3> SUFFICES ASSUME NEW n \in Calls', NEW s \in Server,
                        IsLeader(s)', currentTerm'[s] = n.term
                 PROVE  /\ MEnd(n) <= LastIndex(s)'
                        /\ \A k \in n.prev..MEnd(n) : CallSeg(n)[k] = TermAt(s, k)'
                        /\ \A k \in MEnd(n) + 1..LastIndex(s)' :
                             TermAt(s, k)' = n.term
      BY DEF CallsAreOfLeader, MEnd, CallSeg
    <3>1. s # f /\ IsLeader(s) /\ currentTerm[s] = n.term /\ n \in Calls
      BY <1>2, <2>9
    <3>2. n \in msgs /\ n.type = "call"
      BY <3>1 DEF Calls
    <3>3. n.prev \in Nat /\ MEnd(n) \in Nat
      BY <3>2, CallSegFacts
    <3> QED
      BY SMTT(30), <2>1, <3>1, <3>3 DEF CallsAreOfLeader
  <2>14. ASSUME NEW u \in Server, NEW q \in Server, NEW k \in Nat,
                u # f, q # f, Held(u, q, k)
         PROVE  Held(u, q, k)'
    BY SMTT(30), <2>1, <2>14 DEF Held
  <2>15. AnswersHold'
    <3> SUFFICES ASSUME NEW o \in msgs', o.type = "reply", o.success
                 PROVE  /\ o.nex # 0 /\ currentTerm'[o.peer] >= o.term
                        /\ IsLeader(o.leader)' /\ currentTerm'[o.leader] = o.term
                             /\ currentTerm'[o.peer] <= o.term
                           => Held(o.leader, o.peer, o.nex - 1)'
      BY DEF AnswersHold
    <3>1. CASE o \notin msgs
      <4>1. o = r /\ o.nex = MEnd(m) + 1 /\ o.peer = f /\ o.leader = m.leader
            /\ o.term = m.term
        BY <1>4, <1>6, <3>1
      <4>2. ASSUME IsLeader(m.leader)', currentTerm'[m.leader] = m.term
            PROVE  Held(m.leader, f, MEnd(m))'
        <5>1. m.leader # f /\ IsLeader(m.leader) /\ currentTerm[m.leader] = m.term
          BY <1>1, <1>2, <4>2 DEF Elections
        <5>2. /\ \A k \in 0..MEnd(m) : TermAt(f, k)' = TermAt(m.leader, k)
              /\ MEnd(m) <= LastIndex(m.leader) /\ LastIndex(f)' = MEnd(m)
          BY <1>1, <1>6, <5>1, AcceptedFromLeader
        <5>3. /\ LastIndex(m.leader)' = LastIndex(m.leader)
              /\ \A k \in 0..MEnd(m) : TermAt(m.leader, k)' = TermAt(m.leader, k)
          BY SMTT(30), <1>1, <2>1, <2>3, <5>1
        <5>4. \A k \in 0..MEnd(m) : TermAt(m.leader, k)' = TermAt(f, k)'
          BY <5>2, <5>3
        <5>5. MEnd(m)' = MEnd(m) /\ MEnd(m) <= LastIndex(f)'
              /\ MEnd(m) <= LastIndex(m.leader)'
          BY SMTT(30), <2>3, <5>2, <5>3 DEF MEnd
        <5> QED
          BY <5>4, <5>5 DEF Held
      <4>3. o.nex # 0 /\ o.nex - 1 = MEnd(m)
        BY SMTT(30), <2>3, <4>1
      <4>4. currentTerm'[o.peer] >= o.term
        BY SMTT(30), <1>1, <1>2, <4>1
      <4>5. Held(m.leader, f, MEnd(m))' => Held(o.leader, o.peer, o.nex - 1)'
        BY <4>1, <4>3 DEF Held, MEnd
      <4> QED
        BY <4>1, <4>2, <4>3, <4>4, <4>5
    <3>2. CASE o \in msgs
      <4>1. o.leader \in Server /\ o.peer \in Server /\ o.term \in Nat
            /\ o.nex \in Nat
        BY <3>2, CallType DEF Answer
      <4>2. o.nex # 0 /\ currentTerm[o.peer] >= o.term /\ o.nex - 1 \in Nat
        BY SMTT(30), <3>2, <4>1 DEF AnswersHold
      <4>3. currentTerm'[o.peer] >= currentTerm[o.peer]
        BY <1>2, <1>3, <4>1 DEF TermsGrow
      <4>4. ASSUME IsLeader(o.leader)', currentTerm'[o.leader] = o.term,
                   currentTerm'[o.peer] <= o.term
            PROVE  Held(o.leader, o.peer, o.nex - 1)'
        <5>1. o.leader # f /\ IsLeader(o.leader) /\ currentTerm[o.leader] = o.term
          BY <1>2, <4>1, <4>4
        <5>2. currentTerm[o.peer] <= o.term
          BY SMTT(30), <1>2, <4>1, <4>3, <4>4
        <5>3. Held(o.leader, o.peer, o.nex - 1)
          BY <3>2, <5>1, <5>2 DEF AnswersHold
        <5>4. CASE o.peer = f
          <6>1. o.term = m.term
            BY SMTT(30), <1>1, <1>2, <4>1, <4>2, <4>4, <5>4
          <6>2. Held(o.leader, f, o.nex - 1)'
            BY <1>6, <4>1, <4>2, <5>1, <5>3, <5>4, <6>1, HeldIsKept
          <6> QED
            BY <5>4, <6>2
        <5>5. CASE o.peer # f
          BY <2>14, <4>1, <4>2, <5>1, <5>3, <5>5
        <5> QED
          BY <5>4, <5>5
      <4> QED
        BY SMTT(30), <1>2, <4>1, <4>2, <4>3, <4>4
    <3> QED
      BY <3>1, <3>2
  <2>16. MatchHolds'
    <3> SUFFICES ASSUME NEW l \in Server, NEW p \in Server, IsLeader(l)'
                 PROVE  /\ p # l /\ matchIndex'[l][p] # 0 =>
                             currentTerm'[p] >= currentTerm'[l]
                        /\ currentTerm'[p] <= currentTerm'[l] =>
                             Held(l, p, matchIndex[l][p])'
      BY DEF MatchHolds
    <3>1. PICK n \in Nat : n = matchIndex[l][p] /\ matchIndex'[l][p] = n
      BY SMTT(30), <1>1 DEF Types
    <3>2. l # f /\ IsLeader(l) /\ currentTerm'[l] = currentTerm[l]
      BY <1>2
    <3>3. /\ p # l /\ n # 0 => currentTerm[p] >= currentTerm[l]
          /\ currentTerm[p] <= currentTerm[l] => Held(l, p, n)
      BY <3>1, <3>2 DEF MatchHolds
    <3>4. currentTerm[p] <= currentTerm'[p]
      BY <1>3 DEF TermsGrow
    <3>5. ASSUME currentTerm'[p] <= currentTerm'[l] PROVE Held(l, p, n)'
      <4>1. Held(l, p, n)
        BY SMTT(30), <1>2, <3>2, <3>3, <3>4, <3>5
      <4>2. CASE p # f
        BY <2>14, <3>2, <4>1, <4>2
      <4>3. CASE p = f /\ n = 0
        BY SMTT(30), <2>1, <2>2, <2>3, <2>4, <3>2, <4>3 DEF Held, TermAt
      <4>4. CASE p = f /\ n # 0
        <5>1. currentTerm[l] = m.term
          BY SMTT(30), <1>1, <1>2, <3>2, <3>3, <3>5, <4>4
        <5> QED
          BY <1>6, <3>2, <4>1, <4>4, <5>1, HeldIsKept
      <4> QED
        BY <4>2, <4>3, <4>4
    <3>6. Held(l, p, n)' => Held(l, p, matchIndex[l][p])'
      BY <3>1 DEF Held
    <3> QED
      BY SMTT(30), <1>2, <3>1, <3>2, <3>3, <3>4, <3>5, <3>6
  <2> QED
    BY SMTT(30), <2>10, <2>11, <2>12, <2>13, <2>15, <2>16
<1> QED
  BY <1>5, <1>6

-----------------------------------------------------------------------------
(***************************************************************************)
(* A command is started: its entry is at an index where no segment has the *)
(* leader's term.                                                          *)
(***************************************************************************)
LEMMA StartStep ==
  ASSUME IndInv, Types', NEW l \in Server, Start(l)
  PROVE  IndInv'
<1> USE DEF IndInv
<1>0. PICK n \in Nat, t \in Nat : n = LastIndex(l) /\ t = currentTerm[l]
  BY LogTypes DEF Types
<1> DEFINE a == LogSeg(l)
           h == [k \in 0..n + 1 |-> IF k = n + 1 THEN t ELSE TermAt(l, k)]
<1>1. /\ IsLeader(l) /\ UNCHANGED <<currentTerm, role, msgs>>
      /\ logEntries' = [logEntries EXCEPT ![l] = Append(logEntries[l], t)]
      /\ matchIndex' = [matchIndex EXCEPT ![l][l] = n + 1]
  BY <1>0 DEF Start, IsLeader
<1>2. n = LastIndex(l) /\ t = currentTerm[l] /\ logEntries[l] \in Seq(Nat)
      /\ \A s \in Server : LastIndex(s) \in Nat
  BY <1>0, LogTypes DEF Types
<1>3. /\ LastIndex(l)' = n + 1
      /\ \A k \in 0..n : TermAt(l, k)' = TermAt(l, k)
      /\ TermAt(l, n + 1)' = t
  <2>1. logEntries'[l] = Append(logEntries[l], t)
    BY <1>1 DEF Types
  <2>2. /\ Len(Append(logEntries[l], t)) = n + 1
        /\ \A k \in 1..n : Append(logEntries[l], t)[k] = logEntries[l][k]
        /\ Append(logEntries[l], t)[n + 1] = t
    BY SMTT(30), <1>2 DEF LastIndex
  <2> QED
    BY SMTT(30), <1>2, <2>1, <2>2 DEF LastIndex, TermAt
<1>4. \A s \in Server, k \in Nat : s # l =>
        LastIndex(s)' = LastIndex(s) /\ TermAt(s, k)' = TermAt(s, k)
  BY <1>1 DEF LastIndex, TermAt, Types
<1>5. /\ a \in Segs /\ DOMAIN a = 0..n /\ \A k \in 0..n : a[k] = TermAt(l, k)
  BY <1>2, LogSegFacts
<1>6. /\ DOMAIN h = 0..n + 1 /\ h[n + 1] = t /\ \A k \in 0..n : h[k] = a[k]
  BY SMTT(30), <1>2, <1>5
<1>7. Calls' = Calls /\ Segs' \subseteq Segs \cup {h}
  <2>1. Calls' = Calls
    BY <1>1 DEF Calls
  <2>2. LogSeg(l)' = h
    BY SMTT(30), <1>2, <1>3 DEF LogSeg
  <2>3. \A s \in Server : s # l => LogSeg(s)' = LogSeg(s)
    BY SMTT(30), <1>2, <1>4 DEF LogSeg
  <2> HIDE DEF h
  <2> QED
    BY <2>1, <2>2, <2>3 DEF Segs, CallSeg, MEnd
<1>8. \A k \in 0..n : TermAt(l, k) \in Nat /\ TermAt(l, k) <= t
  BY <1>2, LogTypes DEF SegmentTerms
<1>9. Segment(h)
  <2>1. Segment(a)
    BY <1>5 DEF SegmentsMatch
  <2> HIDE DEF a, h
  <2>2. DOMAIN h \subseteq Nat /\ \A k \in DOMAIN h : h[k] \in Nat
    BY SMTT(30), <1>2, <1>5, <1>6, <1>8
  <2>3. \A i, j \in DOMAIN h : i..j \subseteq DOMAIN h
    BY SMTT(30), <1>2, <1>6
  <2>4. \A i, j \in DOMAIN h : i <= j => h[i] <= h[j]
    BY SMTT(30), <1>2, <1>5, <1>6, <1>8, <2>1 DEF Segment
  <2> QED
    BY <2>2, <2>3, <2>4 DEF Segment
<1>10. \A g \in Segs : Matches(h, g) /\ Matches(g, h)
  <2> SUFFICES ASSUME NEW g \in Segs PROVE Matches(h, g) /\ Matches(g, h)
    OBVIOUS
  <2>1. Matches(a, g) /\ Matches(g, a)
    BY <1>5 DEF SegmentsMatch
  <2>2. n + 1 \in DOMAIN g => g[n + 1] # t
    BY SMTT(30), <1>1, <1>2 DEF SegmentTerms
  <2>3. ASSUME NEW k \in DOMAIN h \cap DOMAIN g, h[k] = g[k],
               NEW j \in DOMAIN h \cap DOMAIN g, j <= k
        PROVE  h[j] = g[j]
    <3>1. k \in 0..n /\ j \in 0..n
      BY SMTT(30), <1>6, <2>2, <2>3
    <3>2. a[k] = g[k] /\ k \in DOMAIN a /\ j \in DOMAIN a
      BY <1>5, <1>6, <2>3, <3>1
    <3> HIDE DEF a, h
    <3> QED
      BY <1>6, <2>1, <2>3, <3>1, <3>2 DEF Matches
  <2> HIDE DEF a, h
  <2> QED
    BY <2>3 DEF Matches
<1>11. SegmentsMatch'
  <2> HIDE DEF h
  <2> QED
    BY <1>7, <1>9, <1>10, OneMoreSegment
<1>12. TermsGrow /\ NoNewLeader
  BY SMTT(30), <1>1 DEF TermsGrow, NoNewLeader, IsLeader, Types
<1>13. Elections'
  BY <1>1, <1>12, ElectionsKept
<1>14. SegmentTerms'
  <2>1. Reached' = Reached
    BY <1>1 DEF Reached
  <2>2. \A s \in Server : IsLeader(s)' /\ currentTerm'[s] = t => s = l
    BY <1>1, <1>2 DEF Elections, IsLeader
  <2>3. \A f \in Segs' : \A k \in DOMAIN f : f[k] # 0 => f[k] \in Reached'
    <3>1. t \in Reached
      BY <1>1, <1>2 DEF Elections
    <3>2. \A k \in DOMAIN h : h[k] # 0 => h[k] \in Reached
      <4> HIDE DEF h, a
      <4> QED
        BY SMTT(30), <1>2, <1>5, <1>6, <3>1 DEF SegmentTerms
    <3> HIDE DEF h
    <3> QED
      BY <1>7, <2>1, <3>2 DEF SegmentTerms
  <2>4. \A f \in Segs', s \in Server : \A k \in DOMAIN f :
          IsLeader(s)' /\ f[k] = currentTerm'[s] => k <= LastIndex(s)'
    <3> SUFFICES ASSUME NEW f \in Segs', NEW s \in Server, NEW k \in DOMAIN f,
                        IsLeader(s)', f[k] = currentTerm'[s]
                 PROVE  k <= LastIndex(s)'
      OBVIOUS
    <3>1. IsLeader(s) /\ currentTerm'[s] = currentTerm[s]
      BY <1>12 DEF NoNewLeader
    <3>2. LastIndex(s) <= LastIndex(s)' /\ LastIndex(s)' \in Nat
      BY SMTT(30), <1>2, <1>3, <1>4
    <3>3. CASE f \in Segs
      <4>1. k <= LastIndex(s) /\ k \in Nat
        BY <3>1, <3>3 DEF SegmentTerms, SegmentsMatch, Segment
      <4> QED
        BY SMTT(30), <1>2, <3>2, <4>1
    <3>4. CASE f = h
      <4>1. k \in 0..n + 1
        BY <1>6, <3>4
      <4>2. CASE k = n + 1
        <5>1. s = l
          BY <1>6, <2>2, <3>4, <4>2
        <5> QED
          BY SMTT(30), <1>2, <1>3, <4>2, <5>1
      <4>3. CASE k \in 0..n
        <5>1. a[k] = currentTerm[s]
          BY <1>6, <3>1, <3>4, <4>3
        <5>2. k <= LastIndex(s)
          BY <1>5, <3>1, <4>3, <5>1 DEF SegmentTerms
        <5> QED
          BY SMTT(30), <1>2, <3>2, <4>3, <5>2
      <4> QED
        BY SMTT(30), <1>2, <4>1, <4>2, <4>3
    <3> QED
      BY <1>7, <3>3, <3>4
  <2>5. ASSUME NEW s \in Server, NEW k \in 0..LastIndex(s)'
        PROVE  TermAt(s, k)' <= currentTerm'[s]
    <3>1. CASE s = l
      BY SMTT(30), <1>1, <1>2, <1>3, <1>8, <3>1
    <3>2. CASE s # l
      BY SMTT(30), <1>1, <1>2, <1>4, <3>2 DEF SegmentTerms
    <3> QED
      BY <3>1, <3>2
  <2>6. \A m \in Calls' : CallTerms(m)
    BY <1>7 DEF SegmentTerms
  <2> QED
    BY <2>3, <2>4, <2>5, <2>6 DEF SegmentTerms, CallTerms, CallSeg, MEnd
<1>15. CallsAreOfLeader'
  <2> SUFFICES ASSUME NEW m \in Calls, NEW s \in Server,
                      IsLeader(s)', currentTerm'[s] = m.term
               PROVE  /\ MEnd(m) <= LastIndex(s)'
                      /\ \A k \in m.prev..MEnd(m) : CallSeg(m)[k] = TermAt(s, k)'
                      /\ \A k \in MEnd(m) + 1..LastIndex(s)' :
                           TermAt(s, k)' = m.term
    BY SMTT(30), <1>7 DEF CallsAreOfLeader, MEnd, CallSeg
  <2>1. IsLeader(s) /\ currentTerm[s] = m.term
    BY <1>12 DEF NoNewLeader
  <2>2. m \in msgs /\ m.type = "call"
    BY DEF Calls
  <2>3. m.prev \in Nat /\ MEnd(m) \in Nat /\ m.prev <= MEnd(m)
    BY <2>2, CallSegFacts
  <2>4. /\ MEnd(m) <= LastIndex(s)
        /\ \A k \in m.prev..MEnd(m) : CallSeg(m)[k] = TermAt(s, k)
        /\ \A k \in MEnd(m) + 1..LastIndex(s) : TermAt(s, k) = m.term
    BY <2>1 DEF CallsAreOfLeader
  <2>5. CASE s = l
    <3>1. \A k \in m.prev..MEnd(m) : k \in 0..LastIndex(s)
      BY SMTT(30), <1>2, <2>3, <2>4
    <3>2. \A k \in m.prev..MEnd(m) : CallSeg(m)[k] = TermAt(s, k)'
      BY <1>2, <1>3, <2>4, <2>5, <3>1
    <3>3. ASSUME NEW k \in MEnd(m) + 1..LastIndex(s)'
          PROVE  TermAt(s, k)' = m.term
      <4>1. CASE k <= LastIndex(s)
        <5>1. k \in MEnd(m) + 1..LastIndex(s) /\ k \in 0..LastIndex(s)
          BY SMTT(30), <1>2, <2>3, <4>1
        <5> QED
          BY <1>2, <1>3, <2>4, <2>5, <5>1
      <4>2. CASE ~(k <= LastIndex(s))
        BY SMTT(30), <1>2, <1>3, <2>1, <2>3, <2>5, <4>2
      <4> QED
        BY <4>1, <4>2
    <3>4. MEnd(m) <= LastIndex(s)'
      BY SMTT(30), <1>2, <1>3, <2>3, <2>4, <2>5
    <3> QED
      BY <3>2, <3>3, <3>4
  <2>6. CASE s # l
    BY SMTT(30), <1>2, <1>4, <2>3, <2>4, <2>6
  <2> QED
    BY <2>5, <2>6
<1>16. \A u, q \in Server, k \in Nat : Held(u, q, k) => Held(u, q, k)'
  <2> SUFFICES ASSUME NEW u \in Server, NEW q \in Server, NEW k \in Nat,
                      Held(u, q, k)
               PROVE  Held(u, q, k)'
    OBVIOUS
  <2>1. \A s \in Server : LastIndex(s) <= LastIndex(s)' /\ LastIndex(s)' \in Nat
    BY SMTT(30), <1>2, <1>3, <1>4
  <2>2. \A s \in Server : \A j \in 0..LastIndex(s) : TermAt(s, j)' = TermAt(s, j)
    BY SMTT(30), <1>2, <1>3, <1>4
  <2>3. k <= LastIndex(u) /\ k <= LastIndex(q)
        /\ \A j \in 0..k : TermAt(u, j) = TermAt(q, j)
    BY DEF Held
  <2>4. k <= LastIndex(u)' /\ k <= LastIndex(q)'
    BY SMTT(30), <1>2, <2>1, <2>3
  <2>5. ASSUME NEW j \in 0..k PROVE TermAt(u, j)' = TermAt(q, j)'
    <3>1. j \in 0..LastIndex(u) /\ j \in 0..LastIndex(q)
      BY SMTT(30), <1>2, <2>3
    <3> QED
      BY <2>2, <2>3, <3>1
  <2> QED
    BY <2>4, <2>5 DEF Held
<1>17. AnswersHold'
  <2> SUFFICES ASSUME NEW r \in msgs, r.type = "reply", r.success
               PROVE  /\ r.nex # 0 /\ currentTerm'[r.peer] >= r.term
                      /\ IsLeader(r.leader)' /\ currentTerm'[r.leader] = r.term
                           /\ currentTerm'[r.peer] <= r.term
                         => Held(r.leader, r.peer, r.nex - 1)'
    BY <1>1 DEF AnswersHold
  <2>1. r.nex \in Nat /\ r.leader \in Server /\ r.peer \in Server
    BY CallType DEF Answer
  <2>2. r.nex # 0 /\ r.nex - 1 \in Nat
    BY SMTT(30), <2>1 DEF AnswersHold
  <2>3. Held(r.leader, r.peer, r.nex - 1) => Held(r.leader, r.peer, r.nex - 1)'
    BY <1>16, <2>1, <2>2
  <2> QED
    BY <1>1, <2>2, <2>3 DEF AnswersHold, IsLeader
<1>18. MatchHolds'
  <2> SUFFICES ASSUME NEW u \in Server, NEW q \in Server, IsLeader(u)'
               PROVE  /\ q # u /\ matchIndex'[u][q] # 0 =>
                           currentTerm'[q] >= currentTerm'[u]
                      /\ currentTerm'[q] <= currentTerm'[u] =>
                           Held(u, q, matchIndex[u][q])'
    BY DEF MatchHolds
  <2>1. CASE u = l /\ q = l
    <3>1. matchIndex'[l][l] = n + 1
      BY <1>1 DEF Types
    <3>2. Held(l, l, matchIndex[l][l])'
      BY SMTT(30), <1>2, <1>3, <3>1 DEF Held
    <3> QED
      BY <2>1, <3>2
  <2>2. CASE ~(u = l /\ q = l)
    <3>1. matchIndex'[u][q] = matchIndex[u][q] /\ matchIndex[u][q] \in Nat
      BY SMTT(30), <1>1, <2>2 DEF Types
    <3>2. Held(u, q, matchIndex[u][q]) => Held(u, q, matchIndex[u][q])'
      BY SMTT(30), <1>16, <3>1 DEF Held
    <3>3. IsLeader(u)
      BY <1>12 DEF NoNewLeader
    <3> QED
      BY <1>1, <3>1, <3>2, <3>3 DEF MatchHolds
  <2> QED
    BY <2>1, <2>2
<1> QED
  BY <1>11, <1>13, <1>14, <1>15, <1>17, <1>18

-----------------------------------------------------------------------------
(***************************************************************************)
(* A call carries the end of its leader's log.                             *)
(***************************************************************************)
LEMMA MakeArgsFacts ==
  ASSUME Types, NEW l \in Server, NEW p \in Server
  PROVE  LET m == MakeArgs(l, p)
         IN /\ m \in Call
            /\ m.leader = l /\ m.peer = p /\ m.term = currentTerm[l]
            /\ m.prev <= LastIndex(l) /\ MEnd(m) = LastIndex(l)
            /\ m.prevTerm = TermAt(l, m.prev)
            /\ \A k \in m.prev..LastIndex(l) : CallSeg(m)[k] = TermAt(l, k)
<1> DEFINE prev == IF nextIndex[l][p] > LastIndex(l) THEN LastIndex(l)
                                                     ELSE nextIndex[l][p] - 1
           log == logEntries[l]
           ents == SubSeq(log, prev + 1, LastIndex(l))
<1>1. nextIndex[l][p] \in Nat \ {0} /\ commitIndex[l] \in Nat
      /\ currentTerm[l] \in Nat /\ log \in Seq(Nat) /\ LastIndex(l) = Len(log)
  BY DEF Types, LastIndex
<1>2. prev \in 0..LastIndex(l) /\ LastIndex(l) \in Nat
  BY SMTT(30), <1>1
<1>3. TermAt(l, prev) \in Nat
  BY <1>2, LogTypes
<1>4. /\ ents \in Seq(Nat)
      /\ Len(ents) = LastIndex(l) - prev
      /\ \A i \in 1..LastIndex(l) - prev : ents[i] = log[prev + i]
  <2>1. /\ log \in Seq(Nat) /\ Len(log) = LastIndex(l)
        /\ prev \in Nat /\ prev <= Len(log)
    BY SMTT(30), <1>1, <1>2 DEF LastIndex
  <2> HIDE DEF prev, log
  <2>2. ents \in Seq(Nat) /\ Len(ents) = LastIndex(l) - prev
    BY SMTT(30), <2>1
  <2>3. \A i \in 1..LastIndex(l) - prev : ents[i] = log[prev + i]
    BY SMTT(30), <2>1
  <2> QED
    BY <2>2, <2>3
<1> DEFINE m == MakeArgs(l, p)
<1>5. m = [type |-> "call", leader |-> l, peer |-> p, term |-> currentTerm[l],
           prev |-> prev, prevTerm |-> TermAt(l, prev), entries |-> ents,
           commit |-> commitIndex[l], orphan |-> FALSE]
  BY DEF MakeArgs
<1> HIDE DEF m, ents, prev
<1>6. m \in Call
  BY SMTT(30), <1>1, <1>2, <1>3, <1>4, <1>5 DEF Call
<1>7. /\ m.leader = l /\ m.peer = p /\ m.term = currentTerm[l]
      /\ m.prev = prev /\ m.prevTerm = TermAt(l, prev) /\ m.entries = ents
  BY <1>5
<1>8. MEnd(m) = LastIndex(l)
  BY SMTT(30), <1>2, <1>4, <1>7 DEF MEnd
<1>9. ASSUME NEW k \in m.prev..LastIndex(l)
      PROVE  CallSeg(m)[k] = TermAt(l, k)
  <2>1. CASE k = prev
    BY <1>7, <1>8, <2>1 DEF CallSeg
  <2>2. CASE k # prev
    <3>1. k - prev \in 1..LastIndex(l) - prev /\ k # 0
      BY SMTT(30), <1>2, <1>7, <2>2
    <3>2. ents[k - prev] = log[k]
      BY SMTT(30), <1>2, <1>4, <1>7, <3>1
    <3> QED
      BY <1>7, <1>8, <2>2, <3>1, <3>2 DEF CallSeg, TermAt
  <2> QED
    BY <2>1, <2>2
<1> QED
  BY SMTT(30), <1>2, <1>6, <1>7, <1>8, <1>9 DEF m

(***************************************************************************)
(* A call: its segment is a part of the leader's log.                      *)
(***************************************************************************)
LEMMA SendStep ==
  ASSUME IndInv, Types', NEW l \in Server, NEW p \in Server,
         SendAppendEntries(l, p)
  PROVE  IndInv'
<1> USE DEF IndInv
<1> DEFINE n == MakeArgs(l, p)
           h == CallSeg(n)
           a == LogSeg(l)
<1>1. /\ IsLeader(l) /\ p # l /\ msgs' = msgs \cup {n}
      /\ UNCHANGED <<currentTerm, role, logEntries, matchIndex>>
  BY DEF SendAppendEntries, IsLeader, serverVars, leaderVars
<1>2. /\ n \in Call /\ n.leader = l /\ n.peer = p /\ n.term = currentTerm[l]
      /\ n.prev <= LastIndex(l) /\ MEnd(n) = LastIndex(l)
      /\ n.prevTerm = TermAt(l, n.prev)
      /\ \A k \in n.prev..LastIndex(l) : CallSeg(n)[k] = TermAt(l, k)
  BY SMTT(30), MakeArgsFacts
<1> HIDE DEF n
<1>3. n.type = "call" /\ n.prev \in Nat /\ LastIndex(l) \in Nat
  BY <1>2, LogTypes DEF Call
<1>4. /\ a \in Segs /\ DOMAIN a = 0..LastIndex(l)
      /\ \A k \in 0..LastIndex(l) : a[k] = TermAt(l, k)
  BY LogSegFacts
<1>5. DOMAIN h = n.prev..LastIndex(l)
  BY <1>2 DEF CallSeg
<1>6. DOMAIN h \subseteq DOMAIN a /\ \A k \in DOMAIN h : h[k] = a[k]
  BY SMTT(30), <1>2, <1>3, <1>4, <1>5
<1>7. Segment(a)
  BY <1>4 DEF SegmentsMatch
<1>8. Segment(h)
  <2>1. DOMAIN h \subseteq Nat /\ \A k \in DOMAIN h : h[k] \in Nat
    BY <1>6, <1>7 DEF Segment
  <2>2. \A i, j \in DOMAIN h : i..j \subseteq DOMAIN h
    BY SMTT(30), <1>3, <1>5
  <2>3. \A i, j \in DOMAIN h : i <= j => h[i] <= h[j]
    <3> HIDE DEF h, a
    <3> QED
      BY <1>6, <1>7 DEF Segment
  <2> HIDE DEF h
  <2> QED
    BY <2>1, <2>2, <2>3 DEF Segment
<1>9. \A g \in Segs : Matches(h, g) /\ Matches(g, h)
  <2> SUFFICES ASSUME NEW g \in Segs PROVE Matches(h, g) /\ Matches(g, h)
    OBVIOUS
  <2>1. Matches(a, g) /\ Matches(g, a)
    BY <1>4 DEF SegmentsMatch
  <2> HIDE DEF h, a
  <2> QED
    BY <1>6, <2>1, PartMatches
<1>10. Segs' \subseteq Segs \cup {h} /\ Calls' = Calls \cup {n}
  BY SMTT(30), <1>1, <1>3 DEF Segs, LogSeg, Calls, CallSeg, MEnd, LastIndex, TermAt
<1>11. TermsGrow /\ NoNewLeader
  BY SMTT(30), <1>1 DEF TermsGrow, NoNewLeader, IsLeader, Types
<1>12. \A s \in Server, k \in Nat :
        LastIndex(s)' = LastIndex(s) /\ TermAt(s, k)' = TermAt(s, k)
  BY <1>1 DEF LastIndex, TermAt
<1>13. Elections'
  <2>1. \A m \in msgs' :
           \/ \E n1 \in msgs : /\ n1.term = m.term /\ n1.leader = m.leader
                               /\ n1.peer = m.peer
           \/ /\ m.leader \in Server /\ IsLeader(m.leader)
              /\ m.term = currentTerm[m.leader] /\ m.peer # m.leader
    BY <1>1, <1>2
  <2> QED
    BY <1>11, <2>1, ElectionsKept
<1>14. SegmentsMatch'
  <2> HIDE DEF h
  <2> QED
    BY <1>8, <1>9, <1>10, OneMoreSegment
<1>15. SegmentTerms'
  <2>1. \A f \in Segs' : \A k \in DOMAIN f :
          \E g \in Segs : k \in DOMAIN g /\ f[k] = g[k]
    <3> HIDE DEF h, a
    <3> QED
      BY <1>4, <1>6, <1>10
  <2>2. /\ \A f \in Segs' : \A k \in DOMAIN f : f[k] # 0 => f[k] \in Reached'
        /\ \A f \in Segs', s \in Server : \A k \in DOMAIN f :
             IsLeader(s)' /\ f[k] = currentTerm'[s] => k <= LastIndex(s)'
    BY <1>11, <1>12, <2>1, SegmentTermsKept
  <2>3. \A s \in Server : \A k \in 0..LastIndex(s)' :
          TermAt(s, k)' <= currentTerm'[s]
    BY SMTT(30), <1>1, <1>12, LogTypes DEF SegmentTerms
  <2>4. \A m \in Calls' : CallTerms(m)
    <3>1. \A k \in n.prev..LastIndex(l) : TermAt(l, k) <= currentTerm[l]
      BY SMTT(30), <1>3 DEF SegmentTerms
    <3>2. CallTerms(n)
      BY <1>2, <3>1 DEF CallTerms, TermAt
    <3> QED
      BY <1>10, <3>2 DEF SegmentTerms
  <2> QED
    BY <2>2, <2>3, <2>4 DEF SegmentTerms, CallTerms, CallSeg, MEnd
<1>16. CallsAreOfLeader'
  <2> SUFFICES ASSUME NEW m \in Calls', NEW s \in Server,
                      IsLeader(s)', currentTerm'[s] = m.term
               PROVE  /\ MEnd(m) <= LastIndex(s)'
                      /\ \A k \in m.prev..MEnd(m) : CallSeg(m)[k] = TermAt(s, k)'
                      /\ \A k \in MEnd(m) + 1..LastIndex(s)' :
                           TermAt(s, k)' = m.term
    BY DEF CallsAreOfLeader, MEnd, CallSeg
  <2>1. IsLeader(s) /\ currentTerm[s] = m.term
    BY <1>11 DEF NoNewLeader
  <2>2. CASE m = n
    <3>1. s = l
      BY <1>1, <1>2, <2>1, <2>2 DEF Elections
    <3> QED
      BY SMTT(30), <1>2, <1>3, <1>12, <2>2, <3>1
  <2>3. CASE m \in Calls
    <3>1. m \in msgs /\ m.type = "call"
      BY <2>3 DEF Calls
    <3>2. m.prev \in Nat /\ MEnd(m) \in Nat
      BY <3>1, CallSegFacts
    <3> QED
      BY SMTT(30), <1>12, <2>1, <2>3, <3>2 DEF CallsAreOfLeader
  <2> QED
    BY <1>10, <2>2, <2>3
<1>17. AnswersHold'
  <2> SUFFICES ASSUME NEW r \in msgs', r.type = "reply", r.success
               PROVE  /\ r.nex # 0 /\ currentTerm'[r.peer] >= r.term
                      /\ IsLeader(r.leader)' /\ currentTerm'[r.leader] = r.term
                           /\ currentTerm'[r.peer] <= r.term
                         => Held(r.leader, r.peer, r.nex - 1)'
    BY DEF AnswersHold
  <2>1. r \in msgs
    BY <1>1, <1>3
  <2>2. r.nex \in Nat /\ r.leader \in Server /\ r.peer \in Server
    BY <2>1, CallType DEF Answer
  <2>3. r.nex # 0 /\ (Held(r.leader, r.peer, r.nex - 1) =>
                        Held(r.leader, r.peer, r.nex - 1)')
    BY SMTT(30), <1>12, <2>1, <2>2 DEF Held, AnswersHold
  <2> QED
    BY <1>1, <2>1, <2>3 DEF AnswersHold, IsLeader
<1>18. MatchHolds'
  BY <1>1, <1>11, QuietMatch
<1> QED
  BY <1>13, <1>14, <1>15, <1>16, <1>17, <1>18

-----------------------------------------------------------------------------
(***************************************************************************)
(* A majority that has not reached t excludes t and all after it.          *)
(***************************************************************************)
LEMMA VoteIsAfterReached ==
  ASSUME Types, NEW Q \in SUBSET Server, IsMajority(Q), NEW t \in Nat,
         \A v \in Q : currentTerm[v] < t
  PROVE  \A u \in Reached : u < t
<1> SUFFICES ASSUME NEW u \in Reached, u >= t PROVE FALSE
  BY SMTT(30) DEF Reached
<1> DEFINE V == {s \in Server : currentTerm[s] >= u}
<1>1. u \in Nat /\ IsMajority(V) /\ V \subseteq Server
  BY DEF Reached
<1>2. V \cap Q = {}
  BY SMTT(30), <1>1 DEF Types
<1> HIDE DEF V
<1>3. IsFiniteSet(V) /\ IsFiniteSet(Q)
  BY <1>1, RaftAssumption, FS_Subset
<1>4. Cardinality(V) \in Nat /\ Cardinality(Q) \in Nat
      /\ Cardinality(Server) \in Nat
  BY <1>3, RaftAssumption, FS_CardinalityType
<1>5. Cardinality(V) + Cardinality(Q) > Cardinality(Server)
  BY SMTT(30), <1>1, <1>4 DEF IsMajority
<1> QED
  BY <1>1, <1>2, <1>5, RaftAssumption, FS_MajoritiesIntersect

(***************************************************************************)
(* An election: every term in use has been reached by a majority, so that  *)
(* the new one is after all of them.                                       *)
(***************************************************************************)
LEMMA ElectStep ==
  ASSUME IndInv, Types', NEW i \in Server, NEW Q \in SUBSET Server,
         NEW t \in Nat \ {0}, Elect(i, Q, t)
  PROVE  IndInv'
<1> USE DEF IndInv
<1>1. /\ i \in Q /\ IsMajority(Q) /\ \A v \in Q : currentTerm[v] < t
      /\ logEntries' = logEntries /\ msgs' = msgs
  BY DEF Elect
<1>2. /\ \A s \in Server : currentTerm[s] \in Nat /\ currentTerm'[s] \in Nat
      /\ \A s \in Q : currentTerm'[s] = t
      /\ \A s \in Server \ Q : currentTerm'[s] = currentTerm[s]
  BY DEF Elect, Types
<1>3. TermsGrow
  BY SMTT(30), <1>1, <1>2 DEF TermsGrow
<1>4. \A u \in Reached : u < t
  BY <1>1, VoteIsAfterReached
<1>5. t \in Reached'
  <2> DEFINE W == {s \in Server : currentTerm'[s] >= t}
  <2>1. Q \subseteq W /\ W \subseteq Server
    BY SMTT(30), <1>2
  <2> HIDE DEF W
  <2>2. IsFiniteSet(W)
    BY <2>1, RaftAssumption, FS_Subset
  <2>3. Cardinality(Q) <= Cardinality(W) /\ Cardinality(Q) \in Nat
        /\ Cardinality(W) \in Nat /\ Cardinality(Server) \in Nat
    BY <2>1, <2>2, RaftAssumption, FS_Subset, FS_CardinalityType
  <2>4. IsMajority(W)
    BY SMTT(30), <1>1, <2>3 DEF IsMajority
  <2> QED
    BY <2>4 DEF Reached, W
<1>6. \A s \in Server : IsLeader(s)' =>
        s = i \/ (s # i /\ IsLeader(s) /\ currentTerm'[s] = currentTerm[s])
  BY <1>2 DEF Elect, IsLeader, Types
<1>7. currentTerm'[i] = t
  BY <1>1, <1>2
<1>8. Reached \subseteq Reached'
  BY <1>3, ReachedGrows
<1>9. \A s \in Server, k \in Nat :
        LastIndex(s)' = LastIndex(s) /\ TermAt(s, k)' = TermAt(s, k)
  BY <1>1 DEF LastIndex, TermAt
<1>10. Segs' = Segs /\ Calls' = Calls
  BY SMTT(30), <1>1 DEF Segs, LogSeg, Calls, CallSeg, MEnd, LastIndex, TermAt
<1>11. Elections'
  <2>1. \A s \in Server : IsLeader(s)' =>
          currentTerm'[s] # 0 /\ currentTerm'[s] \in Reached'
    BY <1>5, <1>6, <1>7, <1>8 DEF Elections
  <2>2. \A s, r \in Server : IsLeader(s)' /\ IsLeader(r)'
          /\ currentTerm'[s] = currentTerm'[r] => s = r
    BY SMTT(30), <1>2, <1>4, <1>6, <1>7 DEF Elections
  <2>3. \A m \in msgs' : m.term \in Reached' /\ m.peer # m.leader
    BY <1>1, <1>8 DEF Elections
  <2>4. \A m \in msgs', s \in Server :
          IsLeader(s)' /\ currentTerm'[s] = m.term => m.leader = s
    BY SMTT(30), <1>1, <1>4, <1>6, <1>7 DEF Elections
  <2> QED
    BY <2>1, <2>2, <2>3, <2>4 DEF Elections
<1>12. SegmentsMatch'
  BY <1>10 DEF SegmentsMatch, Segment, Matches
<1>13. SegmentTerms'
  <2>1. \A f \in Segs' : \A k \in DOMAIN f : f[k] # 0 => f[k] \in Reached'
    BY <1>8, <1>10 DEF SegmentTerms
  <2>2. \A f \in Segs', s \in Server : \A k \in DOMAIN f :
          IsLeader(s)' /\ f[k] = currentTerm'[s] => k <= LastIndex(s)'
    BY SMTT(30), <1>4, <1>6, <1>7, <1>9, <1>10 DEF SegmentTerms
  <2>3. ASSUME NEW s \in Server, NEW k \in 0..LastIndex(s)'
        PROVE  TermAt(s, k)' <= currentTerm'[s]
    <3>1. k \in 0..LastIndex(s) /\ k \in Nat
      BY SMTT(30), <1>9, LogTypes
    <3>2. TermAt(s, k) \in Nat /\ TermAt(s, k) <= currentTerm[s]
      BY <3>1, LogTypes DEF SegmentTerms
    <3> QED
      BY SMTT(30), <1>2, <1>3, <1>9, <3>1, <3>2 DEF TermsGrow
  <2>4. \A m \in Calls' : CallTerms(m)
    BY <1>10 DEF SegmentTerms
  <2> QED
    BY <2>1, <2>2, <2>3, <2>4 DEF SegmentTerms, CallTerms, CallSeg, MEnd
<1>14. CallsAreOfLeader'
  <2> SUFFICES ASSUME NEW m \in Calls, NEW l \in Server,
                      IsLeader(l)', currentTerm'[l] = m.term
               PROVE  /\ MEnd(m) <= LastIndex(l)'
                      /\ \A k \in m.prev..MEnd(m) : CallSeg(m)[k] = TermAt(l, k)'
                      /\ \A k \in MEnd(m) + 1..LastIndex(l)' :
                           TermAt(l, k)' = m.term
    BY SMTT(30), <1>10 DEF CallsAreOfLeader, MEnd, CallSeg
  <2>1. m \in msgs /\ m.type = "call"
    BY DEF Calls
  <2>2. m.term \in Reached
    BY <2>1 DEF Elections
  <2>3. IsLeader(l) /\ currentTerm[l] = m.term
    BY SMTT(30), <1>4, <1>6, <1>7, <2>2
  <2>4. m.prev \in Nat /\ MEnd(m) \in Nat
    BY <2>1, CallSegFacts
  <2> QED
    BY SMTT(30), <1>9, <2>3, <2>4 DEF CallsAreOfLeader
<1>15. AnswersHold'
  <2> SUFFICES ASSUME NEW r \in msgs, r.type = "reply", r.success
               PROVE  /\ r.nex # 0 /\ currentTerm'[r.peer] >= r.term
                      /\ IsLeader(r.leader)' /\ currentTerm'[r.leader] = r.term
                           /\ currentTerm'[r.peer] <= r.term
                         => Held(r.leader, r.peer, r.nex - 1)'
    BY <1>1 DEF AnswersHold
  <2>1. /\ r.leader \in Server /\ r.peer \in Server /\ r.term \in Nat
        /\ r.nex \in Nat
    BY CallType DEF Answer
  <2>2. /\ currentTerm[r.peer] \in Nat /\ currentTerm'[r.peer] \in Nat
        /\ currentTerm[r.peer] <= currentTerm'[r.peer]
    BY <1>2, <1>3, <2>1 DEF TermsGrow
  <2>3. r.nex # 0 /\ currentTerm[r.peer] >= r.term /\ r.term \in Reached
    BY DEF AnswersHold, Elections
  <2>4. ASSUME IsLeader(r.leader)', currentTerm'[r.leader] = r.term,
               currentTerm'[r.peer] <= r.term
        PROVE  Held(r.leader, r.peer, r.nex - 1)'
    <3>1. IsLeader(r.leader) /\ currentTerm[r.leader] = r.term
      BY SMTT(30), <1>4, <1>6, <1>7, <2>1, <2>3, <2>4
    <3>2. Held(r.leader, r.peer, r.nex - 1)
      BY SMTT(30), <2>1, <2>2, <2>4, <3>1 DEF AnswersHold
    <3> QED
      BY SMTT(30), <1>9, <2>1, <2>3, <3>2 DEF Held
  <2> QED
    BY SMTT(30), <2>1, <2>2, <2>3, <2>4
<1>16. MatchHolds'
  <2> SUFFICES ASSUME NEW l \in Server, NEW p \in Server, IsLeader(l)'
               PROVE  /\ p # l /\ matchIndex'[l][p] # 0 =>
                           currentTerm'[p] >= currentTerm'[l]
                      /\ currentTerm'[p] <= currentTerm'[l] =>
                           Held(l, p, matchIndex[l][p])'
    BY DEF MatchHolds
  <2>1. CASE l = i
    <3>1. matchIndex'[i][p] = IF p = i THEN LastIndex(i) ELSE 0
      BY DEF Elect, Types
    <3>2. LastIndex(i) \in Nat /\ LastIndex(p) \in Nat
      BY LogTypes
    <3>3. Held(i, p, matchIndex[i][p])'
      BY SMTT(30), <1>9, <3>1, <3>2 DEF Held, TermAt
    <3> QED
      BY <2>1, <3>1, <3>3
  <2>2. CASE l # i
    <3>1. IsLeader(l) /\ currentTerm'[l] = currentTerm[l]
      BY <1>6, <2>2
    <3>2. matchIndex'[l][p] = matchIndex[l][p] /\ matchIndex[l][p] \in Nat
      BY SMTT(30), <2>2 DEF Elect, Types
    <3>3. /\ p # l /\ matchIndex[l][p] # 0 => currentTerm[p] >= currentTerm[l]
          /\ currentTerm[p] <= currentTerm[l] => Held(l, p, matchIndex[l][p])
      BY <3>1 DEF MatchHolds
    <3>4. Held(l, p, matchIndex[l][p]) => Held(l, p, matchIndex[l][p])'
      BY SMTT(30), <1>9, <3>2 DEF Held
    <3>5. currentTerm[p] <= currentTerm'[p]
      BY <1>3 DEF TermsGrow
    <3> QED
      BY SMTT(30), <1>2, <3>1, <3>2, <3>3, <3>4, <3>5
  <2> QED
    BY <2>1, <2>2
<1> QED
  BY <1>11, <1>12, <1>13, <1>14, <1>15, <1>16

-----------------------------------------------------------------------------
(***************************************************************************)
(* The actions that change no log.                                         *)
(***************************************************************************)
LEMMA StaleStep ==
  ASSUME IndInv, Types', NEW m \in msgs, AppendEntriesStale(m)
  PROVE  IndInv'
<1>1. /\ UNCHANGED <<currentTerm, role, logEntries, matchIndex>>
      /\ m.type = "call" /\ m.peer \in Server
  BY CallType DEF AppendEntriesStale, serverVars, leaderVars, IndInv
<1>2. TermsGrow /\ NoNewLeader
  BY SMTT(30), <1>1 DEF TermsGrow, NoNewLeader, IsLeader, IndInv, Types
<1>3. QuietMsgs
  <2> DEFINE r == Reply(m, currentTerm[m.peer], FALSE, 0)
  <2>1. /\ r.type = "reply" /\ ~r.success
        /\ r.term = m.term /\ r.leader = m.leader /\ r.peer = m.peer
    BY DEF Reply
  <2>2. msgs' \subseteq msgs \cup {r}
    BY DEF AppendEntriesStale, Answered
  <2> HIDE DEF r
  <2> QED
    BY <2>1, <2>2 DEF QuietMsgs, SameCall
<1> QED
  BY <1>1, <1>2, <1>3, QuietStep, QuietMatch DEF IndInv

(***************************************************************************)
(* An answer of a later term.                                              *)
(***************************************************************************)
LEMMA LaterTermStep ==
  ASSUME IndInv, Types', NEW m \in msgs, HandleLaterTerm(m)
  PROVE  IndInv'
<1>1. /\ m.type = "reply" /\ m.leader \in Server /\ m.rterm \in Nat
      /\ m.rterm > currentTerm[m.leader]
      /\ logEntries' = logEntries /\ matchIndex' = matchIndex
      /\ msgs' \subseteq msgs
  BY CallType DEF HandleLaterTerm, leaderVars, IndInv, Answer
<1>2. TermsGrow /\ NoNewLeader
  <2>1. /\ currentTerm' = [currentTerm EXCEPT ![m.leader] = m.rterm]
        /\ role' = [role EXCEPT ![m.leader] = "Follower"]
        /\ currentTerm \in [Server -> Nat] /\ role \in [Server -> {"Follower", "Leader"}]
    BY DEF HandleLaterTerm, IndInv, Types
  <2>2. \A s \in Server : s # m.leader =>
          role'[s] = role[s] /\ currentTerm'[s] = currentTerm[s]
    BY <2>1
  <2>3. role'[m.leader] = "Follower" /\ currentTerm'[m.leader] = m.rterm
    BY <1>1, <2>1
  <2>4. currentTerm[m.leader] <= m.rterm /\ \A s \in Server : currentTerm[s] \in Nat
    BY SMTT(30), <1>1, <2>1
  <2>5. TermsGrow
    BY SMTT(30), <2>2, <2>3, <2>4 DEF TermsGrow
  <2>6. NoNewLeader
    BY <2>2, <2>3 DEF NoNewLeader, IsLeader
  <2> QED
    BY <2>5, <2>6
<1>3. QuietMsgs
  BY <1>1 DEF QuietMsgs, SameCall
<1> QED
  BY <1>1, <1>2, <1>3, QuietStep, QuietMatch DEF IndInv

(***************************************************************************)
(* A crash and restart.                                                    *)
(***************************************************************************)
LEMMA RestartStep ==
  ASSUME IndInv, Types', NEW i \in Server, Restart(i)
  PROVE  IndInv'
<1>1. /\ UNCHANGED <<currentTerm, logEntries, matchIndex>>
      /\ role' = [role EXCEPT ![i] = "Follower"]
  BY DEF Restart, Remembers, leaderVars
<1>2. TermsGrow /\ NoNewLeader
  BY SMTT(30), <1>1 DEF TermsGrow, NoNewLeader, IsLeader, IndInv, Types
<1>3. QuietMsgs
  <2>1. ASSUME NEW n \in msgs, n.type = "call"
        PROVE  /\ SameCall([n EXCEPT !.orphan = @ \/ n.leader = i], n)
               /\ [n EXCEPT !.orphan = @ \/ n.leader = i].type = "call"
    <3>1. n \in Call
      BY <2>1, CallType DEF IndInv
    <3> QED
      BY <3>1 DEF SameCall, Call
  <2>2. ASSUME NEW m \in msgs'
        PROVE  \/ m \in msgs /\ m.type = "reply"
               \/ m.type = "call" /\ \E n \in msgs : SameCall(m, n)
    BY <2>1 DEF Restart
  <2> QED
    BY <2>2 DEF QuietMsgs
<1> QED
  BY <1>1, <1>2, <1>3, QuietStep, QuietMatch DEF IndInv

(***************************************************************************)
(* Any other answer.                                                       *)
(***************************************************************************)
LEMMA HandleReplyStep ==
  ASSUME IndInv, Types', NEW m \in msgs, HandleReply(m)
  PROVE  IndInv'
<1> DEFINE l == m.leader
           p == m.peer
<1>1. /\ m.type = "reply" /\ l \in Server /\ p \in Server /\ m \in Answer
      /\ m.nex \in Nat /\ m.term \in Nat
      /\ UNCHANGED <<currentTerm, role, logEntries>> /\ msgs' \subseteq msgs
  BY CallType DEF HandleReply, serverVars, IndInv, Answer
<1>2. TermsGrow /\ NoNewLeader
  BY SMTT(30), <1>1 DEF TermsGrow, NoNewLeader, IsLeader, IndInv, Types
<1>3. QuietMsgs
  BY <1>1 DEF QuietMsgs, SameCall
<1>4. MatchHolds'
  <2>1. CASE matchIndex' = matchIndex
    BY <1>1, <1>2, <2>1, QuietMatch
  <2>2. CASE matchIndex' # matchIndex
    <3>0. matchIndex \in [Server -> [Server -> Nat]]
      BY DEF IndInv, Types
    <3>1. /\ IsLeader(l) /\ currentTerm[l] = m.term /\ m.success
          /\ matchIndex' = [matchIndex EXCEPT ![l] =
                              [matchIndex[l] EXCEPT ![p] = m.nex - 1]]
      <4>1. IsCurrent(l, m)
        BY <2>2 DEF HandleReply, leaderVars
      <4>2. matchIndex' = [matchIndex EXCEPT ![l] =
              IF m.success /\ nextIndex[l][p] < m.nex
              THEN [matchIndex[l] EXCEPT ![p] = m.nex - 1] ELSE matchIndex[l]]
        BY <4>1 DEF HandleReply
      <4>3. m.success /\ nextIndex[l][p] < m.nex
        BY <2>2, <4>2 DEF IndInv, Types
      <4> QED
        BY <4>1, <4>2, <4>3 DEF IsCurrent, IsLeader
    <3>2. /\ m.nex # 0 /\ currentTerm[p] >= m.term
          /\ currentTerm[p] <= m.term => Held(l, p, m.nex - 1)
      BY <1>1, <3>1 DEF IndInv, AnswersHold
    <3>3. ASSUME NEW u \in Server, NEW q \in Server, IsLeader(u)
          PROVE  /\ q # u /\ matchIndex'[u][q] # 0 =>
                      currentTerm[q] >= currentTerm[u]
                 /\ currentTerm[q] <= currentTerm[u] =>
                      Held(u, q, matchIndex'[u][q])
      <4>1. CASE u = l /\ q = p
        <5>1. matchIndex'[u][q] = m.nex - 1
          <6>1. matchIndex'[l] = [matchIndex[l] EXCEPT ![p] = m.nex - 1]
            BY <1>1, <3>0, <3>1
          <6> QED
            BY SMTT(30), <1>1, <3>0, <4>1, <6>1
        <5> QED
          BY <3>1, <3>2, <4>1, <5>1
      <4>2. CASE ~(u = l /\ q = p)
        <5>1. CASE u # l
          <6>1. matchIndex'[u] = matchIndex[u]
            BY <1>1, <3>0, <3>1, <5>1
          <6> QED
            BY <3>3, <6>1 DEF IndInv, MatchHolds
        <5>2. CASE u = l /\ q # p
          <6>1. matchIndex'[l] = [matchIndex[l] EXCEPT ![p] = m.nex - 1]
            BY <1>1, <3>0, <3>1
          <6>2. matchIndex'[u][q] = matchIndex[u][q]
            BY <1>1, <3>0, <5>2, <6>1
          <6> QED
            BY <3>3, <6>2 DEF IndInv, MatchHolds
        <5> QED
          BY <4>2, <5>1, <5>2
      <4> QED
        BY <4>1, <4>2
    <3>4. \A u, q \in Server : matchIndex'[u][q] \in Nat
      BY DEF Types
    <3>5. ASSUME NEW u \in Server, NEW q \in Server, IsLeader(u)'
          PROVE  /\ q # u /\ matchIndex'[u][q] # 0 =>
                      currentTerm'[q] >= currentTerm'[u]
                 /\ currentTerm'[q] <= currentTerm'[u] =>
                      Held(u, q, matchIndex[u][q])'
      <4>1. IsLeader(u)
        BY <1>2, <3>5 DEF NoNewLeader
      <4>2. currentTerm[q] <= currentTerm[u] =>
              Held(u, q, matchIndex'[u][q])
        BY <3>3, <4>1
      <4>3. Held(u, q, matchIndex'[u][q]) => Held(u, q, matchIndex[u][q])'
        BY <1>1, <3>4 DEF Held, LastIndex, TermAt
      <4> QED
        BY <1>1, <3>3, <4>1, <4>2, <4>3
    <3> QED
      BY <3>5 DEF MatchHolds
  <2> QED
    BY <2>1, <2>2
<1> QED
  BY <1>1, <1>2, <1>3, <1>4, QuietStep DEF IndInv

-----------------------------------------------------------------------------
(***************************************************************************)
(* A bounded set of naturals that is not empty has a greatest element.     *)
(***************************************************************************)
LEMMA MaxProperties ==
  ASSUME NEW b \in Nat, NEW S \in SUBSET (0..b), S # {}
  PROVE  Max(S) \in S /\ \A y \in S : Max(S) >= y
<1> DEFINE Above(j) == {k \in S : k > j}
           T == {Above(j) : j \in S}
<1>0. S \subseteq Nat
  BY SMTT(30)
<1>1. IsFiniteSet(S)
  <2>1. IsFiniteSet(0..b)
    BY SMTT(30), FS_Interval
  <2> QED
    BY <2>1, FS_Subset
<1>2. T \subseteq FiniteSubsetsOf(S)
  BY <1>1, FS_Subset DEF FiniteSubsetsOf
<1>3. PICK x \in T : \A y \in T : ~ (<<y, x>> \in StrictSubsetOrdering(S))
  <2>1. T # {}
    OBVIOUS
  <2>2. IsWellFoundedOn(StrictSubsetOrdering(S), FiniteSubsetsOf(S))
    BY FS_StrictSubsetOrderingWellFounded
  <2> HIDE DEF T
  <2> QED
    BY <1>2, <2>1, <2>2, WFMin
<1>4. PICK j \in S : x = Above(j)
  BY <1>3
<1>5. ASSUME NEW y \in S, y > j PROVE FALSE
  <2>0. y \in Nat /\ j \in Nat
    BY <1>0
  <2>1. y \in Above(j) /\ y \notin Above(y)
    BY SMTT(30), <1>5, <2>0
  <2>2. \A k \in Above(y) : k \in Above(j)
    BY SMTT(30), <1>0, <1>5, <2>0
  <2>3. <<Above(y), Above(j)>> \in StrictSubsetOrdering(S)
    BY <2>1, <2>2 DEF StrictSubsetOrdering
  <2> QED
    BY <1>3, <1>4, <2>3
<1>6. \A y \in S : j >= y
  BY SMTT(30), <1>0, <1>5
<1> QED
  BY <1>6 DEF Max

(***************************************************************************)
(* The index that AppendEntries answers with.                              *)
(***************************************************************************)
LEMMA NexIndexType ==
  ASSUME Types, NEW m \in Call
  PROVE  NexIndex(m.peer, m) \in Nat
<1> DEFINE f == m.peer
           S == {k \in 0..m.prev : \/ k <= commitIndex[f]
                                   \/ TermAt(f, k) # TermAt(f, m.prev)}
<1>1. f \in Server /\ m.prev \in Nat /\ Len(m.entries) \in Nat
  BY SMTT(30) DEF Call
<1>2. LastIndex(f) \in Nat
  BY <1>1, LogTypes
<1>3. 0 \in S
  BY SMTT(30), <1>1 DEF Types
<1>4. Max(S) \in S
  <2>1. S \in SUBSET (0..m.prev) /\ S # {}
    BY <1>3
  <2> HIDE DEF S
  <2> QED
    BY <1>1, <2>1, MaxProperties
<1>5. 1 + Max(S) \in Nat
  <2>1. Max(S) \in 0..m.prev
    BY <1>4
  <2> HIDE DEF S
  <2> QED
    BY SMTT(30), <1>1, <2>1
<1> QED
  BY SMTT(30), <1>1, <1>2, <1>5 DEF NexIndex

(***************************************************************************)
(* An answer is well typed.                                                *)
(***************************************************************************)
LEMMA ReplyType ==
  ASSUME NEW m \in Call, NEW rterm \in Nat, NEW success \in BOOLEAN,
         NEW nex \in Nat
  PROVE  Reply(m, rterm, success, nex) \in Answer
<1>1. m.entries # <<>> => m.entries[Len(m.entries)] \in Nat
  BY SMTT(30) DEF Call
<1> QED
  BY <1>1 DEF Reply, Call, Answer

(***************************************************************************)
(* The loop of updateCommitIndex ends at an index.                         *)
(***************************************************************************)
LEMMA UpdateCommitIndexType ==
  ASSUME Types, NEW l \in Server, NEW match
  PROVE  UpdateCommitIndex(l, match) \in Nat
<1> DEFINE c0 == commitIndex[l]
           S == {c0} \cup
                {c \in c0 + 1..LastIndex(l) + 1 :
                   \A k \in c0 + 1..c :
                     IsMajority({p \in Server : match[p] >= k})}
           b == c0 + LastIndex(l) + 1
<1>1. c0 \in Nat /\ LastIndex(l) \in Nat
  BY LogTypes DEF Types
<1>2. S \in SUBSET (0..b) /\ S # {} /\ b \in Nat
  BY SMTT(30), <1>1
<1>3. Max(S) \in S
  <2> HIDE DEF S, b
  <2> QED
    BY <1>2, MaxProperties
<1>4. Max(S) \in Nat
  BY SMTT(30), <1>2, <1>3
<1> QED
  BY <1>4 DEF UpdateCommitIndex

(***************************************************************************)
(* An answer does not change what else is under way.                       *)
(***************************************************************************)
LEMMA AnsweredTypes ==
  ASSUME msgs \subseteq Call \cup Answer, NEW m, NEW r \in Answer,
         Answered(m, r)
  PROVE  msgs' \subseteq Call \cup Answer
BY DEF Answered

(***************************************************************************)
(* Every step keeps the types.                                             *)
(***************************************************************************)
LEMMA TypesStep ==
  ASSUME Types, [RaftNext]_raftVars
  PROVE  Types'
<1> USE DEF serverVars, commitVars, leaderVars, raftVars
<1>1. ASSUME NEW s \in Server, NEW p \in Server, SendAppendEntries(s, p)
      PROVE  Types'
  <2>1. MakeArgs(s, p) \in Call
    BY MakeArgsFacts
  <2> QED
    BY <1>1, <2>1 DEF SendAppendEntries, Types
<1>2. ASSUME NEW m \in msgs, AppendEntriesStale(m)
      PROVE  Types'
  <2>1. m \in Call /\ m.peer \in Server
    BY <1>2, CallType DEF AppendEntriesStale
  <2>2. currentTerm[m.peer] \in Nat
    BY <2>1 DEF Types
  <2>3. Reply(m, currentTerm[m.peer], FALSE, 0) \in Answer
    BY <2>1, <2>2, ReplyType
  <2>4. msgs' \subseteq Call \cup Answer
    BY <1>2, <2>3, AnsweredTypes DEF Types, AppendEntriesStale
  <2> QED
    BY <1>2, <2>4 DEF AppendEntriesStale, Types
<1>3. ASSUME NEW m \in msgs, AppendEntries(m)
      PROVE  Types'
  <2> DEFINE f == m.peer
             ok == Accepts(f, m)
  <2>1. m \in Call /\ f \in Server /\ m.term \in Nat /\ m.commit \in Nat
    BY <1>3, CallType DEF AppendEntries, Call
  <2>2. ok \in BOOLEAN
    BY DEF Accepts, PrevMatches
  <2>3. Reply(m, currentTerm[f], ok, NexIndex(f, m)) \in Answer
    <3>1. currentTerm[f] \in Nat
      BY <2>1 DEF Types
    <3> QED
      BY <2>1, <2>2, <3>1, NexIndexType, ReplyType
  <2>4. msgs' \subseteq Call \cup Answer
    BY <1>3, <2>3, AnsweredTypes DEF Types, AppendEntries
  <2>5. logEntries' \in [Server -> Seq(Nat)]
    BY <1>3, AppendEntriesLogs
  <2>6. commitIndex' \in [Server -> Nat]
    BY <1>3, <2>1 DEF AppendEntries, Commit, Types
  <2> QED
    BY <1>3, <2>1, <2>4, <2>5, <2>6 DEF AppendEntries, Types
<1>4. ASSUME NEW m \in msgs, HandleReply(m)
      PROVE  Types'
  <2> DEFINE l == m.leader
             p == m.peer
             newer == m.success /\ nextIndex[l][p] < m.nex
             match == IF newer THEN [matchIndex[l] EXCEPT ![p] = m.nex - 1]
                               ELSE matchIndex[l]
             next == IF newer \/ GivesIndex(m)
                     THEN [nextIndex[l] EXCEPT ![p] = m.nex] ELSE nextIndex[l]
  <2>1. m \in Answer /\ l \in Server /\ p \in Server /\ m.nex \in Nat
    BY <1>4, CallType DEF HandleReply, Answer
  <2>2. msgs' \subseteq Call \cup Answer
    BY <1>4 DEF HandleReply, Types
  <2>3. nextIndex[l][p] \in Nat \ {0} /\ nextIndex[l] \in [Server -> Nat \ {0}]
        /\ matchIndex[l] \in [Server -> Nat] /\ commitIndex[l] \in Nat
    BY <2>1 DEF Types
  <2>4. match \in [Server -> Nat] /\ next \in [Server -> Nat \ {0}]
    BY SMTT(30), <2>1, <2>3 DEF GivesIndex
  <2>5. UpdateCommitIndex(l, match) \in Nat
    BY <2>1, UpdateCommitIndexType
  <2>6. CASE IsCurrent(l, m)
    <3>1. /\ nextIndex' = [nextIndex EXCEPT ![l] = next]
          /\ matchIndex' = [matchIndex EXCEPT ![l] = match]
          /\ commitIndex' = [commitIndex EXCEPT ![l] =
               IF m.success /\ m.last = currentTerm[l]
               THEN UpdateCommitIndex(l, match) ELSE commitIndex[l]]
          /\ UNCHANGED serverVars
      BY <1>4, <2>6 DEF HandleReply, Commit
    <3> HIDE DEF match, next
    <3> QED
      BY <2>1, <2>2, <2>3, <2>4, <2>5, <3>1 DEF Types
  <2>7. CASE ~IsCurrent(l, m)
    BY <1>4, <2>2, <2>7 DEF HandleReply, Types
  <2> QED
    BY <2>6, <2>7
<1>5. ASSUME NEW m \in msgs, HandleLaterTerm(m)
      PROVE  Types'
  <2>1. m.rterm \in Nat /\ m.leader \in Server
    BY <1>5, CallType DEF HandleLaterTerm, Answer
  <2> QED
    BY <1>5, <2>1 DEF HandleLaterTerm, Types
<1>6. ASSUME NEW i \in Candidates, NEW Q \in SUBSET Server,
             NEW t \in 1..MaxTerm, Elect(i, Q, t)
      PROVE  Types'
  <2>1. i \in Server /\ t \in Nat /\ LastIndex(i) \in Nat
    BY SMTT(30), RaftAssumption, LogTypes
  <2>2. /\ nextIndex' \in [Server -> [Server -> Nat \ {0}]]
        /\ matchIndex' \in [Server -> [Server -> Nat]]
    BY SMTT(30), <1>6, <2>1 DEF Elect, Types
  <2>3. /\ currentTerm' \in [Server -> Nat]
        /\ role' \in [Server -> {"Follower", "Leader"}]
    BY <1>6, <2>1 DEF Elect, Types
  <2> QED
    BY <1>6, <2>2, <2>3 DEF Elect, Types
<1>7. ASSUME NEW s \in Server, Start(s)
      PROVE  Types'
  <2>1. LastIndex(s) + 1 \in Nat /\ currentTerm[s] \in Nat
    BY SMTT(30), LogTypes DEF Types
  <2>2. logEntries' \in [Server -> Seq(Nat)]
    BY SMTT(30), <1>7, <2>1 DEF Start, Types
  <2>3. matchIndex' \in [Server -> [Server -> Nat]]
    BY <1>7, <2>1 DEF Start, Types
  <2> QED
    BY <1>7, <2>2, <2>3 DEF Start, Types
<1>8. ASSUME NEW s \in Server, Restart(s)
      PROVE  Types'
  <2>1. ASSUME NEW m \in msgs, m.type = "call"
        PROVE  [m EXCEPT !.orphan = @ \/ m.leader = s] \in Call
    <3>1. m \in Call
      BY <2>1, CallType
    <3> QED
      BY <3>1 DEF Call
  <2>2. msgs' \subseteq Call \cup Answer
    BY <1>8, <2>1 DEF Restart, Types
  <2> QED
    BY <1>8, <2>2 DEF Restart, Remembers, Types
<1>9. CASE UNCHANGED raftVars
  BY <1>9 DEF Types
<1> QED
  BY <1>1, <1>2, <1>3, <1>4, <1>5, <1>6, <1>7, <1>8, <1>9 DEF RaftNext

-----------------------------------------------------------------------------
(***************************************************************************)
(* The invariant holds at first.                                           *)
(***************************************************************************)
LEMMA InitIndInv == RaftInit => IndInv
<1> SUFFICES ASSUME RaftInit PROVE IndInv
  OBVIOUS
<1>1. Types
  BY SMTT(30) DEF RaftInit, Types
<1>2. /\ \A s \in Server : /\ LastIndex(s) = 0 /\ TermAt(s, 0) = 0
                           /\ ~IsLeader(s) /\ currentTerm[s] = 0
      /\ msgs = {} /\ Calls = {}
  BY DEF RaftInit, LastIndex, TermAt, IsLeader, Calls
<1>3. \A s \in Server : /\ DOMAIN LogSeg(s) = {0} /\ LogSeg(s)[0] = 0
  BY SMTT(30), <1>2 DEF LogSeg
<1>4. \A f \in Segs : DOMAIN f = {0} /\ f[0] = 0
  BY <1>2, <1>3 DEF Segs
<1>5. SegmentsMatch
  <2>1. \A f \in Segs : Segment(f)
    <3>1. 0..0 = {0}
      BY SMTT(30)
    <3> QED
      BY SMTT(30), <1>4, <3>1 DEF Segment
  <2>2. \A f, g \in Segs : Matches(f, g)
    BY SMTT(30), <1>4 DEF Matches
  <2> QED
    BY <2>1, <2>2 DEF SegmentsMatch
<1>6. SegmentTerms
  BY SMTT(30), <1>2, <1>4 DEF SegmentTerms
<1>7. Elections /\ CallsAreOfLeader /\ AnswersHold /\ MatchHolds
  BY <1>2 DEF Elections, CallsAreOfLeader, AnswersHold, MatchHolds
<1> QED
  BY <1>1, <1>5, <1>6, <1>7 DEF IndInv

(***************************************************************************)
(* Every step keeps the invariant.                                         *)
(***************************************************************************)
LEMMA IndInvStep == IndInv /\ [RaftNext]_raftVars => IndInv'
<1> SUFFICES ASSUME IndInv, [RaftNext]_raftVars PROVE IndInv'
  OBVIOUS
<1>0. Types'
  BY TypesStep DEF IndInv
<1>1. ASSUME NEW s \in Server, NEW p \in Server, SendAppendEntries(s, p)
      PROVE  IndInv'
  BY <1>0, <1>1, SendStep
<1>2. ASSUME NEW m \in msgs,
             \/ AppendEntriesStale(m) \/ AppendEntries(m)
             \/ HandleReply(m) \/ HandleLaterTerm(m)
      PROVE  IndInv'
  BY <1>0, <1>2, StaleStep, AppendEntriesStep, HandleReplyStep, LaterTermStep
<1>3. ASSUME NEW i \in Candidates, NEW Q \in SUBSET Server,
             NEW t \in 1..MaxTerm, Elect(i, Q, t)
      PROVE  IndInv'
  <2>1. i \in Server /\ t \in Nat \ {0}
    BY SMTT(30), RaftAssumption
  <2> QED
    BY <1>0, <1>3, <2>1, ElectStep
<1>4. ASSUME NEW s \in Server, Start(s) \/ Restart(s)
      PROVE  IndInv'
  BY <1>0, <1>4, StartStep, RestartStep
<1>5. CASE UNCHANGED raftVars
  <2>1. UNCHANGED <<currentTerm, role, logEntries, matchIndex, msgs>>
    BY <1>5 DEF raftVars, serverVars, leaderVars
  <2>2. TermsGrow /\ NoNewLeader
    BY SMTT(30), <2>1 DEF TermsGrow, NoNewLeader, IsLeader, IndInv, Types
  <2>3. QuietMsgs
    BY <2>1 DEF QuietMsgs, SameCall
  <2> QED
    BY <1>0, <2>1, <2>2, <2>3, QuietStep, QuietMatch DEF IndInv
<1> QED
  BY <1>1, <1>2, <1>3, <1>4, <1>5 DEF RaftNext

(***************************************************************************)
(* LogsMatch, of the segments of two logs.                                 *)
(***************************************************************************)
LEMMA IndInvLogsMatch == IndInv => LogsMatch
<1> SUFFICES ASSUME IndInv, NEW i \in Server, NEW j \in Server,
                    NEW k \in 1..LastIndex(i), k <= LastIndex(j),
                    logEntries[i][k] = logEntries[j][k]
             PROVE  SubSeq(logEntries[i], 1, k) = SubSeq(logEntries[j], 1, k)
  BY DEF LogsMatch
<1> USE DEF IndInv
<1>1. /\ logEntries[i] \in Seq(Nat) /\ LastIndex(i) = Len(logEntries[i])
      /\ logEntries[j] \in Seq(Nat) /\ LastIndex(j) = Len(logEntries[j])
      /\ LastIndex(i) \in Nat /\ LastIndex(j) \in Nat
  <2>1. LastIndex(i) \in Nat /\ LastIndex(j) \in Nat
    BY LogTypes
  <2> QED
    BY <2>1 DEF Types, LastIndex
<1>2. Matches(LogSeg(i), LogSeg(j))
  BY LogSegFacts DEF SegmentsMatch
<1>3. /\ DOMAIN LogSeg(i) = 0..LastIndex(i) /\ DOMAIN LogSeg(j) = 0..LastIndex(j)
      /\ \A n \in 0..LastIndex(i) : LogSeg(i)[n] = TermAt(i, n)
      /\ \A n \in 0..LastIndex(j) : LogSeg(j)[n] = TermAt(j, n)
  BY LogSegFacts
<1>4. LogSeg(i)[k] = LogSeg(j)[k] /\ k \in 0..LastIndex(i) /\ k \in 0..LastIndex(j)
  BY SMTT(30), <1>1, <1>3 DEF TermAt
<1>5. ASSUME NEW n \in 1..k PROVE logEntries[i][n] = logEntries[j][n]
  <2>1. n \in 0..LastIndex(i) /\ n \in 0..LastIndex(j) /\ n <= k /\ n # 0
    BY SMTT(30), <1>1
  <2>2. LogSeg(i)[n] = LogSeg(j)[n]
    BY <1>2, <1>3, <1>4, <2>1 DEF Matches
  <2> QED
    BY <1>3, <2>1, <2>2 DEF TermAt
<1> QED
  BY SMTT(30), <1>1, <1>5, SamePrefix

(***************************************************************************)
(* MatchIsHeld, of MatchHolds.                                             *)
(***************************************************************************)
LEMMA IndInvMatchIsHeld == IndInv => MatchIsHeld
<1> SUFFICES ASSUME IndInv, NEW l \in Server, NEW p \in Server,
                    role[l] = "Leader", currentTerm[p] <= currentTerm[l]
             PROVE  /\ matchIndex[l][p] <= LastIndex(p)
                    /\ SubSeq(logEntries[l], 1, matchIndex[l][p]) =
                         SubSeq(logEntries[p], 1, matchIndex[l][p])
  BY DEF MatchIsHeld
<1> DEFINE k == matchIndex[l][p]
<1>1. Held(l, p, k)
  BY DEF IndInv, MatchHolds, IsLeader
<1>2. /\ logEntries[l] \in Seq(Nat) /\ LastIndex(l) = Len(logEntries[l])
      /\ logEntries[p] \in Seq(Nat) /\ LastIndex(p) = Len(logEntries[p])
      /\ k \in Nat
  BY DEF IndInv, Types, LastIndex
<1>3. \A n \in 1..k : logEntries[l][n] = logEntries[p][n]
  BY SMTT(30), <1>1, <1>2 DEF Held, TermAt
<1>4. k <= Len(logEntries[l]) /\ k <= Len(logEntries[p])
  BY <1>1, <1>2 DEF Held
<1> HIDE DEF k
<1>5. SubSeq(logEntries[l], 1, k) = SubSeq(logEntries[p], 1, k)
  BY <1>2, <1>3, <1>4, SamePrefix
<1> QED
  BY <1>2, <1>4, <1>5 DEF k

(***************************************************************************)
(* The logs of the servers match.  No call that is late, no crash and no   *)
(* election makes AppendEntries write an entry after another one than the  *)
(* leader of its term had before it.                                       *)
(***************************************************************************)
THEOREM LogsAlwaysMatch == RaftSpec => []LogsMatch
<1>1. RaftSpec => []IndInv
  BY InitIndInv, IndInvStep, PTL DEF RaftSpec
<1> QED
  BY <1>1, IndInvLogsMatch, PTL

(***************************************************************************)
(* What the leader's matchIndex says of a follower that is in no later     *)
(* term is so: isArgsEntriesOutOfOrder turns away every late call that     *)
(* would cut an entry updateCommitIndex may have counted.                  *)
(***************************************************************************)
THEOREM MatchIsAlwaysHeld == RaftSpec => []MatchIsHeld
<1>1. RaftSpec => []IndInv
  BY InitIndInv, IndInvStep, PTL DEF RaftSpec
<1> QED
  BY <1>1, IndInvMatchIsHeld, PTL

=============================================================================
