-------------------------- MODULE RaftReplication ---------------------------
(***************************************************************************)
(* Log replication of lab 3 (lab3/raft/my_util.go), between servers that   *)
(* crash and restart, over a network that loses and reorders calls (what   *)
(* LabRpc gives), and the harness that is told what is applied             *)
(* (checkLogs of lab3/raft/config.go).                                     *)
(*                                                                         *)
(* raft.go can not be read: in the repository it holds an archive's bytes. *)
(* What my_util.go needs of it is external, as in the Raft paper:          *)
(* elections, in one step;                                                 *)
(* Start; the applier, taken to be immediate; persistence of the term and  *)
(* the log, which every handler saves before it answers.                   *)
(*                                                                         *)
(* An entry is the term it was started in: with one leader per term, that  *)
(* and its index tell its command.  Index 0 of the code's log is a dummy   *)
(* of term 0 and left out.                                                 *)
(***************************************************************************)
EXTENDS Naturals, Sequences, FiniteSets, FiniteSetsExt

CONSTANTS
  Server,      \* the peers
  Candidates,  \* those that stand for election
  MaxTerm,     \* bound on terms and crashes together
  MaxLog,      \* bound on a leader's log
  MaxStarts,   \* bound on the commands started in a term
  MaxMsgs,     \* bound on calls and answers under way
  MaxCrashes   \* bound on crashes

ASSUME RaftAssumption ==
  /\ Candidates \subseteq Server /\ IsFiniteSet(Server)
  /\ {MaxTerm, MaxLog, MaxStarts, MaxMsgs, MaxCrashes} \subseteq Nat

VARIABLES
  currentTerm, role, logEntries,   \* of every server
  commitIndex,
  nextIndex, matchIndex,           \* of a leader, for every peer
  msgs,        \* AppendEntries calls under way, and answers to them
  logs,        \* config.logs: what a server has applied
  crashes

serverVars == <<currentTerm, role, logEntries>>
leaderVars == <<nextIndex, matchIndex>>
commitVars == <<commitIndex, logs>>
raftVars == <<serverVars, commitVars, leaderVars, msgs, crashes>>

LastIndex(s) == Len(logEntries[s])
TermAt(s, k) == IF k = 0 THEN 0 ELSE logEntries[s][k]
IsMajority(Q) == 2 * Cardinality(Q) > Cardinality(Server)

-----------------------------------------------------------------------------
(***************************************************************************)
(* makeAppendEntriesArgs: all that the leader has from nextIndex on.       *)
(***************************************************************************)
MakeArgs(l, p) ==
  LET prev == IF nextIndex[l][p] > LastIndex(l) THEN LastIndex(l)
                                                ELSE nextIndex[l][p] - 1
  IN [type |-> "call", leader |-> l, peer |-> p, term |-> currentTerm[l],
      prev |-> prev, prevTerm |-> TermAt(l, prev),
      entries |-> SubSeq(logEntries[l], prev + 1, LastIndex(l)),
      commit |-> commitIndex[l], orphan |-> FALSE]

SendAppendEntries(l, p) ==
  /\ role[l] = "Leader" /\ p # l
  /\ MakeArgs(l, p) \notin msgs
  /\ Cardinality(msgs) < MaxMsgs
  /\ msgs' = msgs \cup {MakeArgs(l, p)}
  /\ UNCHANGED <<serverVars, commitVars, leaderVars, crashes>>

-----------------------------------------------------------------------------
(***************************************************************************)
(* What the handler AppendEntries finds, and what it answers.              *)
(***************************************************************************)
NeverOutOfOrder(f, m) == FALSE   \* mutant: every call is the latest

IsArgsEntriesOutOfOrder(f, m) ==
  /\ m.prev + Len(m.entries) < LastIndex(f)
  /\ TermAt(f, LastIndex(f)) = m.term

LengthOnly(f, m) ==              \* mutant: the previous term is not asked
  m.prev <= LastIndex(f)

PrevMatches(f, m) ==
  m.prev <= LastIndex(f) /\ (m.prev = 0 \/ TermAt(f, m.prev) = m.prevTerm)

Accepts(f, m) == PrevMatches(f, m) /\ ~IsArgsEntriesOutOfOrder(f, m)

(***************************************************************************)
(* The index the leader is to go on with: after what was appended; after   *)
(* the log's end; before the conflicting term; 0 for a call out of order.  *)
(***************************************************************************)
NexIndex(f, m) ==
  CASE Accepts(f, m)         -> m.prev + Len(m.entries) + 1
    [] m.prev > LastIndex(f) -> LastIndex(f) + 1
    [] PrevMatches(f, m) /\ IsArgsEntriesOutOfOrder(f, m) -> 0
    [] OTHER -> 1 + Max({k \in 0..m.prev : \/ k <= commitIndex[f]
                                           \/ TermAt(f, k) # TermAt(f, m.prev)})

Reply(m, rterm, success, nex) ==
  [type |-> "reply", leader |-> m.leader, peer |-> m.peer, term |-> m.term,
   last |-> IF m.entries = <<>> THEN 0 ELSE m.entries[Len(m.entries)],
   rterm |-> rterm, success |-> success, nex |-> nex]

(***************************************************************************)
(* The answer is under way, or is lost (or comes after RPCTimeout), or     *)
(* nobody waits for it.  A call that is lost is as if it were not made.    *)
(***************************************************************************)
Answered(m, r) ==
  \/ msgs' = msgs \ {m}
  \/ ~m.orphan /\ msgs' = (msgs \ {m}) \cup {r}

(***************************************************************************)
(* commitIndex is set, and the applier is told: the entries up to it go to *)
(* the harness, which writes them down (it forgets nothing in a restart).  *)
(***************************************************************************)
Commit(s, c) ==
  /\ commitIndex' = [commitIndex EXCEPT ![s] = c]
  /\ logs' = [logs EXCEPT ![s] = IF c = commitIndex[s] THEN @
                ELSE SubSeq(logEntries'[s], 1, c) \o SubSeq(@, c + 1, Len(@))]

AppendEntriesStale(m) ==
  LET f == m.peer
  IN /\ m \in msgs /\ m.type = "call"
     /\ m.term < currentTerm[f]
     /\ Answered(m, Reply(m, currentTerm[f], FALSE, 0))
     /\ UNCHANGED <<serverVars, commitVars, leaderVars, crashes>>

AppendEntries(m) ==
  LET f == m.peer
      ok == Accepts(f, m)
  IN /\ m \in msgs /\ m.type = "call"
     /\ m.term >= currentTerm[f]
     /\ currentTerm' = [currentTerm EXCEPT ![f] = m.term]
     /\ role' = [role EXCEPT ![f] = "Follower"]
     /\ logEntries' = [logEntries EXCEPT
          ![f] = IF ok THEN SubSeq(@, 1, m.prev) \o m.entries ELSE @]
     /\ Commit(f, IF ok /\ m.commit > commitIndex[f] THEN m.commit
                                                    ELSE commitIndex[f])
     /\ Answered(m, Reply(m, currentTerm[f], ok, NexIndex(f, m)))
     /\ UNCHANGED <<leaderVars, crashes>>

-----------------------------------------------------------------------------
(***************************************************************************)
(* updateCommitIndex, with the leader's new match: on from commitIndex as  *)
(* long as a majority has the entry (the loop looks one past the log).     *)
(***************************************************************************)
UpdateCommitIndex(l, match) ==
  Max({commitIndex[l]} \cup
      {c \in commitIndex[l] + 1..LastIndex(l) + 1 :
         \A k \in commitIndex[l] + 1..c :
           IsMajority({p \in Server : match[p] >= k})})

(***************************************************************************)
(* The second half of sendAppendEntries: a later term ends the leadership, *)
(* an answer to an earlier leadership is ignored, success may raise        *)
(* nextIndex and commit, failure sets nextIndex for the next try.          *)
(***************************************************************************)
GivesIndex(m) == ~m.success /\ m.nex # 0

IsCurrent(l, m) == role[l] = "Leader" /\ currentTerm[l] = m.term

HandleReply(m) ==
  LET l == m.leader
      p == m.peer
      newer == m.success /\ nextIndex[l][p] < m.nex
      match == IF newer THEN [matchIndex[l] EXCEPT ![p] = m.nex - 1]
                        ELSE matchIndex[l]
      next == IF newer \/ GivesIndex(m)
              THEN [nextIndex[l] EXCEPT ![p] = m.nex] ELSE nextIndex[l]
  IN /\ m \in msgs /\ m.type = "reply"
     /\ m.rterm <= currentTerm[l]
     /\ msgs' = msgs \ {m}
     /\ UNCHANGED <<serverVars, crashes>>
     /\ IF IsCurrent(l, m)
        THEN /\ nextIndex' = [nextIndex EXCEPT ![l] = next]
             /\ matchIndex' = [matchIndex EXCEPT ![l] = match]
             /\ Commit(l, IF m.success /\ m.last = currentTerm[l]
                          THEN UpdateCommitIndex(l, match)
                          ELSE commitIndex[l])
        ELSE UNCHANGED <<leaderVars, commitVars>>

HandleLaterTerm(m) ==
  LET l == m.leader
  IN /\ m \in msgs /\ m.type = "reply"
     /\ m.rterm > currentTerm[l]
     /\ currentTerm' = [currentTerm EXCEPT ![l] = m.rterm]
     /\ role' = [role EXCEPT ![l] = "Follower"]
     /\ msgs' = msgs \ {m}
     /\ UNCHANGED <<logEntries, commitVars, leaderVars, crashes>>

-----------------------------------------------------------------------------
(***************************************************************************)
(* External: server i is elected by the votes of Q, given as the paper     *)
(* says, in a later term than its own (its attempts in between failed).    *)
(***************************************************************************)
UpToDate(i, v) ==
  LET ti == TermAt(i, LastIndex(i))
      tv == TermAt(v, LastIndex(v))
  IN ti > tv \/ (ti = tv /\ LastIndex(i) >= LastIndex(v))

Elect(i, Q, t) ==
  /\ i \in Q /\ IsMajority(Q) /\ t + crashes <= MaxTerm
  /\ \A v \in Q : currentTerm[v] < t /\ UpToDate(i, v)
  /\ currentTerm' = [s \in Server |-> IF s \in Q THEN t ELSE currentTerm[s]]
  /\ role' = [s \in Server |-> IF s = i THEN "Leader"
                               ELSE IF s \in Q THEN "Follower" ELSE role[s]]
  /\ nextIndex' = [nextIndex EXCEPT
       ![i] = [p \in Server |-> LastIndex(i) + 1]]
  /\ matchIndex' = [matchIndex EXCEPT
       ![i] = [p \in Server |-> IF p = i THEN LastIndex(i) ELSE 0]]
  /\ UNCHANGED <<logEntries, commitVars, msgs, crashes>>

(***************************************************************************)
(* External: a command is started at the leader.                           *)
(***************************************************************************)
Start(l) ==
  /\ role[l] = "Leader" /\ LastIndex(l) < MaxLog
  /\ Cardinality({k \in 1..LastIndex(l) : TermAt(l, k) = currentTerm[l]})
       < MaxStarts
  /\ logEntries' = [logEntries EXCEPT ![l] = Append(@, currentTerm[l])]
  /\ matchIndex' = [matchIndex EXCEPT ![l][l] = LastIndex(l) + 1]
  /\ UNCHANGED <<currentTerm, role, commitVars, nextIndex, msgs, crashes>>

(***************************************************************************)
(* A server crashes and restarts from its persister (crash1 and start1):   *)
(* the term and the log stay.  Nobody waits for answers to its calls.      *)
(***************************************************************************)
Remembers(i) == UNCHANGED logEntries

Restart(i) ==
  /\ crashes < MaxCrashes
  /\ \A s \in Server : currentTerm[s] + crashes < MaxTerm
  /\ crashes' = crashes + 1
  /\ Remembers(i)
  /\ role' = [role EXCEPT ![i] = "Follower"]
  /\ commitIndex' = [commitIndex EXCEPT ![i] = 0]
  /\ msgs' = {[m EXCEPT !.orphan = @ \/ m.leader = i] :
                m \in {m \in msgs : m.type = "call"}}
             \cup {m \in msgs : m.type = "reply" /\ m.leader # i}
  /\ UNCHANGED <<currentTerm, leaderVars, logs>>

-----------------------------------------------------------------------------
RaftInit ==
  /\ currentTerm = [s \in Server |-> 0]
  /\ role = [s \in Server |-> "Follower"]
  /\ logEntries = [s \in Server |-> <<>>]
  /\ commitIndex = [s \in Server |-> 0]
  /\ nextIndex = [s \in Server |-> [p \in Server |-> 1]]
  /\ matchIndex = [s \in Server |-> [p \in Server |-> 0]]
  /\ logs = [s \in Server |-> <<>>]
  /\ msgs = {}
  /\ crashes = 0

RaftNext ==
  \/ \E s, p \in Server : SendAppendEntries(s, p)
  \/ \E m \in msgs :
       \/ AppendEntriesStale(m) \/ AppendEntries(m)
       \/ HandleReply(m) \/ HandleLaterTerm(m)
  \/ \E i \in Candidates, Q \in SUBSET Server, t \in 1..MaxTerm :
       Elect(i, Q, t)
  \/ \E s \in Server : Start(s) \/ Restart(s)

RaftSpec == RaftInit /\ [][RaftNext]_raftVars

-----------------------------------------------------------------------------
(***************************************************************************)
(* config.go, checkLogs: "some server has already committed a different    *)
(* value for this entry!" is never reported, and lab3.md: no "two nodes in *)
(* the cluster disagree on the value for a committed log entry with the    *)
(* same index".                                                            *)
(***************************************************************************)
NoApplyError ==
  \A i, j \in Server : \A k \in 1..Len(logs[i]) :
    k <= Len(logs[j]) => logs[i][k] = logs[j][k]

(***************************************************************************)
(* What commits may rest on: an entry of the leader's own term that, by    *)
(* matchIndex, a majority has is in the log of every leader of a later     *)
(* term, whatever old calls and answers arrive in between.  (It is not so  *)
(* of entries of earlier terms, which updateCommitIndex commits as well:   *)
(* NoApplyError.)                                                          *)
(***************************************************************************)
OwnEntriesStay ==
  \A l, m \in Server :
    role[l] = "Leader" /\ role[m] = "Leader" /\ currentTerm[l] < currentTerm[m]
      => \A k \in 1..LastIndex(l) :
           (TermAt(l, k) = currentTerm[l]
              /\ IsMajority({p \in Server : matchIndex[l][p] >= k}))
           => k <= LastIndex(m) /\ TermAt(m, k) = currentTerm[l]

(***************************************************************************)
(* Two logs that have an entry of the same term at the same index agree up *)
(* to it, although AppendEntries cuts and extends logs and calls overtake  *)
(* each other.                                                             *)
(***************************************************************************)
LogsMatch ==
  \A i, j \in Server : \A k \in 1..LastIndex(i) :
    k <= LastIndex(j) /\ logEntries[i][k] = logEntries[j][k] =>
      SubSeq(logEntries[i], 1, k) = SubSeq(logEntries[j], 1, k)

(***************************************************************************)
(* What updateCommitIndex counts on: a follower that has not gone on to a  *)
(* later term holds the leader's log up to matchIndex, whatever old calls  *)
(* reach it after its answer.                                              *)
(***************************************************************************)
MatchIsHeld ==
  \A l, p \in Server :
    role[l] = "Leader" /\ currentTerm[p] <= currentTerm[l] =>
      /\ matchIndex[l][p] <= LastIndex(p)
      /\ SubSeq(logEntries[l], 1, matchIndex[l][p]) =
           SubSeq(logEntries[p], 1, matchIndex[l][p])
=============================================================================
