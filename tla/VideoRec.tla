------------------------------ MODULE VideoRec ------------------------------
(***************************************************************************)
(* The video recommendation service (lab1/video_rec_service/server_lib/    *)
(* server_lib.go), between its two backends (lab1/user_service and         *)
(* lab1/video_service, whose failures lab1/failure_injection makes) and    *)
(* the load generator that calls it (lab1/cmd/loadgen/loadgen.go).         *)
(*                                                                         *)
(* GetTopVideos runs in a goroutine for each request, fetchTrendingVideos  *)
(* in one of its own; they share the counters, which are atomic, and the   *)
(* cache of trending videos, which has a mutex.  A user and a video are    *)
(* known by their ids; a rank is a number the ranker gives them.           *)
(*                                                                         *)
(* VideoRecDial has the version of the service in lab1_submit, and puts    *)
(* the two together.                                                       *)
(***************************************************************************)
EXTENDS Naturals, Sequences, FiniteSets, Functions

CONSTANTS
  Requests,         \* the requests of the load generator
  Users, Videos,    \* the databases of the backends
  SubscribedTo,     \* users to the users they subscribe to, in order
  LikedVideos,      \* users to the videos they like, in order
  Rank(_, _),       \* BcryptRanker.Rank of a user and a video: external
  topVideos,        \* the ids that GetTrendingVideos returns, in order
  Calls,            \* the users and limits a request may be of
  Configs,          \* injection configs: one in how many fails, is omitted
  StartConfigs,     \* the configs the backends are started with
  MaxBatchSize,     \* of the service and of its backends
  TtlSeconds,
  MaxTime,          \* bound: ticks of the clock
  MaxConfigs,       \* bound: calls of SetInjectionConfig
  None

(***************************************************************************)
(* The databases that the backends make up when they start.  Both number   *)
(* their videos from the same seed, so that every liked video exists.      *)
(***************************************************************************)
MakeRandomUsers ==
  /\ DOMAIN SubscribedTo = Users /\ DOMAIN LikedVideos = Users
  /\ \A u \in Users : /\ SubscribedTo[u] \in Seq(Users \ {u})
                      /\ LikedVideos[u] \in Seq(Videos) \ {<<>>}

MakeRandomVideos == topVideos \in Seq(Videos) /\ IsInjective(topVideos)

ASSUME VideoRecAssumption ==
  /\ MakeRandomUsers /\ MakeRandomVideos
  /\ IsFiniteSet(Requests) /\ None \notin {"fresh", "stale", "error"}
  /\ \A q \in Requests : Calls[q] \subseteq [user : Users, limit : Nat]
  /\ StartConfigs \subseteq [{"user", "video"} -> Configs]
  /\ MaxBatchSize \in Nat \ {0}
  /\ TtlSeconds \in Nat /\ MaxTime \in Nat /\ MaxConfigs \in Nat

Services == {"user", "video"}

VARIABLES
  options,    \* the options of the service, which do not change
  now,        \* time.Now().Unix()
  config,     \* FailureInjector.Config of a backend
  configs,
  request,    \* a GetTopVideos: where it is, what it has fetched
  stats,      \* the counters of VideoRecServiceServer
  cache,      \* fallBackVideos: its videos and its expireTime
  mu,         \* fallBackVideos.mu is held by fetchTrendingVideos
  trending,   \* fetchTrendingVideos: where it is, what it has fetched
  load,       \* the counters of the load generator
  rejected    \* a backend has called a request of the service invalid

serverVars == <<request, stats, cache, mu, trending, rejected>>
videoVars == <<options, now, config, configs, serverVars, load>>

-----------------------------------------------------------------------------
(***************************************************************************)
(* The backends.  MaybeInject: an answer, an error, or none at all.        *)
(***************************************************************************)
OneIn(n) == IF n = 0 THEN {FALSE} ELSE IF n = 1 THEN {TRUE} ELSE BOOLEAN

MaybeInject(s) ==
  {IF omit THEN "omitted" ELSE IF fail THEN "error" ELSE "ok" :
     fail \in OneIn(config[s].fail), omit \in OneIn(config[s].omit)}

Checked(s, valid) ==
  {IF x = "ok" /\ ~valid THEN "invalid" ELSE x : x \in MaybeInject(s)}

GetUser(ids) ==
  Checked("user", /\ ids # <<>> /\ Len(ids) <= MaxBatchSize
                  /\ Range(ids) \subseteq Users)

GetVideo(ids) ==
  Checked("video", /\ ids # <<>> /\ Len(ids) <= MaxBatchSize
                   /\ IsInjective(ids) /\ Range(ids) \subseteq Videos)

GetTrendingVideos == MaybeInject("video")

SetInjectionConfig(s, c) ==
  /\ configs < MaxConfigs /\ c # config[s]
  /\ configs' = configs + 1
  /\ config' = [config EXCEPT ![s] = c]
  /\ UNCHANGED <<options, now, serverVars, load>>

SetUserConfig(c) == SetInjectionConfig("user", c)
SetVideoConfig(c) == SetInjectionConfig("video", c)

(***************************************************************************)
(* A backend starts with the failures its options say.                     *)
(***************************************************************************)
MakeServices == config \in StartConfigs

-----------------------------------------------------------------------------
(***************************************************************************)
(* The batch at an offset, and the videos of a list without the ones that  *)
(* are there already.                                                      *)
(***************************************************************************)
Batch(ids, offset) ==
  SubSeq(ids, offset + 1,
         IF offset + MaxBatchSize < Len(ids) THEN offset + MaxBatchSize
         ELSE Len(ids))

KeepsDuplicates(ids) == ids   \* mutant: nothing is taken out

DeduplicateIds(ids) ==
  LET first == {i \in DOMAIN ids : \A j \in 1..(i - 1) : ids[j] # ids[i]}
      At(k) == CHOOSE i \in first : Cardinality({j \in first : j <= i}) = k
  IN [k \in 1..Cardinality(first) |-> ids[At(k)]]

Likes(ids) ==
  LET liked[i \in 0..Len(ids)] ==
        IF i = 0 THEN <<>> ELSE liked[i - 1] \o LikedVideos[ids[i]]
  IN liked[Len(ids)]

(***************************************************************************)
(* The orders sort.Slice may give a list, and a list cut to the limit.     *)
(***************************************************************************)
Arranged(vs) ==
  {[i \in 1..Len(vs) |-> vs[p[i]]] :
     p \in Bijection(1..Len(vs), 1..Len(vs))}

Cut(vs, limit) == SubSeq(vs, 1, IF limit < Len(vs) THEN limit ELSE Len(vs))

Ascending(u, vs, limit) == \* mutant: the worst videos come first
  {Cut(s, limit) : s \in {t \in Arranged(vs) : \A i, j \in 1..Len(vs) :
                             i < j => Rank(u, t[i]) <= Rank(u, t[j])}}

(***************************************************************************)
(* The videos by descending rank, cut to the limit.  The sort is not       *)
(* stable: videos of the same rank may come in any order.                  *)
(***************************************************************************)
Rankings(u, vs, limit) ==
  {Cut(s, limit) : s \in {t \in Arranged(vs) : \A i, j \in 1..Len(vs) :
                             i < j => Rank(u, t[i]) >= Rank(u, t[j])}}

-----------------------------------------------------------------------------
(***************************************************************************)
(* sendRequest of the load generator, and the entry of GetTopVideos.       *)
(***************************************************************************)
SendRequest(q, c) ==
  /\ request[q].pc = "new"
  /\ request' = [request EXCEPT ![q].pc = "sent", ![q].user = c.user,
                                ![q].limit = c.limit]
  /\ load' = [load EXCEPT !.sent = @ + 1]
  /\ UNCHANGED <<options, now, config, configs, stats, cache, mu, trending,
                 rejected>>

Enter(q) ==
  /\ request[q].pc = "sent"
  /\ request' = [request EXCEPT ![q].pc = "user"]
  /\ stats' = [stats EXCEPT !.active = @ + 1]
  /\ UNCHANGED <<options, now, config, configs, cache, mu, trending, load,
                 rejected>>

(***************************************************************************)
(* A call within a request has its context: the deadline of the load       *)
(* generator may pass before the backend answers.                          *)
(***************************************************************************)
Within(answers) == answers \cup {"deadline"}

(***************************************************************************)
(* A call of a backend failed: it is counted, and the request falls back   *)
(* or returns the error.                                                   *)
(***************************************************************************)
BackendError(q, s) ==
  /\ request' = [request EXCEPT
       ![q].pc = IF options.DisableFallback THEN "error" ELSE "fallback",
       ![q].offset = 0, ![q].candidates = <<>>, ![q].videos = <<>>]
  /\ stats' = IF s = "user" THEN [stats EXCEPT !.userErrs = @ + 1]
              ELSE [stats EXCEPT !.videoErrs = @ + 1]

FirstUserRequest(q) ==
  /\ request[q].pc = "user"
  /\ \E x \in Within(GetUser(<<request[q].user>>)) :
       /\ IF x = "ok"
          THEN /\ request' = [request EXCEPT ![q].pc = "subscribed"]
               /\ UNCHANGED stats
          ELSE BackendError(q, "user")
       /\ rejected' = (rejected \/ x = "invalid")
  /\ UNCHANGED <<options, now, config, configs, cache, mu, trending, load>>

(***************************************************************************)
(* One turn of the loop over the batches of SubscribedTo, and of the loop  *)
(* in fetchVideos over those of the candidates.                            *)
(***************************************************************************)
SecondUserRequest(q) ==
  LET ids == SubscribedTo[request[q].user]
      batch == Batch(ids, request[q].offset)
  IN /\ request[q].pc = "subscribed" /\ request[q].offset < Len(ids)
     /\ \E x \in Within(GetUser(batch)) :
          /\ IF x = "ok"
             THEN /\ request' = [request EXCEPT
                       ![q].offset = @ + MaxBatchSize,
                       ![q].candidates = @ \o Likes(batch)]
                  /\ UNCHANGED stats
             ELSE BackendError(q, "user")
          /\ rejected' = (rejected \/ x = "invalid")
     /\ UNCHANGED <<options, now, config, configs, cache, mu, trending, load>>

Deduplicate(q) ==
  /\ request[q].pc = "subscribed"
  /\ request[q].offset >= Len(SubscribedTo[request[q].user])
  /\ request' = [request EXCEPT ![q].pc = "videos", ![q].offset = 0,
                   ![q].candidates = DeduplicateIds(@)]
  /\ UNCHANGED <<options, now, config, configs, stats, cache, mu, trending,
                 load,
                 rejected>>

FetchVideos(q) ==
  LET ids == request[q].candidates
      batch == Batch(ids, request[q].offset)
  IN /\ request[q].pc = "videos" /\ request[q].offset < Len(ids)
     /\ \E x \in Within(GetVideo(batch)) :
          /\ IF x = "ok"
             THEN /\ request' = [request EXCEPT
                       ![q].offset = @ + MaxBatchSize,
                       ![q].videos = @ \o batch]
                  /\ UNCHANGED stats
             ELSE BackendError(q, "video")
          /\ rejected' = (rejected \/ x = "invalid")
     /\ UNCHANGED <<options, now, config, configs, cache, mu, trending, load>>

RankVideos(q) ==
  /\ request[q].pc = "videos"
  /\ request[q].offset >= Len(request[q].candidates)
  /\ \E vs \in Rankings(request[q].user, request[q].videos, request[q].limit) :
       request' = [request EXCEPT ![q].pc = "return", ![q].answer = "fresh",
         ![q].offset = 0, ![q].candidates = <<>>, ![q].videos = vs]
  /\ UNCHANGED <<options, now, config, configs, stats, cache, mu, trending,
                 load,
                 rejected>>

(***************************************************************************)
(* The error is returned: it is counted before the deferred calls run.     *)
(***************************************************************************)
ReturnError(q) ==
  /\ request[q].pc = "error"
  /\ request' = [request EXCEPT ![q].pc = "return", ![q].answer = "error"]
  /\ stats' = [stats EXCEPT !.errs = @ + 1]
  /\ UNCHANGED <<options, now, config, configs, cache, mu, trending, load,
                 rejected>>

(***************************************************************************)
(* fallBack, which holds the mutex: the cached videos, cut to a limit that *)
(* is set, or an error, which is not counted among the errors.             *)
(***************************************************************************)
NotLooked(q) ==            \* mutant: that the cache is empty is not seen
  /\ request[q].pc = "fallback" /\ ~mu
  /\ request' = [request EXCEPT ![q].pc = "return", ![q].answer = "stale"]
  /\ UNCHANGED <<options, now, config, configs, stats, cache, mu, trending,
                 load,
                 rejected>>

FallBack(q) ==
  LET n == Len(cache.videos)
      limit == request[q].limit
  IN /\ request[q].pc = "fallback" /\ ~mu
     /\ IF n # 0
        THEN /\ request' = [request EXCEPT ![q].pc = "return",
                  ![q].answer = "stale",
                  ![q].videos = SubSeq(cache.videos, 1,
                     IF limit < n /\ limit > 0 THEN limit ELSE n)]
             /\ stats' = [stats EXCEPT !.stale = @ + 1]
        ELSE /\ request' = [request EXCEPT ![q].pc = "return",
                                           ![q].answer = "error"]
             /\ UNCHANGED stats
     /\ UNCHANGED <<options, now, config, configs, cache, mu, trending, load,
                    rejected>>

(***************************************************************************)
(* The deferred calls: one more request, then one less active.             *)
(***************************************************************************)
CountRequest(q) ==
  /\ request[q].pc = "return"
  /\ request' = [request EXCEPT ![q].pc = "leave"]
  /\ stats' = [stats EXCEPT !.requests = @ + 1]
  /\ UNCHANGED <<options, now, config, configs, cache, mu, trending, load,
                 rejected>>

Leave(q) ==
  /\ request[q].pc = "leave"
  /\ request' = [request EXCEPT ![q].pc = "answered"]
  /\ stats' = [stats EXCEPT !.active = @ - 1]
  /\ UNCHANGED <<options, now, config, configs, cache, mu, trending, load,
                 rejected>>

(***************************************************************************)
(* The context of sendRequest ends, or the connection fails: the request   *)
(* is counted as answered, wherever the service is with it, if it got it.  *)
(***************************************************************************)
GiveUp(q) ==
  LET pc == request[q].pc
  IN /\ pc \notin {"new", "lost", "done"} /\ ~request[q].gone
     /\ \E next \in IF pc = "sent" THEN {"sent", "lost"} ELSE {pc} :
          request' = [request EXCEPT ![q].pc = next, ![q].gone = TRUE]
     /\ load' = [load EXCEPT !.responses = @ + 1]
     /\ UNCHANGED <<options, now, config, configs, stats, cache, mu, trending,
                    rejected>>

CountsAnyway(q) ==         \* mutant: an answer that is late counts again
  /\ request[q].pc = "answered"
  /\ request' = [request EXCEPT ![q].pc = "done", ![q].videos = <<>>]
  /\ load' = [load EXCEPT !.responses = @ + 1]
  /\ UNCHANGED <<options, now, config, configs, stats, cache, mu, trending,
                 rejected>>

(***************************************************************************)
(* The answer is there: the load generator counts it unless it has given   *)
(* up; then it is forgotten.                                               *)
(***************************************************************************)
Receive(q) ==
  LET answer == request[q].answer
  IN /\ request[q].pc = "answered"
     /\ request' = [request EXCEPT ![q].pc = "done", ![q].videos = <<>>]
     /\ load' = IF request[q].gone THEN load ELSE [load EXCEPT
          !.responses = @ + 1,
          !.stale = IF answer = "stale" THEN @ + 1 ELSE @,
          !.successes = IF answer # "error" THEN @ + 1 ELSE @]
     /\ UNCHANGED <<options, now, config, configs, stats, cache, mu, trending,
                    rejected>>

-----------------------------------------------------------------------------
(***************************************************************************)
(* fetchTrendingVideos.  A cache that has not expired is left alone; after *)
(* an error the loop sleeps and begins again; the call has no deadline, so *)
(* that without an answer the loop is stuck.                               *)
(***************************************************************************)
NoRefresh == [pc |-> "check", offset |-> 0, videos |-> <<>>, expire |-> 0]

HoldsLock == TRUE          \* mutant: the mutex is taken before the calls

HeldWhileFetching == FALSE

FetchTrending ==
  /\ trending.pc = "check" /\ cache.expire < now
  /\ \E x \in GetTrendingVideos :
       /\ trending' = [trending EXCEPT
            !.pc = CASE x = "ok" -> "fetch" [] x = "error" -> "sleep"
                     [] x = "omitted" -> "stuck",
            !.expire = IF x = "ok" THEN now + TtlSeconds ELSE 0]
       /\ mu' = (x # "error" /\ HeldWhileFetching)
  /\ UNCHANGED <<options, now, config, configs, request, stats, cache, load,
                 rejected>>

TrendingFailed ==
  /\ trending.pc = "sleep"
  /\ trending' = NoRefresh
  /\ UNCHANGED <<options, now, config, configs, request, stats, cache, mu,
                 load, rejected>>

(***************************************************************************)
(* One turn of its loop over the batches, which an error leaves.           *)
(***************************************************************************)
FetchTrendingBatch ==
  LET batch == Batch(topVideos, trending.offset)
  IN /\ trending.pc = "fetch" /\ trending.offset < Len(topVideos)
     /\ \E x \in GetVideo(batch) :
          /\ trending' = CASE x = "ok" -> [trending EXCEPT
                                !.offset = @ + MaxBatchSize,
                                !.videos = @ \o batch]
                           [] x = "omitted" -> [NoRefresh EXCEPT !.pc = "stuck"]
                           [] OTHER -> [trending EXCEPT !.pc = "lock"]
          /\ rejected' = (rejected \/ x = "invalid")
     /\ UNCHANGED <<options, now, config, configs, request, stats, cache, mu,
                    load>>

TrendingFetched ==
  /\ trending.pc = "fetch" /\ trending.offset >= Len(topVideos)
  /\ trending' = [trending EXCEPT !.pc = "lock"]
  /\ UNCHANGED <<options, now, config, configs, request, stats, cache, mu,
                 load,
                 rejected>>

(***************************************************************************)
(* With the mutex: what was fetched, be it all or not, is the cache.       *)
(***************************************************************************)
UpdateCache ==
  /\ trending.pc = "lock"
  /\ cache' = [videos |-> trending.videos, expire |-> trending.expire]
  /\ trending' = NoRefresh
  /\ mu' = FALSE
  /\ UNCHANGED <<options, now, config, configs, request, stats, load,
                 rejected>>

Tick ==
  /\ now < MaxTime
  /\ now' = now + 1
  /\ UNCHANGED <<options, config, configs, serverVars, load>>

-----------------------------------------------------------------------------
VideoInit ==
  /\ options \in [DisableFallback : BOOLEAN]
  /\ now = 1 /\ configs = 0
  /\ MakeServices
  /\ request = [q \in Requests |->
       [pc |-> "new", user |-> None, limit |-> 0, offset |-> 0,
        candidates |-> <<>>, videos |-> <<>>, answer |-> None,
        gone |-> FALSE]]
  /\ stats = [requests |-> 0, errs |-> 0, active |-> 0, userErrs |-> 0,
              videoErrs |-> 0, stale |-> 0]
  /\ cache = [videos |-> <<>>, expire |-> 0]
  /\ mu = FALSE
  /\ trending = NoRefresh
  /\ load = [sent |-> 0, responses |-> 0, successes |-> 0, stale |-> 0]
  /\ rejected = FALSE

Serve(q) ==
  \/ Enter(q) \/ FirstUserRequest(q) \/ SecondUserRequest(q) \/ Deduplicate(q)
  \/ FetchVideos(q) \/ RankVideos(q) \/ ReturnError(q) \/ FallBack(q)
  \/ CountRequest(q) \/ Leave(q)

FetchTrendingVideos ==
  \/ FetchTrending \/ TrendingFailed
  \/ FetchTrendingBatch \/ TrendingFetched \/ UpdateCache

-----------------------------------------------------------------------------
With(S) == Cardinality({q \in Requests : request[q].pc \in S})
Answers(a) == Cardinality({q \in Requests : request[q].answer = a})

(***************************************************************************)
(* lab1.md, A8, and the checks of the backends: no batch the service sends *)
(* is empty, too large or has a video twice, and so no backend rejects     *)
(* one, whatever the lists and however requests and the refresh of the     *)
(* cache interleave.                                                       *)
(***************************************************************************)
NoInvalidBatch == ~rejected

Liked(u) == UNION {Range(LikedVideos[v]) : v \in Range(SubscribedTo[u])}

AreBest(u, vs, limit) ==
  /\ IsInjective(vs) /\ Range(vs) \subseteq Liked(u)
  /\ Len(vs) = IF limit < Cardinality(Liked(u)) THEN limit
               ELSE Cardinality(Liked(u))
  /\ \A i, j \in 1..Len(vs) : i < j => Rank(u, vs[i]) >= Rank(u, vs[j])
  /\ \A i \in 1..Len(vs), v \in Liked(u) \ Range(vs) :
       Rank(u, vs[i]) >= Rank(u, v)

(***************************************************************************)
(* lab1.md, A5 and A6: a fresh response to a request with a limit has the  *)
(* best of the videos that the users one subscribes to like: none twice,   *)
(* as many as the limit or all of them, by descending rank, and none left  *)
(* out that ranks above one that is there; however they were batched.  Of  *)
(* a request without one (a limit of 0) nothing is said: lab1.md asks for  *)
(* all videos, and GetTopVideos returns none.                              *)
(***************************************************************************)
FreshIsBest ==
  \A q \in Requests :
    /\ request[q].answer = "fresh" /\ request[q].pc # "done"
    /\ request[q].limit > 0
    => AreBest(request[q].user, request[q].videos, request[q].limit)

(***************************************************************************)
(* lab1.md, B1: the counters of GetStats add up at every moment: who is    *)
(* inside is active, who leaves or has left is a request, and every error  *)
(* of a backend is on its way to, or became, one stale response or one     *)
(* error.  The errors counted were returned, and without the fallback they *)
(* are all that were (a fallback that fails is not counted).  The load     *)
(* generator counts a response at most once for what it sent, though it    *)
(* may give up on one that the service is still at, and a success or a     *)
(* stale response only when the service has counted it.                    *)
(***************************************************************************)
StatsAddUp ==
  LET inside == {"user", "subscribed", "videos", "error", "fallback",
                 "return", "leave"}
  IN /\ stats.active = With(inside)
     /\ stats.requests = With({"leave", "answered", "done"})
     /\ stats.stale = Answers("stale")
     /\ stats.userErrs + stats.videoErrs
          = With({"error", "fallback"}) + Answers("stale") + Answers("error")
     /\ stats.errs <= Answers("error")
     /\ options.DisableFallback => stats.errs = Answers("error")
     /\ load.successes <= load.responses /\ load.responses <= load.sent
     /\ load.successes <= stats.requests /\ load.stale <= stats.stale

IsPrefix(s, t) == Len(s) <= Len(t) /\ s = SubSeq(t, 1, Len(s))

(***************************************************************************)
(* lab1.md, C2: the cache is always a beginning of the trending videos,    *)
(* made of whole batches, and a stale response is a beginning of such,     *)
(* with a video at least unless none was asked for.                        *)
(***************************************************************************)
StaleIsTrending ==
  /\ IsPrefix(cache.videos, topVideos)
  /\ \/ Len(cache.videos) % MaxBatchSize = 0
     \/ Len(cache.videos) = Len(topVideos)
  /\ \A q \in Requests :
       request[q].answer = "stale" /\ request[q].pc # "done" =>
       /\ request[q].limit > 0 => request[q].videos # <<>>
       /\ IsPrefix(request[q].videos, topVideos)

(***************************************************************************)
(* Every request that reaches the service is answered, even when the load  *)
(* generator has given up and while fetchTrendingVideos waits for an       *)
(* answer that never comes: there are finitely many, and in the end none   *)
(* is under way.                                                           *)
(***************************************************************************)
RequestsReturn ==
  <>[](\A q \in Requests : request[q].pc \in {"new", "lost", "done"})
=============================================================================
