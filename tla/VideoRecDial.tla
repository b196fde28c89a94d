---------------------------- MODULE VideoRecDial ----------------------------
(***************************************************************************)
(* The video recommendation service as it was handed in first              *)
(* (lab1_submit/video_rec_service/server_lib/server_lib.go), beside the    *)
(* version of VideoRec.  The first one has no pool: a request dials a      *)
(* connection to the user service and another to the video service, and    *)
(* has to close them whichever way it returns.  In both versions the loop  *)
(* of fetchTrendingVideos dials for every refresh of the cache.            *)
(*                                                                         *)
(* grpc.Dial does not wait for a connection, and fails for an address that *)
(* can not be parsed only: the addresses here can be.                      *)
(***************************************************************************)
EXTENDS VideoRec

VARIABLES
  pooled,      \* the version: with the pool (VideoRec) or without
  conns        \* the connections a request, or the refresh, has open

dialVars == <<videoVars, pooled, conns>>

Refresh == "fetchTrendingVideos"

ASSUME DialAssumption == Refresh \notin Requests

Dial(o) == conns' = [conns EXCEPT ![o] = @ + 1]
Close(o) == conns' = [conns EXCEPT ![o] = @ - 1]

-----------------------------------------------------------------------------
(***************************************************************************)
(* GetTopVideos without the pool: the connection to the user service is    *)
(* there from the beginning, the one to the video service as long as       *)
(* fetchVideos runs.                                                       *)
(***************************************************************************)
DialUser(q) == Enter(q) /\ Dial(q)

FirstUserCall(q) == FirstUserRequest(q) /\ UNCHANGED conns

SecondUserCall(q) == SecondUserRequest(q) /\ UNCHANGED conns

DialVideo(q) == Deduplicate(q) /\ Dial(q)

ClosesAtEnd(q) ==          \* mutant: an error leaves the connection open
  FetchVideos(q) /\ UNCHANGED conns

VideoCall(q) ==
  /\ FetchVideos(q)
  /\ IF request'[q].pc = "videos" THEN UNCHANGED conns ELSE Close(q)

RankFetched(q) == RankVideos(q) /\ Close(q)

ErrorReturned(q) == ReturnError(q) /\ UNCHANGED conns

(***************************************************************************)
(* Its fallBack takes a limit of 0 as it is.                               *)
(***************************************************************************)
FallBackToLimit(q) ==
  LET n == Len(cache.videos)
      limit == request[q].limit
  IN /\ request[q].pc = "fallback" /\ ~mu
     /\ IF n # 0
        THEN /\ request' = [request EXCEPT ![q].pc = "return",
                  ![q].answer = "stale",
                  ![q].videos = SubSeq(cache.videos, 1,
                                       IF limit < n THEN limit ELSE n)]
             /\ stats' = [stats EXCEPT !.stale = @ + 1]
        ELSE /\ request' = [request EXCEPT ![q].pc = "return",
                                           ![q].answer = "error"]
             /\ UNCHANGED stats
     /\ UNCHANGED <<options, now, config, configs, cache, mu, trending, load,
                    rejected, conns>>

(***************************************************************************)
(* The deferred calls: Close comes first.                                  *)
(***************************************************************************)
CloseUser(q) == CountRequest(q) /\ Close(q)

LeaveDialed(q) == Leave(q) /\ UNCHANGED conns

ServeDialed(q) ==
  \/ DialUser(q) \/ FirstUserCall(q) \/ SecondUserCall(q) \/ DialVideo(q)
  \/ VideoCall(q) \/ RankFetched(q) \/ ErrorReturned(q) \/ FallBackToLimit(q)
  \/ CloseUser(q) \/ LeaveDialed(q)

-----------------------------------------------------------------------------
(***************************************************************************)
(* The refresh: dialed for the call for the trending videos, closed after  *)
(* the sleep when that fails, or when the cache is up to date.             *)
(***************************************************************************)
RefreshBegins == FetchTrending /\ Dial(Refresh)

RefreshFails == TrendingFailed /\ Close(Refresh)

RefreshBatch == FetchTrendingBatch /\ UNCHANGED conns

RefreshFetched == TrendingFetched /\ UNCHANGED conns

RefreshEnds == UpdateCache /\ Close(Refresh)

RefreshStep ==
  \/ RefreshBegins \/ RefreshFails
  \/ RefreshBatch \/ RefreshFetched \/ RefreshEnds

-----------------------------------------------------------------------------
DialInit ==
  /\ VideoInit
  /\ pooled \in BOOLEAN
  /\ conns = [o \in Requests \cup {Refresh} |-> 0]

ServeEither(q) ==
  /\ \/ pooled /\ Serve(q) /\ UNCHANGED conns
     \/ ~pooled /\ ServeDialed(q)
  /\ UNCHANGED pooled

DialNext ==
  \/ \E q \in Requests : ServeEither(q)
  \/ RefreshStep /\ UNCHANGED pooled
  \/ /\ \/ \E q \in Requests : \/ \E c \in Calls[q] : SendRequest(q, c)
                               \/ GiveUp(q) \/ Receive(q)
        \/ \E c \in Configs : SetUserConfig(c) \/ SetVideoConfig(c)
        \/ Tick
     /\ UNCHANGED <<pooled, conns>>

DialSpec == DialInit /\ [][DialNext]_dialVars

(***************************************************************************)
(* The goroutines of the requests run on, as their calls have a deadline.  *)
(* Each has an end, so that fairness to all of them together is enough.    *)
(***************************************************************************)
Progress ==
  \E q \in Requests : \/ ServeEither(q)
                      \/ Receive(q) /\ UNCHANGED <<pooled, conns>>

FairDialSpec == DialSpec /\ WF_dialVars(Progress)

-----------------------------------------------------------------------------
(***************************************************************************)
(* No connection outlives what it was dialed for (defer uconn.Close() and  *)
(* defer vconn.Close(), and vconn.Close() in fetchTrendingVideos):         *)
(* whichever backend fails whichever call, a request that has returned     *)
(* and a refresh that is over have none open, and those under way have     *)
(* one, or two while fetchVideos runs.                                     *)
(***************************************************************************)
ConnectionsClosed ==
  /\ \A q \in Requests :
       conns[q] = CASE pooled \/ request[q].pc \in {"new", "sent", "lost",
                                         "leave", "answered", "done"} -> 0
                    [] ~pooled /\ request[q].pc = "videos" -> 2
                    [] OTHER -> 1
  /\ conns[Refresh] = IF trending.pc = "check" THEN 0 ELSE 1
=============================================================================
