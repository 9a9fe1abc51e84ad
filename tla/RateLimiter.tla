----------------------------- MODULE RateLimiter -----------------------------
(***************************************************************************)
(* The sliding-window rate limiter (rate_limiter.py): per client and route *)
(* bucket the times of the requests it let through, judged by the limit    *)
(* and the window of the route.  When it knows too many clients it forgets *)
(* those that were quiet for the window of the route just asked for.  The  *)
(* limits may be reloaded while it runs.                                   *)
(*                                                                         *)
(* _is_allowed runs on the event loop without an await: one action.        *)
(***************************************************************************)
EXTENDS Integers, Sequences, FiniteSets, Filter

CONSTANTS
  Client,
  Route,      \* buckets: the configured prefixes and __default__
  Config,     \* configurations: [Route -> [limit: max_requests,
              \*                            window: window_seconds]]
  MaxClients, \* MAX_CLIENTS
  MaxTime     \* bound: when the clock stops

VARIABLES
  now,
  config,
  requests, \* _requests: the times in each bucket of each known client
  history   \* of each bucket the times that were let through since the last
            \* reload, or since it was forgotten before its window was over

vars == <<now, config, requests, history>>

Time == 0..MaxTime

TypeOK ==
  /\ now \in Time
  /\ config \in Config
  /\ DOMAIN requests \subseteq Client
  /\ \A c \in DOMAIN requests :
       /\ DOMAIN requests[c] \subseteq Route
       /\ \A r \in DOMAIN requests[c] : requests[c][r] \in Seq(Time)
  /\ history \in [Client \X Route -> Seq(Time)]

NoTimes == [r \in {} |-> <<>>]

Init ==
  /\ now = 0
  /\ config \in Config
  /\ requests = [c \in {} |-> NoTimes]
  /\ history = [cr \in Client \X Route |-> <<>>]

-----------------------------------------------------------------------------
\* dict.get(key, default), and d[key] = value.
Get(d, key, default) == IF key \in DOMAIN d THEN d[key] ELSE default
Put(d, key, value) ==
  [k \in DOMAIN d \cup {key} |-> IF k = key THEN value ELSE d[k]]

InWindow(times, r) ==
  Keep(times, {t \in Time : t > now - config[r].window})

Buckets(c) == Get(requests, c, NoTimes)
Recent(c, r) == InWindow(Get(Buckets(c), r, <<>>), r)
Stored(c, r, times) == Put(requests, c, Put(Buckets(c), r, times))

\* The clients found stale by a request for route r, whatever the windows of
\* the routes that they have used.
Stale(known, r) ==
  {c \in DOMAIN known :
     \A k \in DOMAIN known[c] :
       LET times == known[c][k]
       IN  times = <<>> \/ times[Len(times)] < now - config[r].window}

Evicted(known, r) ==
  IF Cardinality(DOMAIN known) > MaxClients
  THEN [c \in DOMAIN known \ Stale(known, r) |-> known[c]]
  ELSE known

\* The history does not count against the limiter what was forgotten in a
\* longer window than the one of the request that evicted.
Remembered(known, c, r) ==
  [cr \in Client \X Route |->
     IF cr = <<c, r>> THEN Append(history[cr], now)
     ELSE IF /\ cr[1] \notin DOMAIN known
             /\ config[cr[2]].window > config[r].window
          THEN <<>> ELSE history[cr]]

(* Faulty variant: the limit is compared the wrong way at the boundary.    *)
RequestOneMore(c, r) ==
  LET times == Recent(c, r)
      known == Evicted(Stored(c, r, Append(times, now)), r)
  IN  /\ IF Len(times) > config[r].limit
         THEN requests' = Stored(c, r, times) /\ UNCHANGED history
         ELSE requests' = known /\ history' = Remembered(known, c, r)
      /\ UNCHANGED <<now, config>>

\* _is_allowed: a refused request is not counted, but its bucket is trimmed.
Request(c, r) ==
  LET times == Recent(c, r)
      known == Evicted(Stored(c, r, Append(times, now)), r)
  IN  /\ IF Len(times) >= config[r].limit
         THEN requests' = Stored(c, r, times) /\ UNCHANGED history
         ELSE requests' = known /\ history' = Remembered(known, c, r)
      /\ UNCHANGED <<now, config>>

\* A reload by the poll of dispatch or by the admin route; a configuration
\* that is not valid is not taken.  The buckets stay as they are.
Reload(new) ==
  /\ new \in Config
  /\ config' = new
  /\ history' = [cr \in Client \X Route |-> <<>>]
  /\ UNCHANGED <<now, requests>>

Tick ==
  /\ now < MaxTime
  /\ now' = now + 1
  /\ UNCHANGED <<config, requests, history>>

Next ==
  \/ \E c \in Client, r \in Route : Request(c, r)
  \/ \E new \in Config : Reload(new)
  \/ Tick

Spec == Init /\ [][Next]_vars

-----------------------------------------------------------------------------
(* Properties                                                              *)

(* No client gets more requests through in the window of a route than its  *)
(* limit, whatever is trimmed and evicted meanwhile (_is_allowed), if the  *)
(* limits stay as they are and no shorter window has had it forgotten.     *)
LimitHolds ==
  \A c \in Client, r \in Route :
    Len(InWindow(history[<<c, r>>], r)) <= config[r].limit
=============================================================================
