----------------------------- MODULE RateLimiter ------------------------------
(* The sliding-window limiter of api/middleware/rate_limiter.py, for one    *)
(* scope and one address: a sorted set of times in Redis, which every API   *)
(* process updates in one pipeline (MULTI/EXEC).                            *)
EXTENDS Naturals, FiniteSets

CONSTANTS MaxCalls,     \* max_calls
          Window,       \* window_seconds, in ticks
          Horizon       \* bound: ticks modelled

ASSUME WindowAssumption == Window \in Nat \ {0} /\ MaxCalls \in Nat

VARIABLES now,        \* the clock of the processes
          calls,      \* the sorted set: the times of the requests it remembers
          admitted,   \* history: the times at which a request was admitted
          asked,      \* history: the times of all requests that reached Redis
          redisUp     \* whether Redis answers

limitVars == <<now, calls, admitted, asked, redisUp>>

LimitInit == now = Window /\ calls = {} /\ admitted = {} /\ asked = {} /\ redisUp = TRUE

\* Mistake: nothing is ever forgotten while the key lives.
InWindowAll(S) == S
\* zremrangebyscore(key, 0, now - window_seconds)
InWindow(S) == { t \in S : t > now - Window }

\* One pipeline: forget, add this request under its time, count, expire.
Check ==
  /\ redisUp
  /\ calls' = InWindow(calls) \cup {now}
  /\ asked' = asked \cup {now}
  /\ admitted' = IF Cardinality(calls') > MaxCalls THEN admitted ELSE admitted \cup {now}
  /\ UNCHANGED <<now, redisUp>>

\* Redis does not answer: the request passes (it is not in the histories).
RedisDown == redisUp' = ~ redisUp /\ UNCHANGED <<now, calls, admitted, asked>>

\* Time passes.  The key expires ten seconds after the window of its last
\* request: what it held would have been forgotten then anyway.
Tick == now < Horizon /\ now' = now + 1 /\ UNCHANGED <<calls, admitted, asked, redisUp>>

LimitNext == Check \/ RedisDown \/ Tick

LimitSpec == LimitInit /\ [][LimitNext]_limitVars

-----------------------------------------------------------------------------
\* At no more than MaxCalls times of any window is a request admitted, and one
\* that finds fewer requests behind it, refused ones counted, is admitted:
\* nothing older than the window holds it back (rate_limiter.py:78-98).
WindowLimitsAdmitted ==
  \A t \in 0..Horizon :
    LET last == { u \in 0..t : u + Window > t } IN
    /\ Cardinality(admitted \cap last) <= MaxCalls
    /\ t \in asked /\ Cardinality(asked \cap last) <= MaxCalls => t \in admitted
=============================================================================
