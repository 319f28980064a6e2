----------------------------- MODULE RateLimiter -----------------------------
(***************************************************************************)
(* The token bucket of one API client.  Every API host evaluates the same  *)
(* script on the bucket in Redis and passes it the time of its own clock;  *)
(* the clocks differ by at most MaxSkew.  Redis forgets an idle bucket.    *)
(* What a host does with a request when Redis is away (let it through, or  *)
(* answer 503) does not touch the bucket and is left out.                  *)
(*                                                                         *)
(*   wall      the true time; host h reads wall - Lag[h]                   *)
(*   bucket    the bucket in Redis, Missing when it is not there           *)
(*   expires   the true time at which Redis deletes it                     *)
(*   admitted  the requests the bucket admitted by the end of each tick    *)
(*   requests  the requests of this tick, to bound them                    *)
(***************************************************************************)
EXTENDS Integers

CONSTANTS Host, Lag, MaxSkew,
          Capacity, Refill,   \* rate_limit_capacity, refill tokens per tick
          MaxWall,            \* bound on the time
          MaxRequests,        \* bound on the requests of one tick
          Missing

ASSUME RateLimiterAssumption ==
  /\ {Capacity, Refill, MaxRequests} \subseteq Nat \ {0}
  /\ {MaxSkew, MaxWall} \subseteq Nat
  /\ Lag \in [Host -> 0..MaxSkew]
  /\ Missing \notin [tokens : Int, last_refill : Int]

VARIABLES wall, bucket, expires, admitted, requests

bucketVars == <<wall, bucket, expires, admitted, requests>>

BucketInit ==
  /\ wall = 0 /\ bucket = Missing /\ expires = 0 /\ requests = 0
  /\ admitted = [t \in 0..MaxWall |-> 0]

Lower(a, b) == IF a < b THEN a ELSE b
Upper(a, b) == IF a > b THEN a ELSE b
TimeToLive == Upper(1, (2 * Capacity) \div Refill)

(* The script: refill for the time since the last request, whoever sent it *)
(* - negative when this host's clock is behind - then take one token.      *)
RefilledForward(now) ==  \* mutant: a clock that is behind refills nothing, yet moves the refill time back
  IF bucket = Missing THEN Capacity
  ELSE Lower(Capacity, bucket.tokens + Upper(0, now - bucket.last_refill) * Refill)
Refilled(now) ==
  IF bucket = Missing THEN Capacity
  ELSE Lower(Capacity, bucket.tokens + (now - bucket.last_refill) * Refill)
AfterRequest(now, tokens) ==
  [tokens |-> IF tokens >= 1 THEN tokens - 1 ELSE tokens, last_refill |-> now]
Dispatch(h) ==
  LET now == wall - Lag[h]
      tokens == Refilled(now) IN
  /\ requests < MaxRequests
  /\ requests' = requests + 1
  /\ bucket' = AfterRequest(now, tokens)
  /\ expires' = wall + TimeToLive
  /\ admitted' = IF tokens >= 1 THEN [admitted EXCEPT ![wall] = @ + 1] ELSE admitted
  /\ UNCHANGED wall

Tick ==
  /\ wall < MaxWall
  /\ wall' = wall + 1 /\ requests' = 0
  /\ bucket' = IF wall' >= expires THEN Missing ELSE bucket
  /\ admitted' = [admitted EXCEPT ![wall'] = admitted[wall]]
  /\ UNCHANGED expires

BucketNext == (\E h \in Host : Dispatch(h)) \/ Tick

BucketSpec == BucketInit /\ [][BucketNext]_bucketVars
-----------------------------------------------------------------------------
AdmittedBefore(s) == IF s = 0 THEN 0 ELSE admitted[s - 1]

(* Redis forgets a bucket only after a time that refills it, and what the  *)
(* clocks can add to it once more.                                         *)
ForgettingIsSafe == Capacity + Refill * MaxSkew <= Refill * TimeToLive

(* Whatever the hosts' clocks say and however often the bucket expires, in *)
(* every interval the bucket admits no more than its capacity, what the    *)
(* interval refills, and what the largest difference of the clocks does,   *)
(* if the bucket lives long enough for that difference.                    *)
AdmissionIsBounded ==
  ForgettingIsSafe => \A s \in 0..wall : \A t \in s..wall :
    admitted[t] - AdmittedBefore(s) <= Capacity + Refill * (t - s + MaxSkew)
=============================================================================
