----------------------------- MODULE RateLimiter ------------------------------
(***************************************************************************)
(* RateLimiterMiddleware (src/src/common/middleware/rate_limiter.py): the  *)
(* requests of one client that are counted under one key, in one sorted    *)
(* set of Redis.  The key is the path without its ids; the limit is found  *)
(* by matching the path as it is.                                          *)
(*                                                                         *)
(* A request reads the clock in whole seconds, and then, at an await, has  *)
(* a MULTI/EXEC pipeline executed: remove the old members, add one, count, *)
(* expire.  The member added is the second itself, so that the requests of *)
(* one second are one member.                                              *)
(***************************************************************************)
EXTENDS Integers, Sequences, FiniteSets, FiniteSetsExt

CONSTANTS
  Requests,      \* requests under way at once
  Ids,           \* UUIDs in paths
  Paths,         \* what clients ask for, without the leading /api/v1
  SeatLimit,     \* of DEFAULT_LIMITS: hold, confirm and release
  CheckInLimit,  \* of DEFAULT_LIMITS: check-in
  DefaultLimit,  \* of DEFAULT_LIMITS: seat maps and everything else
  Window,        \* of DEFAULT_LIMITS, in seconds
  Delay,         \* bound: seconds from reading the clock to the pipeline
  MaxTime,       \* bound: the clock stops here
  Burst,         \* bound: requests of one second that are told apart
  Nil

ASSUME LimiterAssumption ==
  /\ {SeatLimit, CheckInLimit, DefaultLimit} \subseteq Nat \ {0, 1}
  /\ Window \in Nat \ {0}
  /\ Delay \in Nat
  /\ MaxTime \in Nat /\ MaxTime > Window
  /\ Burst \in Nat \ {0}
  /\ Nil \notin Int

(* A path is split at its slashes, and no word of a pattern is an id. *)
ASSUME PathAssumption ==
  /\ Paths \subseteq Seq(STRING \cup Ids)
  /\ \A i \in Ids :
       i \notin {"flights", "seats", "hold", "confirm", "release", "checkin"}

(* Counts of requests are told apart up to every limit that can be reached *)
(* at all; the limit of 100 seconds within 60 cannot.                      *)
ASSUME BurstAssumption ==
  \A n \in {SeatLimit, CheckInLimit, DefaultLimit} :
    n < Burst \/ n >= Window + Delay

VARIABLES
  key,       \* the path without ids, the same for all requests here
  now,       \* int(time.time()) of every API process
  members,   \* the sorted set: its members are their own scores
  expires,   \* when the key expires, Nil if there is none
  stamp,     \* the time each request under way has read, or Nil
  limit,     \* the limit found for its path
  allowed,   \* for the properties: seconds of which a request was let through
  asked      \* for the properties: requests counted in each second

vars == <<key, now, members, expires, stamp, limit, allowed, asked>>

(***************************************************************************)
(* The limit and the key of a path                                         *)
(***************************************************************************)

(* DEFAULT_LIMITS, in the order in which the patterns are tried. *)
DefaultLimits ==
  <<[pattern |-> <<"flights", "*", "seats">>, limit |-> DefaultLimit],
    [pattern |-> <<"seats", "*", "hold">>,    limit |-> SeatLimit],
    [pattern |-> <<"seats", "*", "confirm">>, limit |-> SeatLimit],
    [pattern |-> <<"seats", "*", "release">>, limit |-> SeatLimit],
    [pattern |-> <<"checkin">>,               limit |-> CheckInLimit]>>

(* A pattern is matched with the beginning of the path. *)
MatchPattern(path, pattern) ==
  /\ Len(pattern) <= Len(path)
  /\ \A i \in DOMAIN pattern : pattern[i] \in {"*", path[i]}

GetLimitForPath(path) ==
  LET matching ==
        {i \in DOMAIN DefaultLimits : MatchPattern(path, DefaultLimits[i].pattern)}
  IN IF matching = {} THEN DefaultLimit ELSE DefaultLimits[Min(matching)].limit

(* The path without ids, in the key. *)
SimplifyPath(path) ==
  [i \in DOMAIN path |-> IF path[i] \in Ids THEN "*" ELSE path[i]]

PathsOf(k) == {path \in Paths : SimplifyPath(path) = k}

(***************************************************************************)
(* State and steps                                                         *)
(***************************************************************************)

(* The first second has a whole window before it. *)
Start == Window + 1

Seconds == Start..MaxTime

TypeOK ==
  /\ PathsOf(key) # {}
  /\ now \in Seconds
  /\ members \subseteq Seconds
  /\ expires \in Nat \cup {Nil}
  /\ stamp \in [Requests -> Seconds \cup {Nil}]
  /\ limit \in [Requests -> {SeatLimit, CheckInLimit, DefaultLimit, Nil}]
  /\ allowed \subseteq Seconds
  /\ asked \in [Seconds -> 0..Burst]

Init ==
  /\ key \in {SimplifyPath(path) : path \in Paths}
  /\ now = Start
  /\ members = {}
  /\ expires = Nil
  /\ stamp = [r \in Requests |-> Nil]
  /\ limit = [r \in Requests |-> Nil]
  /\ allowed = {}
  /\ asked = [t \in Seconds |-> 0]

OneMore(n) == IF n = Burst THEN n ELSE n + 1

(* dispatch begins: the limit of the path, and int(time.time()). *)
Arrive(r, path) ==
  /\ stamp[r] = Nil
  /\ limit' = [limit EXCEPT ![r] = GetLimitForPath(path)]
  /\ stamp' = [stamp EXCEPT ![r] = now]
  /\ asked' = [asked EXCEPT ![now] = OneMore(@)]
  /\ UNCHANGED <<key, now, members, expires, allowed>>

(* Mutant: the member at the edge of the window is kept. *)
WithMemberLate(t) == {m \in members : m >= t - Window} \cup {t}

(* Mutant: the score is the time of expiry. *)
WithMemberExpiry(t) == {m \in members : m > t - Window} \cup {t + Window}

(* ZREMRANGEBYSCORE 0 (t - window), then ZADD. *)
WithMember(t) == {m \in members : m > t - Window} \cup {t}

(* Mutant: one request too many. *)
AdmitsOneMore(r) == Cardinality(WithMember(stamp[r])) <= limit[r] + 1

Admits(r) == Cardinality(WithMember(stamp[r])) <= limit[r]

Leave(r) ==
  /\ stamp' = [stamp EXCEPT ![r] = Nil]
  /\ limit' = [limit EXCEPT ![r] = Nil]

(* What the pipeline does in Redis. *)
Execute(r) ==
  /\ members' = WithMember(stamp[r])
  /\ expires' = now + Window

(* _check_rate_limit: the pipeline, and what becomes of the request. *)
CheckRateLimit(r) ==
  /\ stamp[r] # Nil
  /\ Execute(r)
  /\ allowed' = IF Admits(r) THEN allowed \cup {stamp[r]} ELSE allowed
  /\ Leave(r)
  /\ UNCHANGED <<key, now, asked>>

(* Redis cannot be reached, or has executed the pipeline and its reply is  *)
(* lost: the request is let through without a count.  The properties are   *)
(* about the requests whose count was read.                                *)
RedisFails(r) ==
  /\ stamp[r] # Nil
  /\ Execute(r) \/ UNCHANGED <<members, expires>>
  /\ Leave(r)
  /\ UNCHANGED <<key, now, allowed, asked>>

Tick ==
  /\ now < MaxTime
  /\ \A r \in Requests : stamp[r] # Nil => now - stamp[r] < Delay
  /\ now' = now + 1
  /\ members' = IF now' = expires THEN {} ELSE members
  /\ expires' = IF now' = expires THEN Nil ELSE expires
  /\ UNCHANGED <<key, stamp, limit, allowed, asked>>

Next ==
  \/ Tick
  \/ \E r \in Requests :
       \/ \E path \in PathsOf(key) : Arrive(r, path)
       \/ CheckRateLimit(r)
       \/ RedisFails(r)

Spec == Init /\ [][Next]_vars

(***************************************************************************)
(* Properties                                                              *)
(***************************************************************************)

(* The seconds of the window that ends with t. *)
InWindow(t) == (t - Window + 1)..t \cap Seconds

BusySeconds(t) == InWindow(t) \cap allowed

(* Seconds that late pipelines can add: the key, which expires by Redis's  *)
(* clock, and the members a later request has removed are no longer there  *)
(* for a request to count that has read the clock before.                  *)
Slack == IF Delay = 0 THEN 0 ELSE Delay - 1

(* What the limiter does guarantee: in no window are requests of one key   *)
(* let through in more different seconds than the limit of the key, which  *)
(* is that of every path counted under it, as long as no pipeline is more  *)
(* than a second late; and in one more for every further second.           *)
SecondsWithinLimit ==
  \A t \in Seconds :
    Cardinality(BusySeconds(t)) <= GetLimitForPath(key) + Slack

(* Nobody is refused who has not asked more often for the same than its    *)
(* limit within a window, this request included: neither a lost expiry of  *)
(* the key nor members left over from earlier count against a client.  A   *)
(* request that was delayed meets those that have overtaken it as well.    *)
Overtaking(t) == (t + 1)..(t + Delay) \cap Seconds

RefusedForCause(r) ==
  CheckRateLimit(r) /\ ~Admits(r) =>
    MapThenSumSet(LAMBDA t : asked[t],
                  InWindow(stamp[r]) \cup Overtaking(stamp[r])) > limit[r]

OnlyHeavyUseRefused == [][\A r \in Requests : RefusedForCause(r)]_vars
===============================================================================
