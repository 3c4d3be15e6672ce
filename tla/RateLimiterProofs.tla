-------------------------- MODULE RateLimiterProofs ---------------------------
(***************************************************************************)
(* Proofs about RateLimiter, for any limits, window and delay, and any     *)
(* number of requests under way.                                           *)
(*                                                                         *)
(* SecondsWithinLimit needs an invariant that says what became of every    *)
(* second let through that the set no longer holds: it was removed a       *)
(* window after it at the earliest, and if just a window after it, then    *)
(* either the request that removed it read the clock in this second, or    *)
(* the key expired in this second and all members were added since.        *)
(***************************************************************************)
EXTENDS RateLimiter, SumTheorems

Limits == {SeatLimit, CheckInLimit, DefaultLimit}

(* What is known of a request under way. *)
StampedLately(r) ==
  stamp[r] # Nil =>
    /\ stamp[r] <= now /\ now <= stamp[r] + Delay
    /\ limit[r] = GetLimitForPath(key)
    /\ asked[stamp[r]] > 0

(* What is known of a member. *)
MemberUntilExpiry(m) ==
  /\ m <= now
  /\ asked[m] > 0
  /\ expires # Nil /\ now < expires /\ m + Window <= expires

(* Seconds let through that are no longer counted. *)
Gone == allowed \ members

GoneAfterWindow ==
  \A u \in Gone :
    /\ u + Window <= now
    /\ u + Window = now =>
         now \in members \/ \A m \in members : now <= m + Delay

LimiterInv ==
  /\ TypeOK
  /\ \A r \in Requests : StampedLately(r)
  /\ \A m \in members : MemberUntilExpiry(m)
  /\ GoneAfterWindow

(***************************************************************************)
(* Limits and keys                                                         *)
(***************************************************************************)

(* What the assumptions say, with the names unfolded. *)
LEMMA Numbers ==
  /\ Window \in Nat /\ Window > 0 /\ Delay \in Nat /\ MaxTime \in Nat
  /\ Start \in Nat /\ Start > Window /\ Start <= MaxTime
  /\ Seconds \subseteq Nat /\ Start \in Seconds /\ Nil \notin Int
  /\ Burst \in Nat /\ Burst > 0 /\ Slack \in Nat
  /\ \A n \in Limits : n \in Nat /\ n > 1
BY LimiterAssumption DEF Start, Seconds, Slack, Limits

(* Every path has one of the limits. *)
LEMMA LimitOfPath == \A path : GetLimitForPath(path) \in Limits
<1> SUFFICES ASSUME NEW path PROVE GetLimitForPath(path) \in Limits
  OBVIOUS
<1> DEFINE matching ==
      {i \in DOMAIN DefaultLimits : MatchPattern(path, DefaultLimits[i].pattern)}
<1>1. DOMAIN DefaultLimits = 1..5
  BY DEF DefaultLimits
<1>2. \A i \in 1..5 : DefaultLimits[i].limit \in Limits
  BY DEF DefaultLimits, Limits
<1>3. matching \subseteq 1..5
  BY <1>1
<1>4. GetLimitForPath(path) =
        IF matching = {} THEN DefaultLimit ELSE DefaultLimits[Min(matching)].limit
  BY DEF GetLimitForPath
<1> HIDE DEF matching
<1>5. ASSUME matching # {}
      PROVE  Min(matching) \in 1..5
  <2>1. PICK i \in matching : \A j \in matching : i <= j
    <3>1. CASE 1 \in matching
      BY <1>3, <3>1
    <3>2. CASE 2 \in matching /\ 1 \notin matching
      BY <1>3, <3>2
    <3>3. CASE 3 \in matching /\ matching \subseteq 3..5
      BY <3>3
    <3>4. CASE 4 \in matching /\ matching \subseteq 4..5
      BY <3>4
    <3>5. CASE matching = {5}
      BY <3>5
    <3>6. ASSUME 1 \notin matching, 2 \notin matching
          PROVE  matching \subseteq 3..5
      BY <1>3, <3>6
    <3>7. ASSUME matching \subseteq 3..5, 3 \notin matching, 4 \notin matching
          PROVE  matching = {5}
      <4>1. \A i \in matching : i = 5
        BY <3>7
      <4> QED
        BY <1>5, <4>1
    <3>8. ASSUME matching \subseteq 3..5, 3 \notin matching
          PROVE  matching \subseteq 4..5
      BY <3>8
    <3> QED
      BY <3>1, <3>2, <3>3, <3>4, <3>5, <3>6, <3>7, <3>8
  <2>2. Min(matching) \in matching
    BY <2>1 DEF Min
  <2> QED
    BY <1>3, <2>2
<1> QED
  BY <1>2, <1>4, <1>5 DEF Limits

(* Paths counted under one key have one limit: that of the key. *)
LEMMA LimitOfKey ==
  ASSUME NEW path \in Paths
  PROVE  GetLimitForPath(SimplifyPath(path)) = GetLimitForPath(path)
<1> DEFINE simple == SimplifyPath(path)
           words == {"flights", "seats", "hold", "confirm", "release", "checkin", "*"}
<1>1. path \in Seq(STRING \cup Ids)
  BY PathAssumption
<1>2. DOMAIN path = 1..Len(path) /\ DOMAIN simple = 1..Len(path) /\ Len(path) \in Nat
  BY <1>1 DEF SimplifyPath
<1>3. Len(simple) = Len(path)
  <2>1. simple \in Seq({simple[i] : i \in 1..Len(path)})
    BY <1>1, <1>2 DEF SimplifyPath
  <2>2. DOMAIN simple = 1..Len(simple) /\ Len(simple) \in Nat
    BY <2>1
  <2> QED
    BY <1>2, <2>2
<1>4. ASSUME NEW i \in DOMAIN path, NEW w \in words
      PROVE  w \in {"*", simple[i]} <=> w \in {"*", path[i]}
  BY <1>4, PathAssumption DEF SimplifyPath
<1>5. \A k \in DOMAIN DefaultLimits :
        LET pattern == DefaultLimits[k].pattern
        IN  Len(pattern) \in Nat /\ DOMAIN pattern = 1..Len(pattern)
              /\ \A i \in DOMAIN pattern : pattern[i] \in words
  <2> DEFINE three == {<<"flights", "*", "seats">>, <<"seats", "*", "hold">>,
                       <<"seats", "*", "confirm">>, <<"seats", "*", "release">>}
  <2>1. \A k \in DOMAIN DefaultLimits :
          DefaultLimits[k].pattern \in three \cup {<<"checkin">>}
    BY DEF DefaultLimits
  <2>2. ASSUME NEW p \in three
        PROVE  Len(p) = 3 /\ DOMAIN p = 1..3 /\ \A i \in 1..3 : p[i] \in words
    OBVIOUS
  <2>3. /\ Len(<<"checkin">>) = 1 /\ DOMAIN <<"checkin">> = 1..1
        /\ \A i \in 1..1 : <<"checkin">>[i] \in words
    OBVIOUS
  <2> HIDE DEF three, words
  <2> QED
    BY <2>1, <2>2, <2>3
<1>6. ASSUME NEW k \in DOMAIN DefaultLimits
      PROVE  MatchPattern(simple, DefaultLimits[k].pattern)
               <=> MatchPattern(path, DefaultLimits[k].pattern)
  <2> DEFINE pattern == DefaultLimits[k].pattern
  <2>1. Len(pattern) \in Nat /\ DOMAIN pattern = 1..Len(pattern)
          /\ \A i \in DOMAIN pattern : pattern[i] \in words
    BY <1>5
  <2> HIDE DEF pattern, words, simple
  <2>2. ASSUME Len(pattern) <= Len(path)
        PROVE  \A i \in DOMAIN pattern :
                 pattern[i] \in {"*", simple[i]} <=> pattern[i] \in {"*", path[i]}
    BY <1>2, <1>4, <2>1, <2>2
  <2>3. MatchPattern(simple, pattern) <=> MatchPattern(path, pattern)
    BY <1>3, <2>2 DEF MatchPattern
  <2> QED
    BY <2>3 DEF pattern
<1>7. {i \in DOMAIN DefaultLimits : MatchPattern(simple, DefaultLimits[i].pattern)}
        = {i \in DOMAIN DefaultLimits : MatchPattern(path, DefaultLimits[i].pattern)}
  BY <1>6
<1> QED
  BY <1>7 DEF GetLimitForPath
(***************************************************************************)
(* The invariant                                                           *)
(***************************************************************************)

LEMMA LimiterInvInit == Init => LimiterInv
<1> SUFFICES ASSUME Init PROVE LimiterInv
  OBVIOUS
<1> USE Numbers DEF Init
<1>1. PathsOf(key) # {}
  BY DEF PathsOf
<1>2. \A r \in Requests : stamp[r] = Nil
  OBVIOUS
<1>3. TypeOK
  BY <1>1 DEF TypeOK
<1>4. GoneAfterWindow
  BY DEF GoneAfterWindow, Gone
<1> QED
  BY <1>2, <1>3, <1>4 DEF LimiterInv, StampedLately

LEMMA ArriveKeepsInv ==
  ASSUME LimiterInv, NEW r \in Requests, NEW path \in PathsOf(key), Arrive(r, path)
  PROVE  LimiterInv'
<1> USE Numbers DEF Arrive
<1>1. GetLimitForPath(path) = GetLimitForPath(key) /\ GetLimitForPath(path) \in Limits
  BY LimitOfKey, LimitOfPath DEF PathsOf
<1>2. /\ PathsOf(key) # {} /\ now \in Seconds /\ members \subseteq Seconds
      /\ expires \in Nat \cup {Nil} /\ stamp \in [Requests -> Seconds \cup {Nil}]
      /\ limit \in [Requests -> {SeatLimit, CheckInLimit, DefaultLimit, Nil}]
      /\ allowed \subseteq Seconds /\ asked \in [Seconds -> 0..Burst]
  BY DEF LimiterInv, TypeOK
<1>3. /\ asked' \in [Seconds -> 0..Burst] /\ asked'[now] > 0
      /\ \A t \in Seconds : asked'[t] >= asked[t]
  BY <1>2 DEF OneMore
<1>4. PathsOf(key)' = PathsOf(key) /\ GetLimitForPath(key)' = GetLimitForPath(key)
  BY DEF PathsOf, GetLimitForPath, DefaultLimits
<1>5. TypeOK'
  BY <1>1, <1>2, <1>3, <1>4 DEF TypeOK, Limits
<1>6. ASSUME NEW q \in Requests
      PROVE  StampedLately(q)'
  <2>1. CASE q = r
    <3>1. stamp'[r] = now /\ limit'[r] = GetLimitForPath(path)
      BY <1>2
    <3> QED
      BY <1>1, <1>2, <1>3, <1>4, <2>1, <3>1 DEF StampedLately
  <2>2. CASE q # r
    <3>1. stamp'[q] = stamp[q] /\ limit'[q] = limit[q]
      BY <1>2, <2>2
    <3>2. StampedLately(q) /\ stamp[q] \in Seconds \cup {Nil}
      BY <1>2 DEF LimiterInv
    <3> QED
      BY <1>2, <1>3, <1>4, <3>1, <3>2 DEF StampedLately
  <2> QED
    BY <2>1, <2>2
<1>7. ASSUME NEW m \in members'
      PROVE  MemberUntilExpiry(m)'
  BY <1>2, <1>3, <1>7 DEF MemberUntilExpiry, LimiterInv
<1>8. GoneAfterWindow'
  BY DEF LimiterInv, GoneAfterWindow, Gone
<1> QED
  BY <1>5, <1>6, <1>7, <1>8 DEF LimiterInv

LEMMA LeaveKeepsStamps ==
  ASSUME LimiterInv, NEW r \in Requests, Leave(r), UNCHANGED <<key, now, asked>>
  PROVE  /\ \A q \in Requests : StampedLately(q)'
         /\ stamp' \in [Requests -> Seconds \cup {Nil}]
         /\ limit' \in [Requests -> {SeatLimit, CheckInLimit, DefaultLimit, Nil}]
<1>1. /\ stamp \in [Requests -> Seconds \cup {Nil}]
      /\ limit \in [Requests -> {SeatLimit, CheckInLimit, DefaultLimit, Nil}]
  BY DEF LimiterInv, TypeOK
<1>2. GetLimitForPath(key)' = GetLimitForPath(key)
  BY DEF GetLimitForPath, DefaultLimits
<1>3. ASSUME NEW q \in Requests
      PROVE  StampedLately(q)'
  <2>1. \/ stamp'[q] = Nil
        \/ stamp'[q] = stamp[q] /\ limit'[q] = limit[q]
    BY <1>1 DEF Leave
  <2>2. StampedLately(q)
    BY DEF LimiterInv
  <2> QED
    BY <1>2, <2>1, <2>2 DEF StampedLately
<1> QED
  BY <1>1, <1>3 DEF Leave

(* A request that leaves uncounted, and whose pipeline was not executed.   *)
LEMMA NotExecutedKeepsInv ==
  ASSUME LimiterInv, NEW r \in Requests, Leave(r),
         UNCHANGED <<key, now, members, expires, allowed, asked>>
  PROVE  LimiterInv'
<1>1. /\ \A q \in Requests : StampedLately(q)'
      /\ stamp' \in [Requests -> Seconds \cup {Nil}]
      /\ limit' \in [Requests -> {SeatLimit, CheckInLimit, DefaultLimit, Nil}]
  BY LeaveKeepsStamps
<1>2. TypeOK'
  BY <1>1 DEF LimiterInv, TypeOK, PathsOf
<1>3. (\A m \in members : MemberUntilExpiry(m))'
  BY DEF LimiterInv, MemberUntilExpiry
<1>4. GoneAfterWindow'
  BY DEF LimiterInv, GoneAfterWindow, Gone
<1> QED
  BY <1>1, <1>2, <1>3, <1>4 DEF LimiterInv

LEMMA TickKeepsInv == ASSUME LimiterInv, Tick PROVE LimiterInv'
<1> USE Numbers DEF Tick
<1>1. /\ PathsOf(key) # {} /\ now \in Seconds /\ members \subseteq Seconds
      /\ expires \in Nat \cup {Nil} /\ stamp \in [Requests -> Seconds \cup {Nil}]
      /\ limit \in [Requests -> {SeatLimit, CheckInLimit, DefaultLimit, Nil}]
      /\ allowed \subseteq Seconds /\ asked \in [Seconds -> 0..Burst]
  BY DEF LimiterInv, TypeOK
<1>2. now \in Nat /\ now' = now + 1 /\ now' \in Seconds
  BY <1>1 DEF Seconds
<1>3. members' \subseteq members /\ expires' \in Nat \cup {Nil}
  BY <1>1
<1>4. TypeOK'
  BY <1>1, <1>2, <1>3 DEF TypeOK, PathsOf
<1>5. ASSUME NEW r \in Requests
      PROVE  StampedLately(r)'
  <2>1. GetLimitForPath(key)' = GetLimitForPath(key)
    BY DEF GetLimitForPath, DefaultLimits
  <2>2. StampedLately(r) /\ stamp[r] \in Nat \cup {Nil}
    BY <1>1 DEF LimiterInv
  <2>3. stamp[r] # Nil => now - stamp[r] < Delay
    OBVIOUS
  <2> QED
    BY <1>2, <2>1, <2>2, <2>3 DEF StampedLately
<1>6. ASSUME NEW m \in members'
      PROVE  MemberUntilExpiry(m)'
  <2>1. m \in Nat /\ MemberUntilExpiry(m)
    BY <1>1, <1>3, <1>6 DEF LimiterInv
  <2>2. now' # expires /\ expires' = expires
    BY <1>6
  <2> QED
    BY <1>1, <1>2, <2>1, <2>2 DEF MemberUntilExpiry
<1>7. GoneAfterWindow'
  <2> SUFFICES ASSUME NEW u \in allowed, u \notin members'
               PROVE  /\ u + Window <= now'
                      /\ u + Window = now' =>
                           now' \in members' \/ \A m \in members' : now' <= m + Delay
    BY DEF GoneAfterWindow, Gone
  <2>1. u \in Nat
    BY <1>1
  <2>2. CASE u \notin members
    <3>1. u + Window <= now
      BY <2>2 DEF LimiterInv, GoneAfterWindow, Gone
    <3> QED
      BY <1>2, <2>1, <3>1
  <2>3. CASE u \in members
    <3>1. MemberUntilExpiry(u)
      BY <2>3 DEF LimiterInv
    <3>2. members' = {} /\ now' = expires
      BY <2>3
    <3> QED
      BY <1>2, <2>1, <3>1, <3>2 DEF MemberUntilExpiry
  <2> QED
    BY <2>2, <2>3
<1> QED
  BY <1>4, <1>5, <1>6, <1>7 DEF LimiterInv

(* The key expires a window after its last request. *)
LEMMA ExpiryIsLater ==
  ASSUME NEW n \in Nat
  PROVE  /\ n + Window \in Nat /\ n + Window # Nil /\ n < n + Window
         /\ \A m \in Nat : m <= n => m + Window <= n + Window
<1>1. Window \in Nat /\ Window > 0 /\ Nil \notin Int
  BY Numbers
<1>2. n + Window \in Nat /\ n < n + Window
  BY <1>1
<1>3. n + Window # Nil
  BY <1>1, <1>2
<1>4. \A m \in Nat : m <= n => m + Window <= n + Window
  BY <1>1
<1> QED
  BY <1>2, <1>3, <1>4

(* The pipeline is executed, and the request is let through or refused.    *)
LEMMA ExecutionKeepsInv ==
  ASSUME LimiterInv, NEW r \in Requests, stamp[r] # Nil, Execute(r), Leave(r),
         allowed' \subseteq allowed \cup {stamp[r]}, UNCHANGED <<key, now, asked>>
  PROVE  LimiterInv'
<1> USE Numbers
<1> DEFINE s == stamp[r]
<1>1. /\ PathsOf(key) # {} /\ now \in Seconds /\ members \subseteq Seconds
      /\ expires \in Nat \cup {Nil} /\ stamp \in [Requests -> Seconds \cup {Nil}]
      /\ limit \in [Requests -> {SeatLimit, CheckInLimit, DefaultLimit, Nil}]
      /\ allowed \subseteq Seconds /\ asked \in [Seconds -> 0..Burst]
  BY DEF LimiterInv, TypeOK
<1>2. /\ s \in Seconds /\ s <= now /\ now <= s + Delay /\ asked[s] > 0
      /\ members' = {m \in members : m > s - Window} \cup {s}
      /\ expires' = now + Window
      /\ allowed' \subseteq allowed \cup {s}
      /\ Leave(r) /\ UNCHANGED <<key, now, asked>>
  <2>1. StampedLately(r)
    BY DEF LimiterInv
  <2> QED
    BY <1>1, <2>1 DEF Execute, WithMember, StampedLately
<1> HIDE DEF s
<1>3. /\ \A q \in Requests : StampedLately(q)'
      /\ stamp' \in [Requests -> Seconds \cup {Nil}]
      /\ limit' \in [Requests -> {SeatLimit, CheckInLimit, DefaultLimit, Nil}]
  BY <1>2, LeaveKeepsStamps
<1> DEFINE later == now + Window
<1>3a. later \in Nat /\ later # Nil /\ now < later /\ now \in Nat
        /\ \A m \in Nat : m <= now => m + Window <= later
  <2>1. now \in Nat
    BY <1>1
  <2> QED
    BY <2>1, ExpiryIsLater
<1>3b. expires' = later
  BY <1>2
<1> HIDE DEF later
<1>4. TypeOK'
  <2>1. members' \subseteq Seconds /\ allowed' \subseteq Seconds
    BY <1>1, <1>2
  <2> QED
    BY <1>1, <1>2, <1>3, <1>3a, <1>3b, <2>1 DEF TypeOK, PathsOf
<1>5. ASSUME NEW m \in members'
      PROVE  MemberUntilExpiry(m)'
  <2>1. m <= now /\ asked[m] > 0 /\ m \in Nat
    <3>1. CASE m \in members
      BY <1>1, <3>1 DEF LimiterInv, MemberUntilExpiry
    <3> QED
      BY <1>1, <1>2, <3>1
  <2> QED
    BY <1>2, <1>3a, <1>3b, <2>1 DEF MemberUntilExpiry
<1>6. GoneAfterWindow'
  <2> SUFFICES ASSUME NEW u \in allowed', u \notin members'
               PROVE  /\ u + Window <= now
                      /\ u + Window = now =>
                           now \in members' \/ \A m \in members' : now <= m + Delay
    BY <1>2 DEF GoneAfterWindow, Gone
  <2>1. u \in allowed /\ u \in Nat /\ now \in Nat /\ s \in Nat
    BY <1>1, <1>2
  <2>2. CASE u \in members
    <3>1. u + Window <= s
      BY <1>2, <2>1, <2>2
    <3>2. u + Window = now => s = now
      BY <1>2, <2>1, <3>1
    <3> QED
      BY <1>2, <2>1, <3>1, <3>2
  <2>3. CASE u \notin members
    <3>1. /\ u + Window <= now
          /\ u + Window = now =>
               now \in members \/ \A m \in members : now <= m + Delay
      BY <2>1, <2>3 DEF LimiterInv, GoneAfterWindow, Gone
    <3>2. now \in members => now \in members'
      BY <1>2, <2>1
    <3> QED
      BY <1>2, <3>1, <3>2
  <2> QED
    BY <2>2, <2>3
<1> QED
  BY <1>3, <1>4, <1>5, <1>6 DEF LimiterInv

LEMMA LimiterInvNext == LimiterInv /\ [Next]_vars => LimiterInv'
<1> SUFFICES ASSUME LimiterInv, [Next]_vars PROVE LimiterInv'
  OBVIOUS
<1>1. CASE Tick
  BY <1>1, TickKeepsInv
<1>2. ASSUME NEW r \in Requests, NEW path \in PathsOf(key), Arrive(r, path)
      PROVE  LimiterInv'
  BY <1>2, ArriveKeepsInv
<1>3. ASSUME NEW r \in Requests, CheckRateLimit(r)
      PROVE  LimiterInv'
  BY <1>3, ExecutionKeepsInv DEF CheckRateLimit
<1>4. ASSUME NEW r \in Requests, RedisFails(r)
      PROVE  LimiterInv'
  <2>1. CASE Execute(r)
    BY <1>4, <2>1, ExecutionKeepsInv DEF RedisFails
  <2>2. CASE UNCHANGED <<members, expires>>
    BY <1>4, <2>2, NotExecutedKeepsInv DEF RedisFails
  <2> QED
    BY <1>4, <2>1, <2>2 DEF RedisFails
<1>5. CASE UNCHANGED vars
  BY <1>5 DEF vars, LimiterInv, TypeOK, StampedLately, MemberUntilExpiry,
              GoneAfterWindow, Gone, PathsOf, GetLimitForPath, DefaultLimits
<1> QED
  BY <1>1, <1>2, <1>3, <1>4, <1>5 DEF Next
(***************************************************************************)
(* What the limiter promises                                               *)
(***************************************************************************)

(* Seconds between two others are as many as the clock goes through. *)
LEMMA CountOfSeconds ==
  ASSUME NEW a, NEW b, NEW S, a \in Int, b \in Int, S \subseteq a..b
  PROVE  /\ IsFiniteSet(S) /\ Cardinality(S) \in Nat
         /\ a <= b + 1 => Cardinality(S) <= b - a + 1
<1>1. IsFiniteSet(a..b) /\ Cardinality(a..b) = IF a > b THEN 0 ELSE b - a + 1
  BY FS_Interval
<1>2. IsFiniteSet(S) /\ Cardinality(S) <= Cardinality(a..b)
  BY <1>1, FS_Subset
<1>3. Cardinality(S) \in Nat
  BY <1>2, FS_CardinalityType
<1> QED
  BY <1>1, <1>2, <1>3

LEMMA SecondsAreFinite == \A S : S \subseteq Seconds => IsFiniteSet(S)
<1>1. Start \in Int /\ MaxTime \in Int
  BY Numbers
<1> QED
  BY <1>1, CountOfSeconds DEF Seconds

(* A request that is let through finds room for its second in every window *)
(* that contains it.                                                       *)
LEMMA AdmittedWithinLimit ==
  ASSUME LimiterInv, LimiterInv', NEW r \in Requests, CheckRateLimit(r), Admits(r),
         NEW t \in Seconds, stamp[r] \in InWindow(t)
  PROVE  Cardinality(BusySeconds(t)') <= GetLimitForPath(key) + Slack
<1> USE Numbers
<1> DEFINE s == stamp[r]
           most == GetLimitForPath(key)
           window == InWindow(t)
           kept == window \cap members'
           lost == window \cap (allowed' \ members')
           busy == window \cap allowed'
<1>1. /\ s \in Nat /\ now \in Nat /\ t \in Nat /\ s <= t /\ now <= s + Delay
      /\ now' = now /\ members' \subseteq Seconds /\ allowed' \subseteq Seconds
      /\ most \in Nat /\ most > 1
  <2>1. StampedLately(r) /\ stamp[r] \in Seconds /\ now \in Seconds
    BY DEF LimiterInv, TypeOK, CheckRateLimit
  <2>2. members' \subseteq Seconds /\ allowed' \subseteq Seconds
    BY DEF LimiterInv, TypeOK
  <2>3. most \in Nat /\ most > 1
    BY LimitOfPath
  <2>4. s # Nil /\ now' = now
    BY DEF CheckRateLimit
  <2>5. s <= t
    <3>1. s \in (t - Window + 1)..t /\ t \in Nat
      BY DEF InWindow
    <3> QED
      BY <3>1
  <2> HIDE DEF most
  <2> QED
    BY <2>1, <2>2, <2>3, <2>4, <2>5 DEF StampedLately
<1>2. IsFiniteSet(members') /\ Cardinality(members') <= most
  <2>1. IsFiniteSet(members')
    BY <1>1, SecondsAreFinite
  <2>2. limit[r] = most
    BY DEF LimiterInv, StampedLately, CheckRateLimit
  <2>3. Cardinality(members') <= limit[r]
    BY DEF Admits, CheckRateLimit, Execute
  <2> QED
    BY <2>1, <2>2, <2>3
<1>3. kept \subseteq members' /\ busy \subseteq kept \cup lost
  OBVIOUS
<1>4. ASSUME NEW u \in window
      PROVE  u \in Nat /\ t - Window + 1 <= u /\ u <= t
  BY <1>1 DEF InWindow
<1>5. ASSUME NEW u \in lost
      PROVE  /\ u \in (t - Window + 1)..(now - Window)
             /\ u = now - Window =>
                  now \in members' \/ \A m \in members' : now <= m + Delay
  <2>1. u \in Nat /\ t - Window + 1 <= u
    BY <1>4
  <2>2. /\ u + Window <= now
        /\ u + Window = now =>
             now \in members' \/ \A m \in members' : now <= m + Delay
    BY <1>1 DEF LimiterInv, GoneAfterWindow, Gone
  <2> QED
    BY <1>1, <2>1, <2>2
<1>6. BusySeconds(t)' = busy
  BY DEF BusySeconds, InWindow, Seconds, Start
<1> DEFINE first == t - Window + 1
           last == now - Window
<1>7a. /\ first \in Int /\ last \in Int /\ last - 1 \in Int
      /\ last - first + 1 = now - t
  BY <1>1
<1> HIDE DEF s, most, window, kept, lost, busy, first, last
<1>7. ASSUME NEW x \in Nat, NEW y \in Nat,
             Cardinality(kept) <= x, Cardinality(lost) <= y, x + y <= most + Slack
      PROVE  Cardinality(busy) <= most + Slack
  <2>1. IsFiniteSet(kept) /\ IsFiniteSet(lost)
    <3>1. lost \subseteq Seconds
      BY <1>1 DEF lost
    <3> QED
      BY <1>2, <1>3, <3>1, FS_Subset, SecondsAreFinite
  <2>2. /\ IsFiniteSet(kept \cup lost) /\ Cardinality(kept \cup lost) \in Nat
        /\ Cardinality(kept \cup lost) <= Cardinality(kept) + Cardinality(lost)
    BY <2>1, UnionCount
  <2>3. Cardinality(kept) \in Nat /\ Cardinality(lost) \in Nat
    BY <2>1, FS_CardinalityType
  <2>4. Cardinality(busy) <= Cardinality(kept \cup lost) /\ Cardinality(busy) \in Nat
    BY <1>3, <2>2, FS_Subset, FS_CardinalityType
  <2> QED
    BY <1>1, <1>7, <2>2, <2>3, <2>4
<1>8. Cardinality(kept) <= most
  <2>1. Cardinality(kept) <= Cardinality(members')
    BY <1>2, <1>3, FS_Subset
  <2>2. Cardinality(kept) \in Nat /\ Cardinality(members') \in Nat
    BY <1>2, <1>3, FS_Subset, FS_CardinalityType
  <2> QED
    BY <1>1, <1>2, <2>1, <2>2
<1>9. CASE t >= now
  <2>1. lost = {}
    BY <1>1, <1>5, <1>9
  <2>2. Cardinality(lost) = 0
    BY <2>1, FS_EmptySet
  <2> QED
    BY <1>1, <1>6, <1>7, <1>8, <2>2 DEF most
<1>10. ASSUME t < now
       PROVE  Cardinality(lost) <= now - t /\ Delay > 0 /\ Slack = Delay - 1
  <2>1. lost \subseteq first..last
    BY <1>5 DEF first, last
  <2>2. first <= last + 1
    BY <1>1, <1>10 DEF first, last
  <2>3. Cardinality(lost) <= last - first + 1
    BY <1>7a, <2>1, <2>2, CountOfSeconds
  <2> QED
    BY <1>1, <1>10, <1>7a, <2>3 DEF Slack
<1>11. CASE t < now /\ now < t + Delay
  <2>1. Cardinality(lost) <= now - t /\ Slack = Delay - 1
    BY <1>10, <1>11
  <2>2. now - t \in Nat /\ most + (now - t) <= most + Slack
    BY <1>1, <1>11, <2>1
  <2> QED
    BY <1>1, <1>6, <1>7, <1>8, <2>1, <2>2 DEF most
<1>12. CASE t < now /\ now = t + Delay /\ now - Window \notin lost
  <2>1. Slack = Delay - 1 /\ Delay > 0
    BY <1>10, <1>12
  <2> DEFINE before == last - 1
  <2>2. lost \subseteq first..before
    <3>1. ASSUME NEW u \in lost
          PROVE  u \in first..before
      <4>1. u # now - Window
        BY <1>12
      <4>2. u \in first..last
        BY <1>5 DEF first, last
      <4> QED
        BY <1>1, <1>7a, <4>1, <4>2 DEF last
    <3> QED
      BY <3>1
  <2>3. Cardinality(lost) <= before - first + 1
    <3>1. before \in Int /\ first <= before + 1
      BY <1>1, <1>12, <1>7a, <2>1 DEF first, last
    <3> HIDE DEF before
    <3> QED
      BY <1>7a, <2>2, <3>1, CountOfSeconds
  <2>4. Slack \in Nat /\ before - first + 1 = Slack
    BY <1>1, <1>12, <1>7a, <2>1
  <2> QED
    BY <1>1, <1>6, <1>7, <1>8, <2>3, <2>4 DEF most
<1>13. CASE t < now /\ now = t + Delay /\ now \in members'
  <2>1. Cardinality(lost) <= Delay /\ Slack = Delay - 1
    BY <1>1, <1>10, <1>13
  <2>2. kept \subseteq members' \ {now}
    <3>1. now \notin window
      BY <1>1, <1>4, <1>13
    <3> QED
      BY <3>1 DEF kept
  <2>3. /\ IsFiniteSet(members' \ {now})
        /\ Cardinality(members' \ {now}) = Cardinality(members') - 1
    BY <1>2, <1>13, FS_RemoveElement
  <2>4. /\ Cardinality(kept) <= Cardinality(members' \ {now})
        /\ Cardinality(kept) \in Nat /\ Cardinality(members') \in Nat
    BY <1>2, <2>2, <2>3, FS_Subset, FS_CardinalityType
  <2>5. Cardinality(kept) <= most - 1 /\ most - 1 \in Nat
    BY <1>1, <1>2, <2>3, <2>4
  <2>6. (most - 1) + Delay <= most + Slack
    BY <1>1, <2>1
  <2> QED
    BY <1>6, <1>7, <2>1, <2>5, <2>6 DEF most
<1>14. CASE t < now /\ now = t + Delay /\ \A m \in members' : now <= m + Delay
  <2>1. Cardinality(lost) <= Delay /\ Slack = Delay - 1
    BY <1>1, <1>10, <1>14
  <2>2. kept \subseteq t..t
    <3>1. ASSUME NEW u \in kept
          PROVE  u \in t..t
      <4>1. u \in Nat /\ u <= t /\ now <= u + Delay
        BY <1>4, <1>14 DEF kept
      <4> QED
        BY <1>1, <1>14, <4>1
    <3> QED
      BY <3>1
  <2>3. Cardinality(kept) <= 1
    <3>1. t \in Int /\ t <= t + 1 /\ t - t + 1 = 1
      BY <1>1
    <3> QED
      BY <2>2, <3>1, CountOfSeconds
  <2>4. 1 + Delay <= most + Slack
    BY <1>1, <2>1
  <2> QED
    BY <1>6, <1>7, <2>1, <2>3, <2>4 DEF most
<1>15. t >= now \/ (t < now /\ (now < t + Delay \/ now = t + Delay))
  BY <1>1
<1> QED
  BY <1>5, <1>9, <1>11, <1>12, <1>13, <1>14, <1>15

LEMMA SecondsWithinLimitNext ==
  ASSUME LimiterInv, LimiterInv', SecondsWithinLimit, [Next]_vars
  PROVE  SecondsWithinLimit'
<1>1. Seconds' = Seconds /\ Slack' = Slack
  BY DEF Seconds, Start, Slack
<1> SUFFICES ASSUME NEW t \in Seconds
             PROVE  Cardinality(BusySeconds(t)') <= GetLimitForPath(key) + Slack
  <2>1. key' = key
    BY DEF Next, vars, Tick, Arrive, CheckRateLimit, RedisFails
  <2>2. GetLimitForPath(key)' = GetLimitForPath(key)
    BY <2>1 DEF GetLimitForPath, DefaultLimits
  <2> QED
    BY <1>1, <2>2 DEF SecondsWithinLimit
<1>2. ASSUME InWindow(t) \cap allowed' = InWindow(t) \cap allowed
      PROVE  Cardinality(BusySeconds(t)') <= GetLimitForPath(key) + Slack
  <2>1. BusySeconds(t)' = BusySeconds(t)
    BY <1>2 DEF BusySeconds, InWindow, Seconds, Start
  <2> QED
    BY <2>1 DEF SecondsWithinLimit
<1>3. CASE allowed' = allowed
  BY <1>2, <1>3
<1>4. ASSUME NEW r \in Requests, CheckRateLimit(r), Admits(r)
      PROVE  Cardinality(BusySeconds(t)') <= GetLimitForPath(key) + Slack
  <2>1. CASE stamp[r] \in InWindow(t)
    BY <1>4, <2>1, AdmittedWithinLimit
  <2>2. CASE stamp[r] \notin InWindow(t)
    <3>1. allowed' = allowed \cup {stamp[r]}
      BY <1>4 DEF CheckRateLimit
    <3> QED
      BY <1>2, <2>2, <3>1
  <2> QED
    BY <2>1, <2>2
<1>5. allowed' = allowed \/ \E r \in Requests : CheckRateLimit(r) /\ Admits(r)
  BY DEF Next, vars, Tick, Arrive, CheckRateLimit, RedisFails
<1> QED
  BY <1>3, <1>4, <1>5

(* A request is refused because of as many members, each of which was      *)
(* asked for in its window, or in the seconds that have overtaken it.      *)
LEMMA RefusalHasCause ==
  ASSUME LimiterInv, NEW r \in Requests
  PROVE  RefusedForCause(r)
<1> SUFFICES ASSUME CheckRateLimit(r), ~Admits(r)
             PROVE  MapThenSumSet(LAMBDA t : asked[t],
                      InWindow(stamp[r]) \cup Overtaking(stamp[r])) > limit[r]
  BY DEF RefusedForCause
<1> USE Numbers
<1> DEFINE s == stamp[r]
           near == InWindow(s) \cup Overtaking(s)
           counted == WithMember(s)
<1>1. /\ s \in Seconds /\ s \in Nat /\ now \in Nat /\ now <= s + Delay
      /\ asked[s] > 0 /\ members \subseteq Seconds /\ limit[r] \in Nat
      /\ \A t \in Seconds : asked[t] \in Nat
  <2>1. TypeOK /\ StampedLately(r) /\ s # Nil
    BY DEF LimiterInv, CheckRateLimit
  <2> QED
    <3>1. limit[r] \in Nat
      BY <2>1, LimitOfPath DEF StampedLately
    <3>2. \A t \in Seconds : asked[t] \in Nat
      <4>1. asked \in [Seconds -> 0..Burst]
        BY <2>1 DEF TypeOK
      <4>2. ASSUME NEW t \in Seconds
            PROVE  asked[t] \in Nat
        <5>1. asked[t] \in 0..Burst
          BY <4>1
        <5> QED
          BY <5>1
      <4> QED
        BY <4>2
    <3>3. s \in Seconds /\ now \in Seconds /\ members \subseteq Seconds
      BY <2>1 DEF TypeOK
    <3> QED
      BY <2>1, <3>1, <3>2, <3>3 DEF StampedLately
<1>2. near \in SUBSET Seconds /\ IsFiniteSet(near)
  <2>1. near \in SUBSET Seconds
    BY DEF InWindow, Overtaking
  <2> QED
    BY <2>1, SecondsAreFinite
<1>3. Weighs(near, asked)
  BY <1>1, <1>2 DEF Weighs
<1>4. counted \in SUBSET near /\ \A m \in counted : asked[m] > 0
  <2>1. ASSUME NEW m \in members, m > s - Window
        PROVE  m \in near /\ asked[m] > 0
    <3>1. MemberUntilExpiry(m) /\ m \in Seconds
      BY <1>1, <2>1 DEF LimiterInv
    <3>2. m \in Nat /\ s \in Nat /\ m <= now /\ asked[m] > 0
      BY <1>1, <3>1 DEF MemberUntilExpiry
    <3>3. m \in (s - Window + 1)..s \/ m \in (s + 1)..(s + Delay)
      BY <1>1, <2>1, <3>2
    <3> QED
      BY <3>1, <3>2, <3>3 DEF InWindow, Overtaking
  <2>2. s \in near
    <3>1. s \in (s - Window + 1)..s
      BY <1>1
    <3> QED
      BY <1>1, <3>1 DEF InWindow
  <2> QED
    BY <1>1, <2>1, <2>2 DEF WithMember
<1>5. Cardinality(counted) > limit[r] /\ Cardinality(counted) \in Nat
  <2>1. IsFiniteSet(counted)
    BY <1>2, <1>4, FS_Subset
  <2>2. Cardinality(counted) \in Nat
    BY <2>1, FS_CardinalityType
  <2>3. ~(Cardinality(counted) <= limit[r])
    BY DEF Admits
  <2> QED
    BY <1>1, <2>2, <2>3
<1> HIDE DEF s, near, counted
<1>6. Total(near, asked) >= Total(counted, asked) /\ Total(counted, asked) \in Nat
        /\ Total(near, asked) \in Nat
  BY <1>2, <1>3, <1>4, TotalOfPart
<1>7. Total(counted, asked) >= Cardinality(counted)
  <2>1. IsFiniteSet(counted) /\ Weighs(counted, asked)
    BY <1>2, <1>3, <1>4, FS_Subset DEF Weighs
  <2> QED
    BY <1>4, <2>1, TotalOfPositive
<1>8. MapThenSumSet(LAMBDA t : asked[t], near) = Total(near, asked)
  BY <1>2, <1>3, SumIsTotal
<1>9. MapThenSumSet(LAMBDA t : asked[t], near) > limit[r]
  BY <1>1, <1>5, <1>6, <1>7, <1>8
<1> QED
  BY <1>9 DEF near, s

LEMMA LimiterInvariance == Spec => [](LimiterInv /\ SecondsWithinLimit)
<1>1. Init => LimiterInv /\ SecondsWithinLimit
  <2> SUFFICES ASSUME Init PROVE LimiterInv /\ SecondsWithinLimit
    OBVIOUS
  <2>1. ASSUME NEW t \in Seconds
        PROVE  Cardinality(BusySeconds(t)) <= GetLimitForPath(key) + Slack
    <3>1. BusySeconds(t) = {}
      BY DEF Init, BusySeconds
    <3>2. GetLimitForPath(key) \in Nat /\ Slack \in Nat
      BY LimitOfPath, Numbers
    <3> QED
      BY <3>1, <3>2, FS_EmptySet
  <2> QED
    BY <2>1, LimiterInvInit DEF SecondsWithinLimit
<1>2. LimiterInv /\ SecondsWithinLimit /\ [Next]_vars => (LimiterInv /\ SecondsWithinLimit)'
  BY LimiterInvNext, SecondsWithinLimitNext
<1> QED
  BY <1>1, <1>2, PTL DEF Spec

(* The set, its expiry and the requests under way are what they are typed  *)
(* as, whatever the limits and however late pipelines run.                 *)
THEOREM LimiterTypes == Spec => []TypeOK
<1>1. LimiterInv => TypeOK
  BY DEF LimiterInv
<1> QED
  BY <1>1, LimiterInvariance, PTL

(* _check_rate_limit lets requests of one key through in at most as many   *)
(* seconds of any window as the limit, plus one for every second but the   *)
(* first by which pipelines are late.                                      *)
THEOREM LimitIsKept == Spec => []SecondsWithinLimit
  BY LimiterInvariance, PTL

(* Who is refused has asked more often than the limit within a window.     *)
THEOREM RefusalsAreEarned == Spec => OnlyHeavyUseRefused
<1>1. LimiterInv /\ [Next]_vars => [\A r \in Requests : RefusedForCause(r)]_vars
  BY RefusalHasCause
<1> QED
  BY <1>1, LimiterInvariance, PTL DEF Spec, OnlyHeavyUseRefused
===============================================================================
