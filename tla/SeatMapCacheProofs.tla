-------------------------- MODULE SeatMapCacheProofs --------------------------
(***************************************************************************)
(* The staleness of cached seat maps is bounded for every TTL, any number  *)
(* of keys and requests, and any race of fills, invalidations and commits. *)
(***************************************************************************)
EXTENDS SeatMapCache, TLAPS

(* A map under a key uses up its TTL as it gets staler, and a map on its   *)
(* way to the cache is never staler than its read is old.                  *)
Ageing ==
  /\ \A k \in Keys : cache[k] # Nil => cache[k].stale + cache[k].ttl <= MaxStale
  /\ \A x \in Sessions : Reading(x) => read[x].stale <= read[x].age

(* A session fills the cache with a map it has read.                       *)
FillersHaveRead ==
  /\ \A x \in Sessions : pc[x] = "select" => read[x] \in Keys
  /\ \A x \in Sessions : Reading(x) => read[x] \in SeatMap
  /\ \A x \in Sessions : pc[x] = "fill" => read[x].summary \in Versions

(* The seats are listed first, and the seats only go forward.              *)
ListedFirst ==
  /\ SummaryNeverOlder
  /\ \A x \in Sessions : pc[x] = "count" => read[x].seats <= version
  /\ \A x \in Sessions : pc[x] = "fill" => read[x].seats <= read[x].summary

CacheInv == TypeOK /\ FillersHaveRead /\ Ageing /\ ListedFirst

(* A key whose map may be Nil, one step later, keeps its type.             *)
LEMMA LaterIsCached ==
  ASSUME NEW entry \in Cached, version \in Versions
  PROVE  /\ Later(entry) \in Cached \cup {Nil}
         /\ Later(entry) # Nil =>
              /\ Later(entry).ttl = entry.ttl - 1
              /\ Later(entry).stale <= entry.stale + 1
              /\ Later(entry).seats = entry.seats
              /\ Later(entry).summary = entry.summary
<1>1. Staler(entry) \in 0..MaxStale /\ Staler(entry) <= entry.stale + 1
  BY CacheAssumption DEF Staler, Cached, MaxStale
<1>2. CASE entry.ttl = 1
  BY <1>2 DEF Later
<1>3. CASE entry.ttl # 1
  <2>1. Later(entry) = [entry EXCEPT !.ttl = @ - 1, !.stale = Staler(entry)]
    BY <1>3 DEF Later
  <2>2. entry.ttl - 1 \in 1..TTL
    BY <1>3, CacheAssumption DEF Cached
  <2>3. QED
    BY <1>1, <2>1, <2>2 DEF Cached
<1>4. QED
  BY <1>2, <1>3

(* The passing of time keeps the invariant: what gets staler either uses   *)
(* up its TTL or its read grows older.                                     *)
LEMMA TickKeepsInv ==
  ASSUME CacheInv, Tick
  PROVE  CacheInv'
<1> USE DEF CacheInv
<1>1. /\ version' = version /\ pc' = pc /\ scanned' = scanned
      /\ version \in Versions
  BY DEF Tick, TypeOK
<1>2. ASSUME NEW k \in Keys
      PROVE  /\ cache'[k] \in Cached \cup {Nil}
             /\ cache'[k] # Nil =>
                  /\ cache'[k].stale + cache'[k].ttl <= MaxStale
                  /\ cache'[k].seats <= cache'[k].summary
  <2>1. cache'[k] = IF cache[k] = Nil THEN Nil ELSE Later(cache[k])
    BY <1>2 DEF Tick
  <2>2. CASE cache[k] = Nil
    BY <2>1, <2>2
  <2>3. CASE cache[k] # Nil
    <3>1. cache[k] \in Cached /\ cache'[k] = Later(cache[k])
      BY <1>2, <2>1, <2>3 DEF TypeOK
    <3>2. /\ cache[k].stale + cache[k].ttl <= MaxStale
          /\ cache[k].seats <= cache[k].summary
      BY <1>2, <2>3 DEF Ageing, ListedFirst, SummaryNeverOlder
    <3>3. cache'[k] \in Cached \cup {Nil}
      BY <1>1, <3>1, LaterIsCached
    <3>4. ASSUME cache'[k] # Nil
          PROVE  /\ cache'[k].stale + cache'[k].ttl <= MaxStale
                 /\ cache'[k].seats <= cache'[k].summary
      <4>1. cache'[k] \in Cached
        BY <3>3, <3>4
      <4>2. /\ cache'[k].ttl = cache[k].ttl - 1
            /\ cache'[k].stale <= cache[k].stale + 1
            /\ cache'[k].seats = cache[k].seats
            /\ cache'[k].summary = cache[k].summary
        BY <1>1, <3>1, <3>4, LaterIsCached
      <4>3. QED
        BY <3>1, <3>2, <4>1, <4>2, CacheAssumption DEF Cached, MaxStale
    <3>5. QED
      BY <3>3, <3>4
  <2>4. QED
    BY <2>2, <2>3
<1>3. ASSUME NEW x \in Sessions, Reading(x)
      PROVE  /\ read'[x] \in SeatMap
             /\ read'[x].stale <= read'[x].age
             /\ read'[x].seats = read[x].seats
             /\ read'[x].summary = read[x].summary
  <2>1. read'[x] = [read[x] EXCEPT !.age = @ + 1, !.stale = Staler(read[x])]
    BY <1>3 DEF Tick
  <2>2. read[x] \in SeatMap /\ read[x].stale <= read[x].age /\ read[x].age < ReadBound
    BY <1>3 DEF Tick, FillersHaveRead, Ageing
  <2>3. Staler(read[x]) \in 0..MaxStale /\ Staler(read[x]) <= read[x].stale + 1
    BY <2>2, CacheAssumption DEF Staler, SeatMap, MaxStale
  <2>4. read[x].age + 1 \in 0..ReadBound
    BY <2>2, CacheAssumption DEF SeatMap
  <2>5. /\ read'[x] \in SeatMap
        /\ read'[x].age = read[x].age + 1
        /\ read'[x].stale = Staler(read[x])
        /\ read'[x].seats = read[x].seats
        /\ read'[x].summary = read[x].summary
    BY <2>1, <2>2, <2>3, <2>4 DEF SeatMap
  <2>6. Staler(read[x]) <= read[x].age + 1
    BY <2>2, <2>3, CacheAssumption DEF SeatMap, MaxStale
  <2>7. QED
    BY <2>5, <2>6
<1>4. ASSUME NEW x \in Sessions, ~Reading(x)
      PROVE  read'[x] = read[x]
  BY <1>4 DEF Tick
<1>5. \A x \in Sessions : Reading(x)' = Reading(x)
  BY <1>1 DEF Reading
<1>6. TypeOK'
  <2>1. cache' \in [Keys -> Cached \cup {Nil}]
    BY <1>2 DEF Tick
  <2>2. read' \in [Sessions -> SeatMap \cup Keys \cup {Nil}]
    BY <1>3, <1>4 DEF Tick, TypeOK
  <2>3. QED
    BY <1>1, <2>1, <2>2 DEF TypeOK
<1>7. FillersHaveRead'
  <2>1. \A x \in Sessions : pc[x] = "select" => read'[x] \in Keys
    BY <1>4 DEF FillersHaveRead, Reading
  <2>2. \A x \in Sessions : pc[x] = "fill" => read'[x].summary \in Versions
    BY <1>3 DEF FillersHaveRead, Reading
  <2>3. QED
    BY <1>1, <1>3, <1>5, <2>1, <2>2 DEF FillersHaveRead, Versions
<1>8. Ageing'
  BY <1>2, <1>3, <1>5 DEF Ageing, MaxStale
<1>9. ListedFirst'
  BY <1>1, <1>2, <1>3 DEF ListedFirst, SummaryNeverOlder, Reading
<1>10. QED
  BY <1>6, <1>7, <1>8, <1>9

(* A fill keeps the invariant: the new map has all of its TTL before it.   *)
LEMMA FillKeepsInv ==
  ASSUME CacheInv, NEW x \in Sessions, CacheSeatMap(x)
  PROVE  CacheInv'
<1> USE DEF CacheInv
<1> DEFINE entry == [seats |-> read[x].seats, summary |-> read[x].summary,
                     ttl |-> TTL, stale |-> read[x].stale]
<1>1. /\ pc[x] = "fill"
      /\ cache' = [cache EXCEPT ![read[x].key] = entry] \/ cache' = cache
      /\ read' = [read EXCEPT ![x] = Nil]
      /\ pc' = [pc EXCEPT ![x] = "idle"]
      /\ version' = version /\ scanned' = scanned
  BY DEF CacheSeatMap, Goto
<1>2. /\ read[x] \in SeatMap /\ read[x].stale <= read[x].age
      /\ read[x].summary \in Versions /\ read[x].seats <= read[x].summary
  BY <1>1 DEF FillersHaveRead, Ageing, ListedFirst, Reading
<1>3. /\ entry \in Cached /\ entry.stale + entry.ttl <= MaxStale
      /\ entry.seats <= entry.summary
  BY <1>2, CacheAssumption DEF Cached, SeatMap, MaxStale
<1>4. \A k \in Keys : cache'[k] = cache[k] \/ cache'[k] = entry
  BY <1>1 DEF TypeOK
<1>5. TypeOK'
  BY <1>1, <1>3, <1>4 DEF TypeOK
<1>6. \A y \in Sessions : pc'[y] \in {"select", "count", "fill"} =>
        pc'[y] = pc[y] /\ read'[y] = read[y]
  BY <1>1 DEF TypeOK
<1>7. FillersHaveRead'
  BY <1>6 DEF FillersHaveRead, Reading, Versions
<1>8. Ageing'
  BY <1>3, <1>4, <1>6 DEF Ageing, Reading, MaxStale
<1>9. ListedFirst'
  BY <1>1, <1>3, <1>4, <1>6 DEF ListedFirst, SummaryNeverOlder
<1>10. QED
  BY <1>5, <1>7, <1>8, <1>9

(* A read of the database keeps the invariant: what is listed first is     *)
(* never newer than what is counted.                                       *)
LEMMA ReadKeepsInv ==
  ASSUME CacheInv, NEW x \in Sessions, SelectSeats(x) \/ CountSeats(x)
  PROVE  CacheInv'
<1> USE DEF CacheInv
<1>1. version' = version /\ cache' = cache /\ scanned' = scanned /\ version \in Versions
  BY DEF SelectSeats, CountSeats, TypeOK
<1>2. \E m \in SeatMap, l \in {"count", "fill"} :
        /\ read' = [read EXCEPT ![x] = m]
        /\ pc' = [pc EXCEPT ![x] = l]
        /\ m.stale <= m.age
        /\ l = "count" => m.seats <= version
        /\ l = "fill" => m.summary \in Versions /\ m.seats <= m.summary
  <2>1. CASE SelectSeats(x)
    <3> DEFINE m == [key |-> read[x], seats |-> version, summary |-> Nil,
                     age |-> 0, stale |-> 0]
    <3>1. m \in SeatMap
      BY <1>1, <2>1, CacheAssumption
      DEF SelectSeats, FillersHaveRead, SeatMap, MaxStale
    <3>2. read' = [read EXCEPT ![x] = m] /\ pc' = [pc EXCEPT ![x] = "count"]
      BY <2>1 DEF SelectSeats, Goto
    <3>3. m.stale <= m.age /\ m.seats <= version
      BY <1>1, CacheAssumption DEF Versions
    <3>4. QED
      BY <3>1, <3>2, <3>3
  <2>2. CASE CountSeats(x)
    <3> DEFINE m == [read[x] EXCEPT !.summary = version]
    <3>1. /\ read[x] \in SeatMap /\ read[x].stale <= read[x].age
          /\ read[x].seats <= version
      BY <2>2 DEF CountSeats, FillersHaveRead, Ageing, ListedFirst, Reading
    <3>2. /\ m \in SeatMap /\ m.stale <= m.age
          /\ m.summary \in Versions /\ m.seats <= m.summary
      BY <1>1, <3>1 DEF SeatMap
    <3>3. read' = [read EXCEPT ![x] = m] /\ pc' = [pc EXCEPT ![x] = "fill"]
      BY <2>2 DEF CountSeats, Goto
    <3>4. QED
      BY <3>2, <3>3
  <2>3. QED
    BY <2>1, <2>2
<1>3. PICK m \in SeatMap, l \in {"count", "fill"} :
        /\ read' = [read EXCEPT ![x] = m]
        /\ pc' = [pc EXCEPT ![x] = l]
        /\ m.stale <= m.age
        /\ l = "count" => m.seats <= version
        /\ l = "fill" => m.summary \in Versions /\ m.seats <= m.summary
  BY <1>2
<1>4. TypeOK'
  BY <1>1, <1>3 DEF TypeOK
<1>5. /\ pc'[x] = l /\ read'[x] = m
      /\ \A y \in Sessions \ {x} : pc'[y] = pc[y] /\ read'[y] = read[y]
  BY <1>3 DEF TypeOK
<1>6. FillersHaveRead'
  BY <1>3, <1>5 DEF FillersHaveRead, Reading, Versions
<1>7. Ageing'
  BY <1>1, <1>3, <1>5 DEF Ageing, Reading, MaxStale
<1>8. ListedFirst'
  BY <1>1, <1>3, <1>5 DEF ListedFirst, SummaryNeverOlder
<1>9. QED
  BY <1>4, <1>6, <1>7, <1>8

(* The steps that neither read the seats nor put a map into the cache.     *)
LEMMA OtherStepsKeepInv ==
  ASSUME CacheInv, NEW x \in Sessions,
         \/ \E k \in Keys : MissSeatMap(x, k)
         \/ ChangeSeat(x) \/ ScanKeys(x) \/ DeleteKeys(x)
         \/ InvalidationFails(x) \/ CommitChange(x) \/ Abandon(x)
  PROVE  CacheInv'
<1> USE DEF CacheInv, Goto
<1>1. \A k \in Keys : cache'[k] = cache[k] \/ cache'[k] = Nil
  BY DEF MissSeatMap, ChangeSeat, ScanKeys, DeleteKeys,
         InvalidationFails, CommitChange, Abandon
<1>2. cache' \in [Keys -> Cached \cup {Nil}]
  BY DEF MissSeatMap, ChangeSeat, ScanKeys, DeleteKeys,
         InvalidationFails, CommitChange, Abandon, TypeOK
<1>3. version' \in Versions /\ (version' = version \/ version' = version + 1)
  BY CacheAssumption
  DEF MissSeatMap, ChangeSeat, ScanKeys, DeleteKeys,
      InvalidationFails, CommitChange, NewVersion, Abandon, TypeOK, Versions
<1>4. scanned' \in [Sessions -> SUBSET Keys]
  BY DEF MissSeatMap, ChangeSeat, ScanKeys, MatchingKeys, DeleteKeys,
         InvalidationFails, CommitChange, Abandon, TypeOK
<1>5. \E l \in {"idle", "select", "scan", "delete", "missed", "commit"},
         r \in Keys \cup {Nil, read[x]} :
        /\ pc' = [pc EXCEPT ![x] = l]
        /\ read' = [read EXCEPT ![x] = r]
        /\ l = "select" => r \in Keys
  <2>1. read = [read EXCEPT ![x] = read[x]]
    BY DEF TypeOK
  <2>2. CASE \E k \in Keys : MissSeatMap(x, k)
    BY <2>2 DEF MissSeatMap
  <2>3. CASE Abandon(x)
    BY <2>3 DEF Abandon
  <2>4. CASE ChangeSeat(x) \/ ScanKeys(x) \/ DeleteKeys(x)
             \/ InvalidationFails(x) \/ CommitChange(x)
    BY <2>1, <2>4
    DEF ChangeSeat, ScanKeys, DeleteKeys, InvalidationFails, CommitChange
  <2>5. QED
    BY <2>2, <2>3, <2>4
<1>6. PICK l \in {"idle", "select", "scan", "delete", "missed", "commit"},
           r \in Keys \cup {Nil, read[x]} :
        /\ pc' = [pc EXCEPT ![x] = l]
        /\ read' = [read EXCEPT ![x] = r]
        /\ l = "select" => r \in Keys
  BY <1>5
<1>7. TypeOK'
  BY <1>2, <1>3, <1>4, <1>6 DEF TypeOK
<1>8. /\ pc'[x] = l /\ read'[x] = r
      /\ \A y \in Sessions \ {x} : pc'[y] = pc[y] /\ read'[y] = read[y]
  BY <1>6 DEF TypeOK
<1>9. FillersHaveRead'
  BY <1>6, <1>8 DEF FillersHaveRead, Reading, Versions
<1>10. Ageing'
  BY <1>1, <1>8 DEF Ageing, Reading, MaxStale
<1>11. ASSUME NEW y \in Sessions, pc'[y] = "count"
       PROVE  read'[y].seats <= version'
  <2>1. y # x /\ pc[y] = "count" /\ read'[y] = read[y]
    BY <1>8, <1>11
  <2>2. read[y].seats <= version /\ read[y] \in SeatMap
    BY <2>1 DEF ListedFirst, FillersHaveRead, Reading
  <2>3. QED
    BY <1>3, <2>1, <2>2, CacheAssumption DEF SeatMap, TypeOK, Versions
<1>12. ListedFirst'
  BY <1>1, <1>8, <1>11 DEF ListedFirst, SummaryNeverOlder
<1>13. QED
  BY <1>7, <1>9, <1>10, <1>12

(* A task changes the seats and nothing else.                              *)
LEMMA TaskKeepsInv ==
  ASSUME CacheInv, TaskChange
  PROVE  CacheInv'
<1> USE DEF CacheInv, TaskChange, NewVersion
<1>1. TypeOK'
  BY CacheAssumption DEF TypeOK, Versions
<1>2. FillersHaveRead' /\ Ageing'
  BY DEF FillersHaveRead, Ageing, Reading, MaxStale, Versions
<1>3. ASSUME NEW y \in Sessions, pc[y] = "count"
      PROVE  read[y].seats <= version'
  BY <1>3, CacheAssumption
  DEF ListedFirst, FillersHaveRead, Reading, SeatMap, TypeOK, Versions
<1>4. ListedFirst'
  BY <1>3 DEF ListedFirst, SummaryNeverOlder
<1>5. QED
  BY <1>1, <1>2, <1>4

(* The invariant holds of the empty cache.                                 *)
LEMMA InvHoldsInitially == Init => CacheInv
  BY CacheAssumption
  DEF Init, CacheInv, TypeOK, FillersHaveRead, Ageing, ListedFirst,
      SummaryNeverOlder, Reading, Versions

(* Every step keeps it.                                                    *)
LEMMA InvIsKept == CacheInv /\ [Next]_vars => CacheInv'
<1> SUFFICES ASSUME CacheInv, [Next]_vars
             PROVE  CacheInv'
  OBVIOUS
<1>1. CASE Tick
  BY <1>1, TickKeepsInv
<1>2. CASE TaskChange
  BY <1>2, TaskKeepsInv
<1>3. ASSUME NEW x \in Sessions, Step(x)
      PROVE  CacheInv'
  BY <1>3, FillKeepsInv, ReadKeepsInv, OtherStepsKeepInv DEF Step
<1>4. CASE UNCHANGED vars
  BY <1>4
  DEF vars, CacheInv, TypeOK, FillersHaveRead, Ageing, ListedFirst,
      SummaryNeverOlder, Reading
<1>5. QED
  BY <1>1, <1>2, <1>3, <1>4 DEF Next

(* The inductive invariant holds in every reachable state.                 *)
LEMMA CacheInvariance == Spec => []CacheInv
  BY InvHoldsInitially, InvIsKept, PTL DEF Spec

(* Every variable keeps its type: no map outlives its TTL.                 *)
THEOREM CacheTypes == Spec => []TypeOK
<1>1. CacheInv => TypeOK
  BY DEF CacheInv
<1>2. QED
  BY <1>1, CacheInvariance, PTL

(* A cached list of seats was current less than the TTL and the time of    *)
(* one read ago, although requests invalidate before they commit, tasks do *)
(* not invalidate at all, and late fills put old maps back.                *)
THEOREM StalenessIsBounded == Spec => []BoundedStaleness
<1>1. CacheInv => BoundedStaleness
  <2> SUFFICES ASSUME CacheInv, NEW k \in Keys, cache[k] # Nil
               PROVE  cache[k].stale < TTL + ReadBound
    BY DEF BoundedStaleness
  <2>1. cache[k] \in Cached /\ cache[k].stale + cache[k].ttl <= TTL + ReadBound
    BY DEF CacheInv, TypeOK, Ageing, MaxStale
  <2>2. QED
    BY <2>1, CacheAssumption DEF Cached, MaxStale
<1>2. QED
  BY <1>1, CacheInvariance, PTL

(* The summary of a cached map is read by another statement than its list, *)
(* and is never the older of the two.                                      *)
THEOREM SummariesAreNewer == Spec => []SummaryNeverOlder
<1>1. CacheInv => SummaryNeverOlder
  BY DEF CacheInv, ListedFirst
<1>2. QED
  BY <1>1, CacheInvariance, PTL
===============================================================================
