----------------------------- MODULE SeatMapCache -----------------------------
(***************************************************************************)
(* The seat maps of one flight in Redis (SeatService.get_seat_map and      *)
(* _invalidate_seat_cache): one key for the whole map and one per class.   *)
(*                                                                         *)
(* A state of the flight's seats is only a number here: how many changes   *)
(* have been committed.  A map has two such numbers, as its list of seats  *)
(* and its summary come from two statements at READ COMMITTED.  Time       *)
(* passes in steps; a key expires TTL steps after it was set.              *)
(***************************************************************************)
EXTENDS Integers

CONSTANTS
  Keys,        \* seat_map:{flight} and seat_map:{flight}:{class}
  WholeMap,    \* the former
  Sessions,    \* requests under way
  TTL,         \* settings.cache_ttl_seconds
  ReadBound,   \* bound: the time a request takes from SELECT to SETEX
  MaxChanges,  \* bound: changes of seats
  Nil

ASSUME CacheAssumption ==
  /\ WholeMap \in Keys
  /\ TTL \in Nat \ {0} /\ ReadBound \in Nat /\ MaxChanges \in Nat
  /\ Nil \notin Keys

VARIABLES
  version,  \* the committed state of the seats
  cache,    \* Redis: the map under each key
  pc,       \* where each session is
  read,     \* the seat map a reader got from the database, for a key
  scanned   \* the keys an invalidation has found

vars == <<version, cache, pc, read, scanned>>

(* stale counts, for the properties, the time since the listed seats were  *)
(* current: it stops at MaxStale.                                          *)
MaxStale == TTL + ReadBound

Versions == 0..MaxChanges

Cached ==
  [seats : Versions, summary : Versions, ttl : 1..TTL, stale : 0..MaxStale]

SeatMap ==
  [key : Keys, seats : Versions, summary : Versions \cup {Nil},
   age : 0..ReadBound, stale : 0..MaxStale]

ASSUME NilAssumption ==
  /\ Nil \notin Cached
  /\ Nil \notin SeatMap
  /\ Nil \notin Versions

TypeOK ==
  /\ version \in Versions
  /\ cache \in [Keys -> Cached \cup {Nil}]
  /\ pc \in [Sessions -> {"idle", "select", "count", "fill",
                          "scan", "delete", "missed", "commit"}]
  /\ read \in [Sessions -> SeatMap \cup Keys \cup {Nil}]
  /\ scanned \in [Sessions -> SUBSET Keys]

Init ==
  /\ version = 0
  /\ cache = [k \in Keys |-> Nil]
  /\ pc = [x \in Sessions |-> "idle"]
  /\ read = [x \in Sessions |-> Nil]
  /\ scanned = [x \in Sessions |-> {}]

Goto(x, label) == pc' = [pc EXCEPT ![x] = label]

(***************************************************************************)
(* get_seat_map.  A hit changes nothing; after a miss the map is read from *)
(* the database and cached, unless Redis fails, which is only logged.      *)
(***************************************************************************)
MissSeatMap(x, k) ==
  /\ pc[x] = "idle"
  /\ cache[k] = Nil
  /\ read' = [read EXCEPT ![x] = k]
  /\ Goto(x, "select")
  /\ UNCHANGED <<version, cache, scanned>>

(* The seats are those loaded with the flight: the SELECT that follows     *)
(* lists them, but returns the objects the session has.                    *)
SelectSeats(x) ==
  /\ pc[x] = "select"
  /\ read' = [read EXCEPT ![x] =
       [key |-> read[x], seats |-> version, summary |-> Nil, age |-> 0, stale |-> 0]]
  /\ Goto(x, "count")
  /\ UNCHANGED <<version, cache, scanned>>

(* Mutant: the counts are read before the seats. *)
CountSeatsFirst(x) ==
  /\ pc[x] = "count"
  /\ read' = [read EXCEPT ![x].summary = read[x].seats, ![x].seats = version]
  /\ Goto(x, "fill")
  /\ UNCHANGED <<version, cache, scanned>>

CountSeats(x) ==
  /\ pc[x] = "count"
  /\ read' = [read EXCEPT ![x].summary = version]
  /\ Goto(x, "fill")
  /\ UNCHANGED <<version, cache, scanned>>

CacheSeatMap(x) ==
  /\ pc[x] = "fill"
  /\ \/ cache' = [cache EXCEPT ![read[x].key] =
          [seats |-> read[x].seats, summary |-> read[x].summary,
           ttl |-> TTL, stale |-> read[x].stale]]
     \/ UNCHANGED cache
  /\ read' = [read EXCEPT ![x] = Nil]
  /\ Goto(x, "idle")
  /\ UNCHANGED <<version, scanned>>

(***************************************************************************)
(* hold_seat, confirm_seat and release_seat: the change is flushed, then   *)
(* the cache is invalidated, then get_db_session commits.                  *)
(***************************************************************************)
ChangeSeat(x) ==
  /\ pc[x] = "idle"
  /\ version < MaxChanges
  /\ Goto(x, "scan")
  /\ UNCHANGED <<version, cache, read, scanned>>

(* The keys that match seat_map:{flight_id}*. *)
MatchingKeys == {k \in Keys : cache[k] # Nil}

ScanKeys(x) ==
  /\ pc[x] = "scan"
  /\ scanned' = [scanned EXCEPT ![x] = MatchingKeys]
  /\ Goto(x, "delete")
  /\ UNCHANGED <<version, cache, read>>

DeleteKeys(x) ==
  /\ pc[x] = "delete"
  /\ cache' = [k \in Keys |-> IF k \in scanned[x] THEN Nil ELSE cache[k]]
  /\ Goto(x, "commit")
  /\ UNCHANGED <<version, read, scanned>>

(* Redis fails, which is logged; the request goes on. *)
InvalidationFails(x) ==
  /\ pc[x] \in {"scan", "delete"}
  /\ scanned' = [scanned EXCEPT ![x] = {}]
  /\ Goto(x, "missed")
  /\ UNCHANGED <<version, cache, read>>

NewVersion ==
  /\ version < MaxChanges
  /\ version' = version + 1

CommitChange(x) ==
  /\ pc[x] \in {"missed", "commit"}
  /\ NewVersion
  /\ scanned' = [scanned EXCEPT ![x] = {}]
  /\ Goto(x, "idle")
  /\ UNCHANGED <<cache, read>>

(* The commit fails, or the client or the process is gone. *)
Abandon(x) ==
  /\ pc[x] # "idle"
  /\ read' = [read EXCEPT ![x] = Nil]
  /\ scanned' = [scanned EXCEPT ![x] = {}]
  /\ Goto(x, "idle")
  /\ UNCHANGED <<version, cache>>

(* expire_seat_hold and cleanup_expired_holds: the tasks make a SeatService *)
(* without a Redis client, so nothing is invalidated.                      *)
TaskChange ==
  /\ NewVersion
  /\ UNCHANGED <<cache, pc, read, scanned>>

(***************************************************************************)
(* Time                                                                    *)
(***************************************************************************)
Staler(entry) ==
  IF entry.seats = version \/ entry.stale = MaxStale THEN entry.stale
  ELSE entry.stale + 1

(* Mutant: SET instead of SETEX. *)
LaterForEver(entry) == [entry EXCEPT !.stale = Staler(entry)]

(* Mutant: a key outlives its last second. *)
LaterOnceMore(entry) ==
  IF entry.ttl = 0 THEN Nil
  ELSE [entry EXCEPT !.ttl = @ - 1, !.stale = Staler(entry)]

(* A cached map one step later. *)
Later(entry) ==
  IF entry.ttl = 1 THEN Nil
  ELSE [entry EXCEPT !.ttl = @ - 1, !.stale = Staler(entry)]

Reading(x) == pc[x] \in {"count", "fill"}

Tick ==
  /\ \A x \in Sessions : Reading(x) => read[x].age < ReadBound
  /\ cache' = [k \in Keys |-> IF cache[k] = Nil THEN Nil ELSE Later(cache[k])]
  /\ read' = [x \in Sessions |->
       IF Reading(x)
       THEN [read[x] EXCEPT !.age = @ + 1, !.stale = Staler(read[x])]
       ELSE read[x]]
  /\ UNCHANGED <<version, pc, scanned>>

Step(x) ==
  \/ \E k \in Keys : MissSeatMap(x, k)
  \/ SelectSeats(x)
  \/ CountSeats(x)
  \/ CacheSeatMap(x)
  \/ ChangeSeat(x)
  \/ ScanKeys(x)
  \/ DeleteKeys(x)
  \/ InvalidationFails(x)
  \/ CommitChange(x)
  \/ Abandon(x)

Next == Tick \/ TaskChange \/ \E x \in Sessions : Step(x)

Spec == Init /\ [][Next]_vars

(* Time passes and readers go on: the properties need no more of Redis     *)
(* than that keys expire, and nothing of the invalidations.                *)
FairSpec ==
  /\ Spec
  /\ WF_vars(Tick)
  /\ \A x \in Sessions : WF_vars(CountSeats(x) \/ CacheSeatMap(x))

(***************************************************************************)
(* Properties                                                              *)
(***************************************************************************)

(* ARCHITECTURE.md 5.3, "Cache may be up to 30s stale": a cached list was  *)
(* current less than its TTL and the time of one read ago, whatever fills, *)
(* invalidations and commits race.  A fill may put an old map back after   *)
(* the invalidation meant for it; expiry alone bounds its life.            *)
BoundedStaleness ==
  \A k \in Keys : cache[k] # Nil => cache[k].stale < TTL + ReadBound

(* The summary of a cached map may count seats that changed after they     *)
(* were listed, but is never older than the list: what bounds the age of   *)
(* the list (BoundedStaleness) bounds the age of both.                     *)
SummaryNeverOlder ==
  \A k \in Keys : cache[k] # Nil => cache[k].seats <= cache[k].summary

(* List and summary both: a map that was torn is gone, too. *)
Current(entry) ==
  entry = Nil \/ (entry.seats = version /\ entry.summary = version)

(* ARCHITECTURE.md 5.3, "eventual consistency": when the seats change no   *)
(* more, the cache comes to show them as they are and stays that way.      *)
EventuallyCurrent == <>[](\A k \in Keys : Current(cache[k]))
===============================================================================
