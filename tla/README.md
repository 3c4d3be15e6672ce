# Verification of the airline check-in service

TLA+ models, model-checking runs and machine-checked proofs for the digital
check-in backend in `src/` (FastAPI, async SQLAlchemy on PostgreSQL, Redis,
Celery).  Source paths below are relative to `src/src/` unless they name a
document at the top of `src/`.

## 1. The system

| part | state it keeps | operations | interacts with |
|---|---|---|---|
| seats (`domains/seats`) | rows of `seats` (status, holder, deadline, confirmer) and `seat_state_history` | seat map, get, hold, confirm, release; expire one hold; clean up expired holds | row locks, seat-map cache, check-in |
| background tasks (`domains/seats/tasks.py`, `workers/celery_app.py`) | messages in the broker, beat schedule | `expire_seat_hold` with a countdown, `cleanup_expired_holds` every 30 s | seats |
| check-in (`domains/checkin`) | rows of `checkins`, one per passenger and flight | start, get, complete; set-waiting and resume (not routed) | seats, baggage, tasks |
| baggage (`domains/baggage`) | rows of `baggage` (weight, fee, paid) | add, list, mark paid | check-in status |
| payments (`domains/payments`) | rows of `payments` | process a payment | baggage, check-in status |
| seat-map cache (inside `domains/seats/service.py`; `cache/seat_map_cache.py` is a second, unused one) | Redis strings with a TTL | read, fill, invalidate by pattern | seats |
| rate limiter (`common/middleware/rate_limiter.py`) | Redis sorted sets per client and path | count and admit a request | every request |
| sessions (`config/database.py`) | one transaction and one identity map per request or task | commit at the end, rollback on any exception | everything that touches the database |
| flights, passengers | read-mostly tables | create, get, search | check-in validates against them |

Every HTTP request and every task has a database session of its own.  Sessions
run concurrently: requests interleave at each `await`, tasks run in other
processes.  What can interfere is decided by three mechanisms, and all of the
hard behaviour of this code comes from how they meet:

* PostgreSQL at READ COMMITTED: a statement reads committed rows; a write is
  private until COMMIT; a row lock taken by `SELECT ... FOR UPDATE` (or by an
  UPDATE) lasts until the transaction ends.  `hold`, `confirm` and `release` use
  NOWAIT, the expire task waits, the cleanup uses SKIP LOCKED.
* SQLAlchemy's identity map: a SELECT that meets an object the session already
  has returns it as it was loaded, also with FOR UPDATE; nothing here asks for
  `populate_existing`.  A locked read is fresh only if it is the session's first
  read of that row.
* SQLAlchemy's unit of work: a flush sends an UPDATE of the columns whose value
  changed since loading, so a write from a stale object mixes with the row.

### Hard behaviours

* `confirm_seat` and `complete_checkin` test an object read before the lock.
* `start_checkin` loads the flight, and with it (eager `selectin` loading) all
  the flight's seats, before it locks the one it holds.
* Expiry races release, confirmation and a new hold; an expire task left over
  from one hold can run during the next one.
* A check-in row is never locked; its status is written by three services.
* Baggage totals and payment amounts are computed from unlocked reads.
* Cache invalidation precedes the commit; tasks do not invalidate at all.
* A process may die between any two statements; tasks are redelivered
  (`acks_late`), so they must be idempotent.
* Three different notions of "expired": `<= now` in `expire_hold`, `< now` in the
  cleanup and in `confirm_seat`.

### What makes each part correct

* seats: at most one holder, CONFIRMED is final and keeps its owner, a hold ends
  only by its holder or when due, every hold ends, the history is a chain that
  ends in the present status, columns agree with the status.
* check-in: the hold and the check-in appear together or not at all; COMPLETED
  only with the seat confirmed for that passenger; COMPLETED is final.
* baggage and payments: fees equal the excess of the total weight; a completed
  check-in has no unpaid fee; money taken equals fees paid.
* cache: a reader never sees a seat map that went out of date longer than the
  TTL ago, and finally sees the seats as they are.
* rate limiter: at most the limit of requests in any window.

## 2. The modules

The models follow one idea: **a step runs from one point where another process
can interfere to the next**.  What a session does while it owns a row lock, up to
its COMMIT, nobody else can see; so `get_by_id_for_update`, the test and the
flush are one step, while an unlocked read, a wait for a lock, and the COMMIT
are steps of their own.

```
SeatRows --- SeatBooking --+-- SeatRequirements --+-- SeatBookingProofs -- SeatRefinementProofs
                           |     | INSTANCE       |                              |
                           |   SeatLifecycle      +-- MCSeatBooking              |
                           |                                                     |
                           +-- CheckIn -- CheckInRequirements --+-- CheckInProofs (with both)
                                  (with SeatRequirements)       |
                                                                +-- CheckInLiveness -- MCCheckIn
                                                                |
                                                                +-- CheckInFees --+-- MCCheckInFees
                                              INSTANCE              |             |
BaggagePayment --+-- (Fees) ----------------------------------------+             +-- CheckInFeesProofs
                 |                                                                      |
                 +-- BaggageRequirements --+-- MCBaggagePayment                         |
                                           +-- BaggageProofs --- INSTANCE (Money) ------+
SeatMapCache --+-- SeatMapCacheProofs
               +-- MCSeatMapCache
RateLimiter --+-- RateLimiterProofs
              +-- MCRateLimiter
SumTheorems: extended by BaggageProofs, CheckInFeesProofs and RateLimiterProofs
```

| module | what it models | from |
|---|---|---|
| `SeatRows` | the rows of `seats` and `seat_state_history`, what each operation assigns, what a partial UPDATE does to a row (`UpdatedRow`), when a hold is over (`Due`, `Overdue`) | `domains/seats/models.py`, `repository.py` |
| `SeatBooking` | sessions that hold, confirm, release, expire and clean up; row locks, identity map, commit, rollback, crash, clock | `domains/seats/service.py`, `repository.py`, `tasks.py`, `config/database.py` |
| `SeatLifecycle` | the abstract specification: AVAILABLE, HELD, CONFIRMED, each with one owner, as `PRD.md` 2.1 draws it | `PRD.md`, through `SeatRequirements` |
| `SeatRequirements` | invariants, step properties and refinement mapping of `SeatBooking` | requirements from `PRD.md`, `WORKFLOW_DESIGN.md` |
| `CheckIn` | `start_checkin` and `complete_checkin` in the same sessions and transactions as the seats, the unique index on passenger and flight, the scheduled expire task | `domains/checkin/service.py`, `domains/seats/tasks.py` |
| `CheckInRequirements` | what check-in must do, the seat properties again over the larger system | `PRD.md` |
| `CheckInLiveness` | what must happen in the end, the fairness it rests on and the queue the tasks are sent to | `workers/celery_app.py`, `domains/seats/tasks.py` |
| `CheckInFees` | the composition: one traveller's check-in written by `start_checkin`, `complete_checkin`, `add_baggage` and `process_payment`, on a seat that runs out, is released, or goes to another passenger meanwhile; the refinement mapping to `BaggagePayment` | `domains/checkin`, `domains/baggage`, `domains/payments` together |
| `BaggagePayment` | `add_baggage`, `process_payment` and the status part of `complete_checkin` for one check-in | `domains/baggage/service.py`, `domains/payments/service.py` |
| `BaggageRequirements` | what fees, payments and status must agree on; a history variable that records whether two requests have overlapped | `PRD.md` |
| `SeatMapCache` | the cached maps of one flight: the two reads of a map, fill, invalidation by pattern, expiry, failures; its properties | `domains/seats/service.py` |
| `RateLimiter` | the limit and the key of a path, the sorted set of one client and key; its properties | `common/middleware/rate_limiter.py` |
| `SumTheorems` | no part of the code: what sums over finite sets of numbers obey, and that the folds of the community modules compute them | |
| `SeatBookingProofs`, `SeatRefinementProofs`, `CheckInProofs`, `BaggageProofs`, `CheckInFeesProofs`, `SeatMapCacheProofs`, `RateLimiterProofs` | theorems and proofs | the modules above |
| `MC*` | symmetry of the model values, nothing else | |

Operators that begin with "Mutant:" in their comment are variants of the
operator that follows, wrong in the way a plausible bug would be.  No
specification uses them; each shows that some property does depend on the code
being as it is (`PROJECT.json`, "mutants").

### How state and actions correspond to the code

*Seats.*  `seat[s]` is the committed row, `dirty[x][s]` the row version and the
history entry session `x` has flushed but not committed, `lock[s]` the owner of
the row lock, `loaded[x][s]` the object in the session's identity map **as it was
loaded**.  `Read` gives the loaded object if there is one, the committed row
otherwise; a flush mixes the changed columns into the row (`UpdatedRow`).  Only
the last history entry of a seat is kept: the properties relate it to the seat
before and after each step.  `confirm_seat` is `ConfirmRead` and, later,
`ConfirmSeat` or `ExpireHold`; `pc` says which.  `Refused` is NOWAIT meeting a
lock; `ExpireHold` is disabled while the row is locked (it waits); the cleanup's
batch leaves locked rows out (SKIP LOCKED).  Everything that raises goes to
"abort", and `Rollback` ends the session.

*Check-in.*  Three more labels for `start_checkin` (load, hold, file) and four
for `complete_checkin` (open, look at the seat, recheck inside `confirm_seat`,
complete).  Loading the flight, or the check-in with its flight, loads all the
flight's seats, because every relationship is `lazy="selectin"`; this is what
makes the later locked reads stale.  `filed[x]` is the uncommitted check-in row:
an INSERT of the same key, or an UPDATE of the row, waits for it.  `timers[s]` is
the earliest expire message of a seat; a message is never used up, since it may
be redelivered.

*Baggage and payments.*  One check-in, since no operation touches two.  A
request opens the check-in and, in a later statement, its bags (`opened`,
`seen`), decides on these objects and writes; the UPDATE of the check-in's
status waits for another uncommitted one and is sent only if the status differs
from the one loaded.

*Check-in with fees.*  The sessions of `CheckIn` get the steps of the two fee
services; "add", "update", "pay" and "gateway" are their labels.  `opened[x]` and
`filed[x]` are shared with check-in: it is one row, and whoever writes it waits in
`CheckInRowFree`.  For `BaggagePayment` a session is at work while it has the
traveller's check-in open; `complete_checkin` stands there at its UPDATE all the
time it looks at the seat, waits for it and confirms it (`FeesPc`,
`StatusWritten`).  Other passengers hold, confirm and release the seat; their
check-ins and their fees are other rows.

*Cache.*  A state of the seats is a number, the count of committed changes.  A
seat map has two: that of its list of seats, which are the objects loaded with
the flight (the SELECT of the seats returns those), and that of its summary,
counted by a later statement.  A cached entry also has its remaining life and,
only for the properties, how long ago its list stopped being current.

*Rate limiter.*  A path is a sequence of segments, without the leading `/api/v1`
that every path and pattern has.  One behaviour is about one key: sets of other
keys are other sets, so `key` is chosen in the initial state and the requests are
those of all paths with that key.  The members of the set are seconds, as in the
code.  `stamp[r]` is the clock a request read before the pipeline's await,
`limit[r]` the limit found for its own path.  `allowed` (seconds) and `asked` (counts
that stop at `Burst`) are for the properties only.

## 3. What the runs check

Eight runs pass.  With them every action of every specification is taken.

| run | instance | shows |
|---|---|---|
| `seats_concurrent` | 2 seats, 2 passengers, 2 sessions, clock to 4 | holds, releases and expiries are decided on the current row; columns and history agree with the status; a hold is only given on a free seat, CONFIRMED is final, a hold ends lawfully; a seat passes from one passenger to another only by the confirmation of a former holder, and only entries of confirmations can misstate the status before |
| `checkin_concurrent` | 1 seat, 2 passengers, 2 sessions, clock to 4 | hold and check-in appear together, check-ins are never created anew, moved or reopened; only a start whose new check-in commits puts a hold on a seat that is taken; holds are honoured by tasks, although stale objects are written |
| `checkin_serial` | 2 seats, 2 passengers, 1 session | seats with check-ins implement `SeatLifecycle`, the history is a chain, a completed check-in has a confirmed seat |
| `checkin_liveness` | 1 seat, 1 passenger, 2 sessions, clock to 2, fairness | every request and task ends, and no hold lasts for ever, although any of them may crash, expire tasks get lost and the cleanup skips locked rows - provided a worker consumes the tasks' queue |
| `checkin_fees` | 1 seat, 2 passengers of whom one travels, 1 bag over the limit, 2 sessions, clock to 2 | seen from status, bags and payments, check-in with its seat is what `BaggagePayment` takes it for; no cycle of waits for seat rows and check-in rows ever closes; a completed check-in is taken back only by a fee request that had opened it before |
| `baggage` | 3 bags of 15 or 30 kg, 3 sessions | whatever the interleaving: a check-in that waits for a payment can be paid for, never overcharged, no bag counts as paid that no payment covers, paid fees stay paid.  Until two requests overlap: fees match the excess, nobody goes on in debt, money taken equals fees paid, COMPLETED is final |
| `cache` | 2 keys, 2 requests, 3 changes, TTL 2, fairness | the list of a cached map was current less than TTL plus one read ago, whatever races, and its summary is no older than the list; the cache becomes and stays current once the seats stop changing |
| `limiter` | limits 2, 3 and 4, window 3, clock from 4 to 7, one second of delay | requests of one key pass in at most as many different seconds of any window as the key's limit; nobody is refused who did not ask more often than the limit of the path |

Four runs find a disagreement between the code and what its documents say; each
checks one property, and the trace TLC prints is a schedule of requests.

| run | the text | what happens |
|---|---|---|
| `seats_confirmed_once` | PRD.md:70 | `confirm_seat` decides on an object read before the lock and overwrites another passenger's confirmation |
| `checkin_one_holder` | PRD.md:69 | `start_checkin` holds a seat that has been given away since it loaded the flight |
| `checkin_completed_owns_seat` | PRD.md:33 | `complete_checkin` accepts a seat confirmed for somebody else; no concurrency is needed |
| `baggage_paid_once` | PRD.md:38 | two payments for the same bags are both taken |

Comparing `seats_concurrent` with `checkin_one_holder` is instructive: `OneHolder`
holds for direct holds because the locked read is the session's first read of the
seat, and it is proved; `start_checkin` reads the seat before, and loses it.

### Bounds, and why they are enough

* Seats do not interact except in a cleanup (several rows, one transaction) and
  in `start_checkin` (several rows loaded); two seats show both.
* Two sessions show every conflict between two steps: while one of them is
  between a read and a write, the other may run any number of transactions from
  beginning to end.  Every safety property is proved for any number of sessions.
* Two passengers: the one who has a seat and the one who takes it.
* `HoldDuration = 1` and a clock to 4 give two holds in a row, each with an instant
  before, at and after its deadline, where the three notions of "expired" differ.
  A hold starts only if it runs out before the clock stops (`TimeForHold`), so the
  end of the clock never keeps a hold alive.
* Weights of 15 and 30 kg against a limit of 25: below, across and above the
  limit in every order; three bags let debt, payment and new debt follow each
  other, and three sessions let two payments and a new bag race.  (The run was
  also made with four bags and two sessions.)
* `checkin_fees` has one bag, always above the limit, and a clock to 2, which is one
  hold that can run out: what several bags do to each other is the business of
  `BaggagePayment`, which this run shows to be implemented.  A clock to 3 passes,
  too, in two and a half minutes.
* A start that reaches its hold when no time for one is left is given up
  (`HoldForCheckIn`): the bound of the clock ends it, as a crash could.
* `checkin_liveness` has one passenger: a session waits for locks and rows, whoever
  asked for them, and the passenger's own requests compete in every way.
* Three changes of seats and a TTL of 2: a map can be filled, invalidated and
  filled again by an older reader before it expires.
* A window of 3 seconds with limits below, at and above it, as in the code (10 and
  20, then 100, within 60 seconds): a limit no smaller than the seconds that can
  be in the set never refuses (`BurstAssumption`).
  A request reaches Redis at most one second after it read the clock.
  `SecondsWithinLimit` allows one second above the limit for every second of delay
  after the first (`Slack`, which is 0 in this run): the key expires by Redis's clock
  and a later request removes members by the clock it has read, so a request that
  read the clock before no longer meets the oldest seconds of its own window.  With a delay of 2 TLC finds that
  second.  The theorem covers every delay.
* Deadlock is checked in every run.

### Fairness

Stated in `CheckInFairness` (`CheckInLiveness`) and `FairSpec` (`SeatMapCache`).

* A request that has begun goes on to its next statement (weak fairness): the
  event loop runs every ready coroutine.  Starting a request is never fair.
* Waiting for a row lock or for another transaction's row is strongly fair:
  PostgreSQL queues the waiters.
* Commits that write are strongly fair: crashes happen, but not
  to every commit of a session that keeps trying.
* The cleanup is strongly fair per seat: beat starts it every 30 seconds without
  end, so it meets an expired seat unlocked if the seat is unlocked again and
  again.  This holds only where a worker consumes the queue "seats" the tasks are
  routed to (`QueueAssumption`; see section 6: as `docker-compose.yml:94` starts the
  worker, none does), and where not every run of the cleanup fails, although each
  opens a new event loop on the connections of one pool (`seats/tasks.py:13-19`).
* Nothing is assumed of expire tasks being delivered, nor of invalidations
  reaching Redis: `NoHoldForever` and `EventuallyCurrent` hold without.

## 4. What is proved

TLAPS checks every proof for all values of the constants, under the assumptions
named in the modules.  These are of three kinds: NULL is no passenger, session, row
or status (`NilAssumption`, `SessionAssumption`, `NullAssumption`, `ChangeAssumption`,
`CheckInRowAssumption`, the last lines of `FeesAssumption`); durations, limits and fees
are numbers of the kind the settings and schemas allow (`TimeAssumption`,
`WeightAssumption`, `CacheAssumption`, `LimiterAssumption`: limits above 1, where the code
has 10 and more); ids of bags are finitely many, and words of a path are no ids
(`BagsAssumption`, `PathAssumption`).  `BurstAssumption` says that the history of the
limiter's model counts far enough.  `QueueAssumption` is of none of these kinds: only
the liveness of check-in rests on it, and no proof.

Every invariant and action property of the passing runs, and every refinement they
check, is stated by a theorem; only what needs fairness is not.

**Seats** (`SeatBookingProofs`).  The invariants and step properties are not
inductive: that a commit does the right thing depends on what the session decided
when it wrote, and on nobody having changed the row since.  `SeatInv` says so:
it adds to the types, for each session (`SessionInv`), that who wrote a row owns its
lock, that a session which waits or has only read owns nothing, that loaded
objects are well-formed rows, and that whatever is going to be committed is
`Decided`: a new hold of the free seat or the end of the present hold, decided on
the row as it is now, or a confirmation, which assigns all columns and so is
right whatever it was decided on, of a seat its passenger held when `confirm_seat`
read it.  From `SeatInv`, which no run has as a property of its own, follow type
correctness, `RowShape`, `AuditEndsInStatus`, `DecidedOnCurrentRow` and, as properties
of steps, `OneHolder`, `ConfirmedIsFinal` and `HoldsAreHonoured`; for the last three
one lemma (`CommitInv`) says what a commit makes of a row.  Two more step properties
bound what the unlocked read in `confirm_seat` can do: a seat changes hands without
becoming free only to a passenger who held it when it was read
(`TakenByFormerHolderOnly`), and only the entry of such a confirmation can name a
status before it that the seat did not have (`AuditSlipsAtConfirmationsOnly`).  The
proof has one lemma per action.

**The lifecycle** (`SeatRefinementProofs`).  As long as nobody confirms, or as long as
there is one session at a time, no object is ever stale (`NothingStale`: what a
session wrote, it wrote from the committed row), and then every step of
`SeatBooking` is a step of `SeatLifecycle` or changes no booking, and the history is
a chain.  So without `confirm_seat` the code implements the lifecycle with any
number of sessions, seats and passengers (`NoConfirmRefinement`), and with it as
long as requests do not overlap (`SerialRefinement`): the unlocked read in
`confirm_seat` is the only cause of what `seats_confirmed_once` shows.

**Check-in** (`CheckInProofs`).  `SeatInv` fails here: `start_checkin` decides on objects of
before its lock, so a hold may be put on a confirmed seat, which leaves
`confirmed_by` behind and breaks `RowShape`.  `CheckInInv` keeps what survives:
HELD goes with its holder and deadline (`Shaped`), a seat is freed only on a row read
under the lock (`FreeingDecided`, in `Written`), a check-in that was opened is still there
with the same seat (`OpenedKept`), and a check-in row is filed in the last step before
the commit, either new and together with the hold of its seat or as the
completion of the one that is there (`FiledRightly`), by one session at a time
(`OneFilerEach`).  So, with any number of sessions, `StartIsAtomic`, `CheckInsAreKept`,
`AuditEndsInStatus` and `HoldsAreHonoured` hold.  A hold that is going to be committed on a
seat that is not free belongs to a new check-in (`HeldForCheckIn`, in `Written`); so
the requests and tasks of the seats never put a hold on a taken seat or take a
confirmed one back, and what `checkin_one_holder` shows has one cause, a start that
loaded the flight's seats before its lock (`StolenByNewCheckInsOnly`).  With one session (`OneSession`) nothing is stale
(`SerialCheckIns`): the seats still implement `SeatLifecycle`, the history is a
chain and a completed check-in has a confirmed seat.

**Baggage and payments** (`BaggageProofs`).  What a session has seen is old but not
wrong (`SeenEarlier`: the bags it saw are still there with their weights and fees,
and at most paid since), ids differ (`IdsDiffer`), and what it has written is known
from its label (`WorkIsKnown`).  Then a fee computed from old bags is too low or right,
since the excess grows faster the more weight is there already; a payment covers the
bags it marks; and the status WAITING_FOR_PAYMENT arrives with an unpaid bag and is
left by whoever pays.  That gives `NeverOvercharged`, `NothingIsFree`,
`NeverStuckWaiting` and `BagsAreKept` for any number of requests, bags and weights, any limit and fee.
Until two requests overlap, reads are current (`ReadsAreCurrent`) and the books
balance (`Books`): `FeesMatchExcess`, `WaitsWhileInDebt`, `EachFeePaidOnce`,
`CompletedIsFinal`.  Sums are not within the prover's reach by themselves.
`SumTheorems` takes a sum as the number of pairs of an element and a unit
below its value, so that facts about finite sets become facts about sums, and shows by a least
counterexample that the recursive function behind `MapThenSumSet` computes that number.

**Check-in with fees** (`CheckInFeesProofs`).  `FeesInv` says of each session what it
may own and have written at its label (`Position`) and that whoever has filed a
check-in is on its way to the commit, with a new check-in, a completed one, or one
whose status a fee request changes that had it open before it was completed (`FiledRow`), and is alone
in that (`OneFiler`).  Three things follow.  No cycle of waits: who has filed waits for
nobody, and who owns a seat's lock is no longer waiting for one
(`NoCycleOfWaits`).  A completed check-in is taken back only as
`TakenBackByOverlapOnly` says.  And every step is seen as a step of `BaggagePayment` or
not at all (`ImplementsFees`): all the time on the seat is one wait before the
UPDATE, a refused request never shows, a new check-in shows as the initial status.
With the theorems of `BaggageProofs`, instantiated at the same
mapping, `NeverOvercharged`, `NothingIsFree` and `NeverStuckWaiting` so hold in the whole
system (`FeesHoldInTheSystem`), where no run checks them.

**The cache** (`SeatMapCacheProofs`).  A map read but not yet stored is at most as
stale as it is old, and a cached one is stale by at most the time since it was
read; the invariant relates the two counters (staleness plus remaining life is
bounded), and `BoundedStaleness` follows for every TTL.  The list is read before the
summary and the seats only go forward, also while a map is on its way; so the
summary is never older than the list (`SummaryNeverOlder`), and the bound on the
list's age is a bound on the whole map's.

**The limiter** (`RateLimiterProofs`).  All paths of one key have one limit
(`LimitOfKey`): the patterns that tell limits apart do so by words, which the key
keeps, where it drops only ids.  A second that was let through and is no longer in the set
was removed at least a window after it; if only just, the request that
removed it read the clock in this very second, or the key expired in it and the
members have all come since (`GoneAfterWindow`).  So whenever a request is let through,
the set it counted holds all busy seconds of its window but at most `Slack` many
(`SecondsWithinLimit`).  A refused request counted only seconds in which somebody
asked, in its window or overtaking it (`OnlyHeavyUseRefused`).

The theorems are listed in `PROJECT.json`.

**Only model-checked**: `NoHoldForever`, `EveryRequestEnds` and `EventuallyCurrent`, which
hold under fairness and need ENABLED.  Some things are proved for less than one
might wish because they fail beyond it, as the runs that expect a violation show:
the lifecycle with overlapping confirmations, completed check-ins with a seat of
their own, payments taken once.  `CheckInFees` has one traveller with fees, as the
module says; its theorems are about any number of sessions, seats, bags and other
passengers.

## 5. What is not modelled

* `set_waiting_for_payment`, `resume_checkin`, `CheckInRepository.update_status` and
  the class in `cache/seat_map_cache.py`: nothing calls them.
* Flights and passengers as records, settings, error bodies, routing, health
  check, demo data beyond the initial seats, migrations: no state that two
  operations share.
* More than one flight: a request touches the seats of one.  (The selectin
  relationships may load seats of other flights; no session writes those.)
* The class filter of a seat map beyond its key.
* The text by which a refused NOWAIT is recognised among the driver's errors: an
  error that looks otherwise ends the request with a 500 instead of a conflict,
  and in both cases the session rolls back, which is what the models do.
* The event loop each task is run in: a task that fails there rolls back like one
  whose commit fails, which the models allow at any time; that not every run of the
  cleanup fails there is part of the fairness (section 3).
* A failed payment: the simulated gateway never fails.
* A client that repeats `add_baggage` after a lost answer: the code has nothing to
  tell it from a second bag, and the models allow any number of bags.
* The connection pool as such: the set of sessions is the pool.  Every session
  begins with its connection and gives it back at its end, nobody asks for a
  second one, so a request that waits for a connection owns nothing, and that
  every session ends (`EveryRequestEnds`) is all the pool needs.
* Whether the seat asked for belongs to the flight asked for: `start_checkin` does
  not compare them, and the models have one flight.
* How the limiter tells clients apart (proxy headers).
* Fractions of kilograms and rounding: weights and fees are whole numbers.

## 6. Differences seen while modelling

Plain from the code and contained in the models, without a run of their own:

* `confirm_seat` compares the deadline with the clock before it has the lock and not
  again (`seats/service.py:138`), so a confirmation may be written after the hold ran
  out; `seats/router.py:105` says it must come before.
* The expiry `confirm_seat` writes (`seats/service.py:140`) is rolled back by the
  exception raised next.
* `confirm_seat` takes `previous_status` from the object of before the lock, so an entry
  of the history may skip a status; `AuditSlipsAtConfirmationsOnly` says that no other
  entry does.
* Both tasks are routed to the queue "seats" (`workers/celery_app.py:50-53`), and the
  worker, as `docker-compose.yml:94` and `README.md:102` start it, has no `-Q` and
  consumes only the default queue.  So as deployed no hold is ever released by the
  system, where `PRD.md:35` and `PRD.md:82` promise it.  The fairness of the cleanup
  says so: with `WorkerQueues = {"celery"}` and without `QueueAssumption` TLC finds
  `NoHoldForever` violated by a hold that nobody ends.
* After a hold has ended the old check-in blocks a new one for ever
  (`checkin/service.py:67`); `PRD.md:83` says the passenger must re-select.
* With a class filter the `total` of a seat map's summary is that of the class, the
  three counts next to it are those of the whole flight (`seats/service.py:65`, `:74-77`).
* `process_payment` does not look at the seat (`payments/service.py:52`): a fee can be paid
  for a check-in whose hold has run out and which can never be completed.
* `add_baggage` and `complete_checkin` may overlap and leave a completed check-in with a
  debt, or take it back to WAITING_FOR_PAYMENT; two `add_baggage` requests may each be
  weighed without the other's bag.
* The cached maps are deleted before the commit (`seats/service.py:107`), where
  `ARCHITECTURE.md:163-164` has the commit first; tasks delete none
  (`seats/tasks.py:34`), where `WORKFLOW_DESIGN.md:52` has them do it.
* The member of the limiter's set is the second (`rate_limiter.py:162`), so all requests
  of one second count once; its message speaks of requests.  The limits of 100 within
  60 seconds can never be reached.  A request whose reply from Redis is lost is let
  through uncounted, whether or not its second came into the set (`RedisFails`).

## 7. Plan

Done, in this order: seats (core, requirements, refinement, proofs), check-in on
top of the seats, baggage and payments, cache, rate limiter; the composition
of check-in and fees, the two reads of a seat map, and the limiter's choice of
limit and key; then the proofs about check-in, baggage and payments, the limiter,
and the composition with its refinement.

Then the theorems that name the causes of what the expected violations show:
`NoConfirmRefinement` and `TakenByFormerHolderOnly` for `seats_confirmed_once`,
`StolenByNewCheckInsOnly` for `checkin_one_holder`.

Next:

1. That `NoCycleOfWaits` carries over to `CheckIn` with check-ins of every passenger.
2. An abstract specification of the payment flow (owed, paid, completed),
   implemented by `BaggagePayment` while requests do not overlap.
