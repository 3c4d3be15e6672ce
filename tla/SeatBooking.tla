----------------------------- MODULE SeatBooking ------------------------------
(***************************************************************************)
(* Holding, confirming, releasing and expiring seats: SeatService and      *)
(* SeatRepository (src/src/domains/seats), run by concurrent database      *)
(* sessions - one per HTTP request or Celery task.                         *)
(*                                                                         *)
(* PostgreSQL works at READ COMMITTED: a statement reads committed rows, a *)
(* write stays private to its transaction until COMMIT, and a row lock     *)
(* taken by SELECT ... FOR UPDATE lasts until COMMIT or ROLLBACK.          *)
(* SQLAlchemy adds the identity map: a SELECT that finds an object already *)
(* loaded in the session, FOR UPDATE or not, returns it as it was LOADED   *)
(* (populate_existing is not asked for anywhere in the repository).        *)
(*                                                                         *)
(* A step runs from one point where another transaction can interfere to   *)
(* the next: what a session does while it owns the row lock, up to COMMIT, *)
(* nobody else can see or disturb.                                         *)
(***************************************************************************)
EXTENDS SeatRows, FiniteSets

CONSTANTS
  Seats,          \* the seats' ids
  Sessions,       \* database sessions: requests and tasks under way
  HoldDuration,   \* settings.seat_hold_duration_seconds
  MaxTime         \* bound: the clock stops here

ASSUME SessionAssumption == Nil \notin Sessions
ASSUME TimeAssumption == HoldDuration \in Nat \ {0} /\ MaxTime \in Nat

VARIABLES
  now,      \* the clock every process reads with datetime.utcnow()
  seat,     \* table seats: the committed row of each seat
  hist,     \* table seat_state_history: the last committed entry of each seat
  lock,     \* the session that owns the row lock of each seat
  pc,       \* where each session is
  req,      \* the seat and the passenger a session works for
  loaded,   \* identity map: each session's seat objects, as they were loaded
  dirty     \* uncommitted row version and history entry of each session

seatVars == <<now, seat, hist, lock, pc, req, loaded, dirty>>

(* passenger = Nil: the session is a Celery task. *)
Request == [seat : Seats, passenger : PassengerOrNil]

Change == [row : Row, entry : Entry]

ASSUME ChangeAssumption == Nil \notin Change

SeatTypeOK ==
  /\ now \in 0..MaxTime
  /\ seat \in [Seats -> Row]
  /\ hist \in [Seats -> Entry \cup {Nil}]
  /\ lock \in [Seats -> Sessions \cup {Nil}]
  /\ pc \in [Sessions -> {"idle", "confirm", "expire", "commit", "abort"}]
  /\ req \in [Sessions -> Request \cup {Nil}]
  /\ loaded \in [Sessions -> [Seats -> Row \cup {Nil}]]
  /\ dirty \in [Sessions -> [Seats -> Change \cup {Nil}]]

Nothing == [s \in Seats |-> Nil]

SeatInit ==
  /\ now = 0
  /\ seat = [s \in Seats |-> NewRow]
  /\ hist = Nothing
  /\ lock = Nothing
  /\ pc = [x \in Sessions |-> "idle"]
  /\ req = [x \in Sessions |-> Nil]
  /\ loaded = [x \in Sessions |-> Nothing]
  /\ dirty = [x \in Sessions |-> Nothing]

(***************************************************************************)
(* The session                                                             *)
(***************************************************************************)

Goto(x, label) == pc' = [pc EXCEPT ![x] = label]

Begin(x, s, p) ==
  /\ pc[x] = "idle"
  /\ req' = [req EXCEPT ![x] = [seat |-> s, passenger |-> p]]

(* What a SELECT of the seat gives: the object the session already has. *)
Read(x, s) == IF loaded[x][s] = Nil THEN seat[s] ELSE loaded[x][s]

Load(x, s) == loaded' = [loaded EXCEPT ![x][s] = Read(x, s)]

(* The row lock is to be had: get_by_id_for_update returns the object. *)
Acquire(x, s) ==
  /\ lock[s] = Nil
  /\ lock' = [lock EXCEPT ![s] = x]
  /\ Load(x, s)

(* FOR UPDATE NOWAIT meets another session's lock: SeatLockError. *)
Refused(x, s) ==
  /\ lock[s] # Nil
  /\ Goto(x, "abort")
  /\ UNCHANGED <<lock, loaded, dirty>>

(* The change of the object Read(x, s) into new, flushed but uncommitted. *)
ChangeOf(x, s, new, by, reason) ==
  [row   |-> UpdatedRow(seat[s], Read(x, s), new),
   entry |-> StateChange(Read(x, s), new, by, reason)]

Flush(x, s, new, by, reason) ==
  dirty' = [dirty EXCEPT ![x][s] = ChangeOf(x, s, new, by, reason)]

(***************************************************************************)
(* hold_seat, confirm_seat and release_seat of the repository share one    *)
(* shape: lock without waiting, test the object, change it and flush; any  *)
(* failure raises, and the raise rolls the session back.                   *)
(***************************************************************************)
LockedChange(x, s, allowed, new, by, reason, next) ==
  \/ Refused(x, s)
  \/ /\ Acquire(x, s)
     /\ \/ allowed /\ Flush(x, s, new, by, reason) /\ Goto(x, next)
        \/ ~allowed /\ UNCHANGED dirty /\ Goto(x, "abort")

HeldBy(row, p) == row.status = "HELD" /\ row.held_by = p

(* A hold is started early enough to run out before the clock stops. *)
TimeForHold == now + HoldDuration < MaxTime

(* Mutant: everything but a confirmed seat can be held. *)
RepositoryHoldUnlessConfirmed(x, s, p, next) ==
  LockedChange(x, s,
               Read(x, s).status # "CONFIRMED",
               HeldRow(Read(x, s), p, now + HoldDuration),
               p, "passenger_selected_seat", next)

RepositoryHold(x, s, p, next) ==
  LockedChange(x, s,
               Read(x, s).status = "AVAILABLE",
               HeldRow(Read(x, s), p, now + HoldDuration),
               p, "passenger_selected_seat", next)

(* Mutant: everything but a confirmed seat can be confirmed. *)
RepositoryConfirmUnlessConfirmed(x, s, p, next) ==
  LockedChange(x, s,
               Read(x, s).status # "CONFIRMED",
               ConfirmedRow(p),
               p, "passenger_confirmed_seat", next)

RepositoryConfirm(x, s, p, next) ==
  LockedChange(x, s,
               HeldBy(Read(x, s), p),
               ConfirmedRow(p),
               p, "passenger_confirmed_seat", next)

RepositoryRelease(x, s, p, next) ==
  LockedChange(x, s,
               HeldBy(Read(x, s), p),
               FreedRow(Read(x, s)),
               p, "passenger_released_seat", next)

(***************************************************************************)
(* The requests                                                            *)
(***************************************************************************)

HoldSeat(x, s, p) ==
  /\ TimeForHold
  /\ Begin(x, s, p)
  /\ RepositoryHold(x, s, p, "commit")
  /\ UNCHANGED <<now, seat, hist>>

ReleaseSeat(x, s, p) ==
  /\ Begin(x, s, p)
  /\ RepositoryRelease(x, s, p, "commit")
  /\ UNCHANGED <<now, seat, hist>>

(* The checks confirm_seat makes on the object it read without a lock. *)
AfterUnlockedRead(row, p) ==
  CASE row.status # "HELD" -> "confirm"
    [] row.status = "HELD" /\ row.held_by # p -> "abort"
    [] HeldBy(row, p) /\ Overdue(row, now) -> "expire"
    [] OTHER -> "confirm"

(* confirm_seat begins: get_by_id and the checks on its result. *)
ConfirmRead(x, s, p) ==
  /\ Begin(x, s, p)
  /\ Load(x, s)
  /\ Goto(x, AfterUnlockedRead(Read(x, s), p))
  /\ UNCHANGED <<now, seat, hist, lock, dirty>>

(* confirm_seat goes on: repository.confirm_seat on the object of before. *)
ConfirmSeat(x) ==
  /\ pc[x] = "confirm"
  /\ RepositoryConfirm(x, req[x].seat, req[x].passenger, "commit")
  /\ UNCHANGED <<now, seat, hist, req>>

(***************************************************************************)
(* The background tasks.  expire_hold waits for the lock.  Called by the   *)
(* task it is committed; called by confirm_seat, SeatHoldExpiredError is   *)
(* raised next and the session rolls back.                                 *)
(***************************************************************************)

(* Mutant: the task looks at the seat before it waits for the lock. *)
ExpireTaskReadsFirst(x, s) ==
  /\ Begin(x, s, Nil)
  /\ Load(x, s)
  /\ Goto(x, "expire")
  /\ UNCHANGED <<now, seat, hist, lock, dirty>>

ExpireTask(x, s) ==
  /\ Begin(x, s, Nil)
  /\ Goto(x, "expire")
  /\ UNCHANGED <<now, seat, hist, lock, loaded, dirty>>

(* Mutant: the task trusts its timer, whichever hold it finds. *)
ExpireHoldTrustsTimer(x) ==
  LET s   == req[x].seat
      row == Read(x, s)
  IN /\ pc[x] = "expire"
     /\ Acquire(x, s)
     /\ \/ row.status = "HELD"
           /\ Flush(x, s, FreedRow(row), Nil, "hold_expired_automatically")
        \/ row.status # "HELD" /\ UNCHANGED dirty
     /\ Goto(x, IF req[x].passenger = Nil THEN "commit" ELSE "abort")
     /\ UNCHANGED <<now, seat, hist, req>>

(* Mutant: only the deadline is tested, and NULL counts as past. *)
ExpireHoldAnyStatus(x) ==
  LET s   == req[x].seat
      row == Read(x, s)
  IN /\ pc[x] = "expire"
     /\ Acquire(x, s)
     /\ \/ Due(row, now)
           /\ Flush(x, s, FreedRow(row), Nil, "hold_expired_automatically")
        \/ ~Due(row, now) /\ UNCHANGED dirty
     /\ Goto(x, IF req[x].passenger = Nil THEN "commit" ELSE "abort")
     /\ UNCHANGED <<now, seat, hist, req>>

ExpireHold(x) ==
  LET s      == req[x].seat
      row    == Read(x, s)
      lapsed == row.status = "HELD" /\ Due(row, now)
  IN /\ pc[x] = "expire"
     /\ Acquire(x, s)
     /\ \/ lapsed /\ Flush(x, s, FreedRow(row), Nil, "hold_expired_automatically")
        \/ ~lapsed /\ UNCHANGED dirty
     /\ Goto(x, IF req[x].passenger = Nil THEN "commit" ELSE "abort")
     /\ UNCHANGED <<now, seat, hist, req>>

(* Mutant: the comparison the wrong way round. *)
UnattendedEarly(s) ==
  /\ lock[s] = Nil
  /\ seat[s].status = "HELD"
  /\ seat[s].hold_expires_at > now

(* The rows SELECT ... FOR UPDATE SKIP LOCKED gives to the cleanup task. *)
Unattended(s) ==
  /\ lock[s] = Nil
  /\ seat[s].status = "HELD"
  /\ Overdue(seat[s], now)

(* The code reads the clock before its SELECT, the model with it: an       *)
(* earlier clock finds fewer holds overdue, never more.                    *)
CleanupExpiredHolds(x) ==
  LET batch == {s \in Seats : Unattended(s)}
  IN /\ pc[x] = "idle"
     /\ lock' = [s \in Seats |-> IF s \in batch THEN x ELSE lock[s]]
     /\ loaded' = [loaded EXCEPT ![x] =
          [s \in Seats |-> IF s \in batch THEN seat[s] ELSE loaded[x][s]]]
     /\ dirty' = [dirty EXCEPT ![x] =
          [s \in Seats |->
             IF s \in batch
             THEN ChangeOf(x, s, FreedRow(seat[s]), Nil, "hold_expired_cleanup")
             ELSE dirty[x][s]]]
     /\ Goto(x, "commit")
     /\ UNCHANGED <<now, seat, hist, req>>

(***************************************************************************)
(* The end of a transaction                                                *)
(***************************************************************************)

(* Mutant: the connection goes back to the pool inside its transaction. *)
EndSessionKeepsLocks(x) ==
  /\ Goto(x, "idle")
  /\ req' = [req EXCEPT ![x] = Nil]
  /\ loaded' = [loaded EXCEPT ![x] = Nothing]
  /\ dirty' = [dirty EXCEPT ![x] = Nothing]
  /\ UNCHANGED <<now, lock>>

EndSession(x) ==
  /\ Goto(x, "idle")
  /\ req' = [req EXCEPT ![x] = Nil]
  /\ lock' = [s \in Seats |-> IF lock[s] = x THEN Nil ELSE lock[s]]
  /\ loaded' = [loaded EXCEPT ![x] = Nothing]
  /\ dirty' = [dirty EXCEPT ![x] = Nothing]
  /\ UNCHANGED now

Commit(x) ==
  /\ pc[x] = "commit"
  /\ seat' = [s \in Seats |->
       IF dirty[x][s] = Nil THEN seat[s] ELSE dirty[x][s].row]
  /\ hist' = [s \in Seats |->
       IF dirty[x][s] = Nil THEN hist[s] ELSE dirty[x][s].entry]
  /\ EndSession(x)

(* get_db_session's rollback after an exception. *)
Rollback(x) ==
  /\ pc[x] = "abort"
  /\ EndSession(x)
  /\ UNCHANGED <<seat, hist>>

(* The process or its connection is lost: PostgreSQL rolls back. *)
Crash(x) ==
  /\ pc[x] \notin {"idle", "abort"}
  /\ EndSession(x)
  /\ UNCHANGED <<seat, hist>>

Tick ==
  /\ now < MaxTime
  /\ now' = now + 1
  /\ UNCHANGED <<seat, hist, lock, pc, req, loaded, dirty>>

Confirming(x) ==
  \/ \E s \in Seats, p \in Passengers : ConfirmRead(x, s, p)
  \/ ConfirmSeat(x)

NotConfirming(x) ==
  \/ \E s \in Seats, p \in Passengers : HoldSeat(x, s, p)
  \/ \E s \in Seats, p \in Passengers : ReleaseSeat(x, s, p)
  \/ \E s \in Seats : ExpireTask(x, s)
  \/ ExpireHold(x)
  \/ CleanupExpiredHolds(x)
  \/ Commit(x)
  \/ Rollback(x)
  \/ Crash(x)

SeatNext == Tick \/ \E x \in Sessions : Confirming(x) \/ NotConfirming(x)

SeatSpec == SeatInit /\ [][SeatNext]_seatVars

(* The system while nobody confirms: every seat is read under its lock. *)
SeatNextNoConfirm == Tick \/ \E x \in Sessions : NotConfirming(x)

SeatSpecNoConfirm == SeatInit /\ [][SeatNextNoConfirm]_seatVars
===============================================================================
