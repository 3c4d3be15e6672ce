------------------------------- MODULE CheckIn --------------------------------
(***************************************************************************)
(* Starting and completing check-in (src/src/domains/checkin) on top of    *)
(* SeatBooking: CheckInService works in the request's own session, on the  *)
(* same identity map and in the same transaction as the seat services.     *)
(*                                                                         *)
(* One flight: its seats are Seats.  Loading the flight, or a check-in     *)
(* with its flight, loads all of them (lazy="selectin" relationships), so  *)
(* that the locked reads of hold_seat and confirm_seat that come later in  *)
(* the session return objects of before the lock.                          *)
(*                                                                         *)
(* Fees are left to CheckInFees: no check-in waits for a payment here.     *)
(***************************************************************************)
EXTENDS SeatBooking

VARIABLES
  checkin,  \* table checkins: the committed row of each passenger
  opened,   \* identity map: the check-in each session has loaded
  filed,    \* uncommitted check-in row of each session
  timers    \* broker: when a seat's expire_seat_hold may first be delivered

checkInVars == <<checkin, opened, filed, timers>>
vars == <<now, seat, hist, lock, pc, req, loaded, dirty,
          checkin, opened, filed, timers>>

(* The row's key, passenger and flight, is the index of function checkin. *)
CheckInRow ==
  [seat : Seats, status : {"IN_PROGRESS", "WAITING_FOR_PAYMENT", "COMPLETED"}]

ASSUME CheckInRowAssumption == Nil \notin CheckInRow

Labels ==
  {"idle", "hold", "file", "seat", "recheck", "confirm", "complete",
   "expire", "commit", "abort"}

CheckInTypeOK ==
  /\ now \in 0..MaxTime
  /\ seat \in [Seats -> Row]
  /\ hist \in [Seats -> Entry \cup {Nil}]
  /\ lock \in [Seats -> Sessions \cup {Nil}]
  /\ pc \in [Sessions -> Labels]
  /\ req \in [Sessions -> Request \cup {Nil}]
  /\ loaded \in [Sessions -> [Seats -> Row \cup {Nil}]]
  /\ dirty \in [Sessions -> [Seats -> Change \cup {Nil}]]
  /\ checkin \in [Passengers -> CheckInRow \cup {Nil}]
  /\ opened \in [Sessions -> CheckInRow \cup {Nil}]
  /\ filed \in [Sessions -> CheckInRow \cup {Nil}]
  /\ timers \in [Seats -> Nat \cup {Nil}]

CheckInInit ==
  /\ SeatInit
  /\ checkin = [p \in Passengers |-> Nil]
  /\ opened = [x \in Sessions |-> Nil]
  /\ filed = [x \in Sessions |-> Nil]
  /\ timers = Nothing

(* The SELECT of the flight's seats, for the objects not loaded yet. *)
LoadSeats(x) == loaded' = [loaded EXCEPT ![x] = [s \in Seats |-> Read(x, s)]]

(* INSERT and UPDATE wait for the transaction that wrote the same key. *)
CheckInRowFree(x) ==
  \A y \in Sessions \ {x} :
    filed[y] # Nil => req[y].passenger # req[x].passenger

(***************************************************************************)
(* start_checkin.  The look for an existing check-in is taken together     *)
(* with the loading of the flight before it: check-ins are never deleted,  *)
(* and one that appears later makes the INSERT fail.                       *)
(***************************************************************************)
StartCheckIn(x, s, p) ==
  /\ TimeForHold
  /\ Begin(x, s, p)
  /\ LoadSeats(x)
  /\ Goto(x, IF checkin[p] = Nil THEN "hold" ELSE "abort")
  /\ UNCHANGED <<now, seat, hist, lock, dirty, checkInVars>>

(* Mutant: a refusal by hold_seat is logged and swallowed. *)
HoldForCheckInAnyway(x) ==
  /\ pc[x] = "hold"
  /\ TimeForHold
  /\ \/ RepositoryHold(x, req[x].seat, req[x].passenger, "file")
     \/ /\ Read(x, req[x].seat).status # "AVAILABLE"
        /\ Goto(x, "file")
        /\ UNCHANGED <<lock, loaded, dirty>>
  /\ UNCHANGED <<now, seat, hist, req, checkInVars>>

(* A start that reaches its hold when no TimeForHold is left is given up,  *)
(* as a crash could end it: MaxTime bounds the model, not the code.        *)
HoldForCheckIn(x) ==
  /\ pc[x] = "hold"
  /\ \/ /\ TimeForHold
        /\ RepositoryHold(x, req[x].seat, req[x].passenger, "file")
     \/ /\ ~TimeForHold
        /\ Goto(x, "abort")
        /\ UNCHANGED <<lock, loaded, dirty>>
  /\ UNCHANGED <<now, seat, hist, req, checkInVars>>

(* The broker takes the task, or it is down and only a warning is logged.  *)
(* One message per seat is enough: after its first delivery it may be      *)
(* redelivered at any time, so the earliest one stands for all.            *)
Schedule(s) ==
  \/ timers' = [timers EXCEPT ![s] = IF @ = Nil THEN now + HoldDuration ELSE @]
  \/ UNCHANGED timers

(* Mutant: INSERT ... ON CONFLICT DO UPDATE. *)
FileCheckInUpserts(x) ==
  /\ pc[x] = "file"
  /\ CheckInRowFree(x)
  /\ Schedule(req[x].seat)
  /\ filed' = [filed EXCEPT ![x] =
       [seat |-> req[x].seat, status |-> "IN_PROGRESS"]]
  /\ Goto(x, "commit")
  /\ UNCHANGED <<now, seat, hist, lock, req, loaded, dirty, checkin, opened>>

(* The INSERT of the check-in, against the unique index on its key. *)
FileCheckIn(x) ==
  /\ pc[x] = "file"
  /\ CheckInRowFree(x)
  /\ \/ /\ checkin[req[x].passenger] # Nil
        /\ Goto(x, "abort")
        /\ UNCHANGED <<filed, timers>>
     \/ /\ checkin[req[x].passenger] = Nil
        /\ filed' = [filed EXCEPT ![x] =
             [seat |-> req[x].seat, status |-> "IN_PROGRESS"]]
        /\ Schedule(req[x].seat)
        /\ Goto(x, "commit")
  /\ UNCHANGED <<now, seat, hist, lock, req, loaded, dirty, checkin, opened>>

(***************************************************************************)
(* complete_checkin                                                        *)
(***************************************************************************)

(* Mutant: only a completed check-in is refused. *)
OpenCheckInInDebt(x, p) ==
  /\ checkin[p] # Nil
  /\ Begin(x, checkin[p].seat, p)
  /\ opened' = [opened EXCEPT ![x] = checkin[p]]
  /\ Goto(x, IF checkin[p].status = "COMPLETED" THEN "abort" ELSE "seat")
  /\ UNCHANGED <<now, seat, hist, lock, loaded, dirty, checkin, filed, timers>>

OpenCheckIn(x, p) ==
  /\ checkin[p] # Nil
  /\ Begin(x, checkin[p].seat, p)
  /\ opened' = [opened EXCEPT ![x] = checkin[p]]
  /\ Goto(x, IF checkin[p].status = "IN_PROGRESS" THEN "seat" ELSE "abort")
  /\ UNCHANGED <<now, seat, hist, lock, loaded, dirty, checkin, filed, timers>>

(* Mutant: a seat that is free again is good enough. *)
AfterSeatReadUnlessOverdue(row) ==
  CASE row.status = "HELD" /\ Overdue(row, now) -> "abort"
    [] row.status = "HELD" /\ ~Overdue(row, now) -> "recheck"
    [] OTHER -> "complete"

(* What complete_checkin makes of the seat, whoever has it. *)
AfterSeatRead(row) ==
  CASE row.status = "AVAILABLE" -> "abort"
    [] row.status = "CONFIRMED" -> "complete"
    [] row.status = "HELD" /\ Overdue(row, now) -> "abort"
    [] OTHER -> "recheck"

(* The check-in's seat arrives with the check-in. *)
LookAtSeat(x) ==
  /\ pc[x] = "seat"
  /\ LoadSeats(x)
  /\ Goto(x, AfterSeatRead(Read(x, req[x].seat)))
  /\ UNCHANGED <<now, seat, hist, lock, req, dirty, checkInVars>>

(* Mutant: the status is written before the seat is confirmed. *)
RecheckSeatAfterUpdate(x) ==
  /\ pc[x] = "recheck"
  /\ CheckInRowFree(x)
  /\ filed' = [filed EXCEPT ![x] =
       [checkin[req[x].passenger] EXCEPT !.status = "COMPLETED"]]
  /\ Goto(x, AfterUnlockedRead(Read(x, req[x].seat), req[x].passenger))
  /\ UNCHANGED <<now, seat, hist, lock, req, loaded, dirty,
                 checkin, opened, timers>>

(* confirm_seat begins, on the object loaded before, at a later time. *)
RecheckSeat(x) ==
  /\ pc[x] = "recheck"
  /\ Goto(x, AfterUnlockedRead(Read(x, req[x].seat), req[x].passenger))
  /\ UNCHANGED <<now, seat, hist, lock, req, loaded, dirty, checkInVars>>

ConfirmForCheckIn(x) ==
  /\ pc[x] = "confirm"
  /\ opened[x] # Nil
  /\ RepositoryConfirm(x, req[x].seat, req[x].passenger, "complete")
  /\ UNCHANGED <<now, seat, hist, req, checkInVars>>

(* The UPDATE of the check-in's status. *)
CompleteCheckIn(x) ==
  /\ pc[x] = "complete"
  /\ CheckInRowFree(x)
  /\ filed' = [filed EXCEPT ![x] =
       [checkin[req[x].passenger] EXCEPT !.status = "COMPLETED"]]
  /\ Goto(x, "commit")
  /\ UNCHANGED <<now, seat, hist, lock, req, loaded, dirty,
                 checkin, opened, timers>>

(***************************************************************************)
(* The seat operations as requests of their own, and the tasks             *)
(***************************************************************************)
SeatRequest(x) ==
  /\ \/ \E s \in Seats, p \in Passengers :
          HoldSeat(x, s, p) \/ ReleaseSeat(x, s, p) \/ ConfirmRead(x, s, p)
     \/ opened[x] = Nil /\ ConfirmSeat(x)
  /\ UNCHANGED checkInVars

(* The message is kept: it is acknowledged late and may come again. *)
Delivered(s) == timers[s] # Nil /\ timers[s] <= now

SeatTask(x) ==
  /\ \/ \E s \in Seats : Delivered(s) /\ ExpireTask(x, s)
     \/ ExpireHold(x)
     \/ CleanupExpiredHolds(x)
  /\ UNCHANGED checkInVars

(***************************************************************************)
(* The end of a transaction                                                *)
(***************************************************************************)
ForgetCheckIn(x) ==
  /\ opened' = [opened EXCEPT ![x] = Nil]
  /\ filed' = [filed EXCEPT ![x] = Nil]
  /\ UNCHANGED timers

CommitAll(x) ==
  /\ Commit(x)
  /\ checkin' = IF filed[x] = Nil THEN checkin
                ELSE [checkin EXCEPT ![req[x].passenger] = filed[x]]
  /\ ForgetCheckIn(x)

AbandonAll(x) ==
  /\ Rollback(x) \/ Crash(x)
  /\ ForgetCheckIn(x)
  /\ UNCHANGED checkin

CheckInStep(x) ==
  \/ \E s \in Seats, p \in Passengers : StartCheckIn(x, s, p)
  \/ HoldForCheckIn(x)
  \/ FileCheckIn(x)
  \/ \E p \in Passengers : OpenCheckIn(x, p)
  \/ LookAtSeat(x)
  \/ RecheckSeat(x)
  \/ ConfirmForCheckIn(x)
  \/ CompleteCheckIn(x)

CheckInNext ==
  \/ Tick /\ UNCHANGED checkInVars
  \/ \E x \in Sessions :
       CheckInStep(x) \/ SeatRequest(x) \/ SeatTask(x) \/ CommitAll(x) \/ AbandonAll(x)

CheckInSpec == CheckInInit /\ [][CheckInNext]_vars
===============================================================================
