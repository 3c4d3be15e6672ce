---------------------------- MODULE CheckInLiveness ----------------------------
(***************************************************************************)
(* What must happen in the end, if the workers do their part.              *)
(*                                                                         *)
(* Both tasks are routed to a queue of their own.  A worker started with   *)
(* no -Q, as docker-compose.yml:94 and README.md:102 start it, consumes    *)
(* the default queue "celery" only: there no cleanup and no expire task    *)
(* ever runs, and what follows does not apply.  So it is an assumption     *)
(* that a worker consumes the queue of the tasks.                          *)
(***************************************************************************)
EXTENDS CheckInRequirements

CONSTANT WorkerQueues  \* the queues the Celery workers consume

(* task_routes: cleanup_expired_holds and expire_seat_hold. *)
TaskQueue == "seats"

Consumed == TaskQueue \in WorkerQueues

ASSUME QueueAssumption == Consumed

(* A run of the cleanup that finds seat s overdue and unlocked. *)
CleanupRun(x, s) ==
  /\ Unattended(s)
  /\ CleanupExpiredHolds(x)
  /\ UNCHANGED checkInVars

(***************************************************************************)
(* Every request and task that began goes on to its next step.  Waiting    *)
(* for a row lock or for a check-in row is strongly fair, because          *)
(* PostgreSQL queues the waiters.  Commits that write are strongly fair:   *)
(* not every one of them crashes.  The beat schedule sends the cleanup     *)
(* every 30 seconds without end, and a worker consumes its queue: so it    *)
(* meets an expired hold unlocked if the hold is unlocked now and again,   *)
(* and not every one of its runs fails, though each opens a new event loop *)
(* on pooled connections (tasks.py:13-19).  No expire task is assumed to   *)
(* arrive.                                                                 *)
(***************************************************************************)
CheckInFairness ==
  /\ WF_vars(Tick /\ UNCHANGED checkInVars)
  /\ \A x \in Sessions :
       /\ WF_vars(HoldForCheckIn(x) \/ LookAtSeat(x) \/ RecheckSeat(x))
       /\ SF_vars(FileCheckIn(x) \/ CompleteCheckIn(x))
       /\ WF_vars(pc[x] = "confirm" /\ (ConfirmForCheckIn(x) \/ SeatRequest(x)))
       /\ SF_vars(SeatTask(x) /\ pc[x] = "expire")
       /\ WF_vars(CommitAll(x))
       /\ SF_vars(dirty[x] # Nothing /\ CommitAll(x))
       /\ WF_vars(AbandonAll(x) /\ pc[x] = "abort")
  /\ \A s \in Seats :
       SF_vars(\E x \in Sessions : Consumed /\ CleanupRun(x, s))

FairCheckInSpec == CheckInSpec /\ CheckInFairness

(* A hold does not last: sooner or later the passenger has confirmed the   *)
(* seat or holds it no more, even if the passenger, the expire task and    *)
(* any number of requests die on the way.                                  *)
NoHoldForever ==
  \A s \in Seats, p \in Passengers :
    HeldBy(seat[s], p) ~> ~HeldBy(seat[s], p)

(* No request of either service waits for ever: a session that owns a seat *)
(* lock and waits for a check-in row is never part of a cycle.             *)
EveryRequestEnds == \A x \in Sessions : pc[x] # "idle" ~> pc[x] = "idle"
===============================================================================
