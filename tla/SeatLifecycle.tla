---------------------------- MODULE SeatLifecycle -----------------------------
(***************************************************************************)
(* What PRD.md 2.1 promises of a seat, without sessions, locks or time:    *)
(* AVAILABLE -> HELD -> CONFIRMED, a HELD seat may become AVAILABLE again, *)
(* only the holder gets the seat confirmed, and CONFIRMED is final.        *)
(***************************************************************************)
CONSTANTS Seats, Passengers, Nil

VARIABLE booking   \* of each seat: its status and the passenger it is tied to

Free == [status |-> "AVAILABLE", owner |-> Nil]
Held(p) == [status |-> "HELD", owner |-> p]
Confirmed(p) == [status |-> "CONFIRMED", owner |-> p]

LifecycleInit == booking = [s \in Seats |-> Free]

Hold(s, p) ==
  /\ booking[s] = Free
  /\ booking' = [booking EXCEPT ![s] = Held(p)]

Confirm(s, p) ==
  /\ booking[s] = Held(p)
  /\ booking' = [booking EXCEPT ![s] = Confirmed(p)]

(* One transaction may free many seats: the cleanup task does. *)
FreeSeats(batch) ==
  /\ \A s \in batch : booking[s].status = "HELD"
  /\ booking' = [s \in Seats |-> IF s \in batch THEN Free ELSE booking[s]]

LifecycleNext ==
  \/ \E s \in Seats, p \in Passengers : Hold(s, p) \/ Confirm(s, p)
  \/ \E batch \in SUBSET Seats : FreeSeats(batch)

LifecycleSpec == LifecycleInit /\ [][LifecycleNext]_booking
===============================================================================
