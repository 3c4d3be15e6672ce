------------------------- MODULE CheckInRequirements --------------------------
(***************************************************************************)
(* What check-in is required to do, and what the properties of the seats   *)
(* become when check-ins run among the seat operations.                    *)
(***************************************************************************)
EXTENDS CheckIn, SeatRequirements

(* The hold and the check-in appear together or not at all: in the commit  *)
(* that creates a check-in its seat becomes HELD by its passenger, and the *)
(* history says so.  start_checkin writes them in two services and asks a  *)
(* broker in between.                                                      *)
HeldFor(p, s) ==
  /\ HeldBy(seat'[s], p)
  /\ hist'[s].changed_by = p
  /\ hist'[s].change_reason = "passenger_selected_seat"

StartIsAtomic ==
  [][\A p \in Passengers :
       checkin[p] = Nil /\ checkin'[p] # Nil => HeldFor(p, checkin'[p].seat)]_vars

(* A check-in is never created anew, moved to another seat or reopened by  *)
(* start_checkin and complete_checkin, though requests of one passenger    *)
(* race each other past the look for an existing check-in and past the     *)
(* test of its status.  What add_baggage and process_payment do to a       *)
(* completed check-in is in CheckInFees: TakenBackByOverlapOnly.           *)
CheckInKept(p) ==
  checkin[p] # Nil =>
    /\ checkin'[p] # Nil
    /\ checkin'[p].seat = checkin[p].seat
    /\ checkin[p].status = "COMPLETED" => checkin'[p].status = "COMPLETED"

CheckInsAreKept == [][\A p \in Passengers : CheckInKept(p)]_vars

(* The one way a hold comes to lie on a seat that is not free, and a       *)
(* CONFIRMED seat stops being so: a start_checkin that loaded the flight's *)
(* seats before its lock, and whose new check-in commits with the hold.    *)
(* No request or task of the seats alone does either, and no start whose   *)
(* check-in is refused.  OneHolder fails here; this is how, and how only.  *)
StartedOn(s) ==
  \E p \in Passengers :
    /\ checkin[p] = Nil /\ checkin'[p] # Nil
    /\ checkin'[p].seat = s
    /\ HeldBy(seat'[s], p)

StolenByNewCheckInsOnly ==
  [][\A s \in Seats : StartedOn(s) \/ (NewHold(s) /\ StaysConfirmed(s))]_vars

(* A completed check-in has a seat that is CONFIRMED - for whom, is        *)
(* another question: CompletedOwnsSeat.                                    *)
Completed(p) == checkin[p] # Nil /\ checkin[p].status = "COMPLETED"

CompletedHasConfirmedSeat ==
  \A p \in Passengers :
    Completed(p) => seat[checkin[p].seat].status = "CONFIRMED"

(* PRD.md:33, "Zero duplicate seat assignments": whoever completed         *)
(* check-in has the seat.                                                  *)
CompletedOwnsSeat ==
  \A p \in Passengers :
    Completed(p) => seat[checkin[p].seat].confirmed_by = p
===============================================================================
