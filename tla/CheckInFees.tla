------------------------------ MODULE CheckInFees ------------------------------
(***************************************************************************)
(* The whole way of one traveller: CheckIn with add_baggage and            *)
(* process_payment for the traveller's check-in, so that three services    *)
(* write one status while the seat is held, runs out or goes to somebody   *)
(* else.  The other passengers only want the seat.                         *)
(*                                                                         *)
(* What the two added services decide is BaggagePayment's; how they open   *)
(* the check-in and wait for its row is CheckIn's.                         *)
(***************************************************************************)
EXTENDS CheckInRequirements

CONSTANTS Traveller, Bags, Weights, MaxBaggageWeight, FeePerKg

ASSUME TravellerAssumption == Traveller \in Passengers

ASSUME FeesAssumption ==
  /\ IsFiniteSet(Bags) /\ Weights \subseteq 1..50
  /\ MaxBaggageWeight \in Nat /\ FeePerKg \in Nat
  /\ Nil \notin [weight_kg : Nat, excess_fee : Nat, fee_paid : BOOLEAN]
  /\ Nil \notin {"IN_PROGRESS", "WAITING_FOR_PAYMENT", "COMPLETED"}

VARIABLES
  bags,      \* table baggage: the committed rows of the traveller's check-in
  collected, \* table payments: the sum of its SUCCESS rows
  weight,    \* the weight of the bag each session was asked to add
  seen,      \* identity map: the bags each session has loaded
  written    \* uncommitted baggage rows and payment of each session

sessionVars == <<weight, seen, written>>
feeVars == <<bags, collected, weight, seen, written>>
allVars == <<now, seat, hist, lock, pc, req, loaded, dirty,
             checkin, opened, filed, timers,
             bags, collected, weight, seen, written>>

NoBags == [b \in Bags |-> Nil]

NothingWritten == [bags |-> NoBags, amount |-> 0]

(***************************************************************************)
(* BaggagePayment as this system shows it.  A session is at work there     *)
(* while it has the traveller's check-in open and has not failed;          *)
(* complete_checkin is on its way to the UPDATE of the status all the time *)
(* it spends on the seat.                                                  *)
(***************************************************************************)
AtWork(x) == opened[x] # Nil /\ req[x].passenger = Traveller /\ pc[x] # "abort"

Completing(x) == pc[x] \in {"seat", "recheck", "confirm", "expire", "complete"}

StatusWritten(x) ==
  CASE Completing(x)    -> "COMPLETED"
    [] pc[x] = "update" -> "WAITING_FOR_PAYMENT"
    [] filed[x] # Nil   -> filed[x].status
    [] OTHER            -> Nil

FeesPc(x) == IF Completing(x) THEN "update" ELSE pc[x]

FeesUnsaved(x) ==
  [status |-> StatusWritten(x),
   bags   |-> written[x].bags,
   amount |-> written[x].amount]

NothingUnsaved == [status |-> Nil, bags |-> NoBags, amount |-> 0]

FeesStatus ==
  IF checkin[Traveller] = Nil THEN "IN_PROGRESS" ELSE checkin[Traveller].status

FeesAt == [x \in Sessions |-> IF AtWork(x) THEN FeesPc(x) ELSE "idle"]

FeesOpened == [x \in Sessions |-> IF AtWork(x) THEN opened[x].status ELSE Nil]

FeesSeen == [x \in Sessions |-> IF AtWork(x) THEN seen[x] ELSE NoBags]

FeesRequest == [x \in Sessions |-> IF AtWork(x) THEN weight[x] ELSE 0]

FeesWritten ==
  [x \in Sessions |-> IF AtWork(x) THEN FeesUnsaved(x) ELSE NothingUnsaved]

Fees == INSTANCE BaggagePayment WITH
  status <- FeesStatus, pc <- FeesAt, opened <- FeesOpened, seen <- FeesSeen,
  request <- FeesRequest, unsaved <- FeesWritten

FeesInit ==
  /\ CheckInInit
  /\ bags = NoBags
  /\ collected = 0
  /\ weight = [x \in Sessions |-> 0]
  /\ seen = [x \in Sessions |-> NoBags]
  /\ written = [x \in Sessions |-> NothingWritten]

(***************************************************************************)
(* add_baggage and process_payment                                         *)
(***************************************************************************)

(* A request's first SELECT: the check-in, refused or gone on with. *)
OpenForFees(x, accepted, label) ==
  /\ checkin[Traveller] # Nil
  /\ Begin(x, checkin[Traveller].seat, Traveller)
  /\ opened' = [opened EXCEPT ![x] = checkin[Traveller]]
  /\ Goto(x, IF checkin[Traveller].status \in accepted THEN label ELSE "abort")
  /\ UNCHANGED <<now, seat, hist, lock, loaded, dirty, checkin, filed, timers>>

(* Mutant: the test of the status is forgotten. *)
AddBaggageAnyway(x, w) ==
  /\ OpenForFees(x, Fees!CheckInStatuses, "add")
  /\ weight' = [weight EXCEPT ![x] = w]
  /\ UNCHANGED <<bags, collected, seen, written>>

AddBaggage(x, w) ==
  /\ OpenForFees(x, {"IN_PROGRESS", "WAITING_FOR_PAYMENT"}, "add")
  /\ weight' = [weight EXCEPT ![x] = w]
  /\ UNCHANGED <<bags, collected, seen, written>>

Fresh(b) == bags[b] = Nil /\ \A y \in Sessions : written[y].bags[b] = Nil

(* The SELECT of the bags, the fee, and the INSERT of the new bag. *)
InsertBag(x, b) ==
  LET fee == Fees!FeeForBag(bags, weight[x])
  IN /\ pc[x] = "add"
     /\ Fresh(b)
     /\ seen' = [seen EXCEPT ![x] = bags]
     /\ written' = [written EXCEPT ![x] =
          [bags   |-> [NoBags EXCEPT ![b] = [weight_kg  |-> weight[x],
                                             excess_fee |-> fee,
                                             fee_paid   |-> FALSE]],
           amount |-> 0]]
     /\ Goto(x, IF fee > 0 /\ opened[x].status # "WAITING_FOR_PAYMENT"
                THEN "update" ELSE "commit")
     /\ UNCHANGED <<now, seat, hist, lock, req, loaded, dirty, checkInVars,
                    bags, collected, weight>>

(* The UPDATE of the check-in's status, once it gets the row. *)
WriteStatus(x, status) ==
  /\ CheckInRowFree(x)
  /\ filed' = [filed EXCEPT ![x] = [checkin[Traveller] EXCEPT !.status = status]]
  /\ Goto(x, "commit")
  /\ UNCHANGED <<now, seat, hist, lock, req, loaded, dirty,
                 checkin, opened, timers>>

AskForPayment(x) ==
  /\ pc[x] = "update"
  /\ WriteStatus(x, "WAITING_FOR_PAYMENT")
  /\ UNCHANGED feeVars

ProcessPayment(x) ==
  /\ OpenForFees(x, {"WAITING_FOR_PAYMENT"}, "pay")
  /\ UNCHANGED feeVars

(* The SELECT of the bags, and the INSERT of a PENDING payment if the      *)
(* amount the passenger sent is the amount required.                       *)
InsertPayment(x) ==
  /\ pc[x] = "pay"
  /\ seen' = [seen EXCEPT ![x] = bags]
  /\ \/ Goto(x, "abort") /\ UNCHANGED written
     \/ /\ Fees!Required(bags) > 0
        /\ written' = [written EXCEPT ![x].amount = Fees!Required(bags)]
        /\ Goto(x, "gateway")
  /\ UNCHANGED <<now, seat, hist, lock, req, loaded, dirty, checkInVars,
                 bags, collected, weight>>

(* The gateway has answered: the bags loaded before are paid for, and the  *)
(* check-in goes on, whatever has become of its seat.                      *)
RecordPayment(x) ==
  /\ pc[x] = "gateway"
  /\ WriteStatus(x, "IN_PROGRESS")
  /\ written' = [written EXCEPT ![x] =
       [bags   |-> Fees!Settled(seen[x], Fees!Owing(seen[x])),
        amount |-> @.amount]]
  /\ UNCHANGED <<bags, collected, weight, seen>>

(***************************************************************************)
(* The end of a transaction                                                *)
(***************************************************************************)
ForgetFees(x) ==
  /\ weight' = [weight EXCEPT ![x] = 0]
  /\ seen' = [seen EXCEPT ![x] = NoBags]
  /\ written' = [written EXCEPT ![x] = NothingWritten]

CommitFees(x) ==
  /\ CommitAll(x)
  /\ bags' = [b \in Bags |-> IF written[x].bags[b] = Nil THEN bags[b]
                             ELSE written[x].bags[b]]
  /\ collected' = collected + written[x].amount
  /\ ForgetFees(x)

AbandonFees(x) ==
  /\ AbandonAll(x)
  /\ ForgetFees(x)
  /\ UNCHANGED <<bags, collected>>

FeeStep(x) ==
  \/ \E w \in Weights : AddBaggage(x, w)
  \/ \E b \in Bags : InsertBag(x, b)
  \/ AskForPayment(x)
  \/ ProcessPayment(x)
  \/ InsertPayment(x)
  \/ RecordPayment(x)

(* Check-ins of other passengers are in CheckIn; here these only hold,     *)
(* confirm and release seats.                                              *)
CheckInOfTraveller(x) ==
  \/ \E s \in Seats : StartCheckIn(x, s, Traveller)
  \/ HoldForCheckIn(x)
  \/ FileCheckIn(x)
  \/ OpenCheckIn(x, Traveller)
  \/ LookAtSeat(x)
  \/ RecheckSeat(x)
  \/ ConfirmForCheckIn(x)
  \/ CompleteCheckIn(x)

OtherStep(x) == CheckInOfTraveller(x) \/ SeatRequest(x) \/ SeatTask(x)

FeesNext ==
  \/ Tick /\ UNCHANGED <<checkInVars, feeVars>>
  \/ \E x \in Sessions :
       \/ FeeStep(x)
       \/ OtherStep(x) /\ UNCHANGED feeVars
       \/ CommitFees(x)
       \/ AbandonFees(x)

FeesSpec == FeesInit /\ [][FeesNext]_allVars

(***************************************************************************)
(* Properties                                                              *)
(***************************************************************************)

(* Seen from the status, the bags and the payments, complete_checkin is    *)
(* what BaggagePayment takes it for - one test of the status when the      *)
(* check-in is opened, one late UPDATE - whatever happens to the seat in   *)
(* between; so what holds there holds here.                                *)
ImplementsFees == Fees!Spec

(* Who waits for whom: expire_hold for the owner of a row lock, an INSERT  *)
(* or UPDATE of a check-in for the session that has written its key.       *)
WaitsForRow(x) == pc[x] \in {"file", "complete", "update", "gateway"}

WaitsFor(x, y) ==
  /\ x # y
  /\ \/ pc[x] = "expire" /\ lock[req[x].seat] = y
     \/ /\ WaitsForRow(x)
        /\ filed[y] # Nil
        /\ req[y].passenger = req[x].passenger

(* Three services lock seats and check-ins in different orders, and some   *)
(* of them wait while they own something: there is no deadlock, for among  *)
(* any sessions there is one that waits for none of them.                  *)
NoCycleOfWaits ==
  \A some \in (SUBSET Sessions) \ {{}} :
    \E x \in some : \A y \in some : ~ WaitsFor(x, y)

(* "Check if check-in is completed" (baggage/service.py:44): nobody starts *)
(* over with a completed check-in.  It is taken back only by a request     *)
(* for fees that had it open before it was completed, never by the seat's  *)
(* expiry, by a second start or by whoever has the seat later.             *)
TakenBackBy(x) ==
  /\ opened[x] # Nil
  /\ opened[x].status # "COMPLETED"
  /\ req[x].passenger = Traveller
  /\ written[x] # NothingWritten

TakenBackByOverlapOnly ==
  [][Completed(Traveller) /\ checkin'[Traveller] # checkin[Traveller] =>
       \E x \in Sessions : TakenBackBy(x) /\ pc'[x] = "idle"]_allVars
================================================================================
