---------------------------- MODULE BaggagePayment ----------------------------
(***************************************************************************)
(* The baggage, the payments and the status of one check-in: add_baggage,  *)
(* process_payment and complete_checkin, run by concurrent sessions.       *)
(*                                                                         *)
(* Nothing here locks the check-in before reading it.  Each request reads  *)
(* the check-in, then its bags, and decides on these objects; its UPDATE   *)
(* of the check-in waits for a transaction that has updated it and then    *)
(* overwrites it (READ COMMITTED).  An UPDATE is sent only if the status   *)
(* differs from the one loaded.                                            *)
(*                                                                         *)
(* What complete_checkin does to the seat is in module CheckIn; here it    *)
(* succeeds or fails.  Weights are whole kilograms, money whole units.     *)
(***************************************************************************)
EXTENDS Integers, FiniteSets, FiniteSetsExt

CONSTANTS
  Sessions,           \* the requests under way
  Bags,               \* bound: ids for rows of table baggage
  Weights,            \* weights a request may have: 0 < w <= 50
  MaxBaggageWeight,   \* settings.max_baggage_weight_kg
  FeePerKg,           \* settings.excess_baggage_fee_per_kg
  Nil

ASSUME BagsAssumption == IsFiniteSet(Bags)

ASSUME WeightAssumption ==
  Weights \subseteq 1..50 /\ MaxBaggageWeight \in Nat /\ FeePerKg \in Nat

CheckInStatuses == {"IN_PROGRESS", "WAITING_FOR_PAYMENT", "COMPLETED"}

Bag == [weight_kg : Nat, excess_fee : Nat, fee_paid : BOOLEAN]

ASSUME NilAssumption == Nil \notin CheckInStatuses \cup Bag

VARIABLES
  status,    \* the committed status of the check-in
  bags,      \* its committed rows of table baggage
  collected, \* the sum of its committed SUCCESS rows of table payments
  pc,        \* where each session is
  opened,    \* the status each session has loaded
  seen,      \* the bags each session has loaded
  request,   \* the weight of the bag each session was asked to add
  unsaved    \* what each session has written, or is about to, uncommitted

vars == <<status, bags, collected, pc, opened, seen, request, unsaved>>

NoBags == [b \in Bags |-> Nil]

(* Nil: the status is not written. *)
Unsaved == [status : CheckInStatuses \cup {Nil},
            bags   : [Bags -> Bag \cup {Nil}],
            amount : Nat]

NothingUnsaved == [status |-> Nil, bags |-> NoBags, amount |-> 0]

TypeOK ==
  /\ status \in CheckInStatuses
  /\ bags \in [Bags -> Bag \cup {Nil}]
  /\ collected \in Nat
  /\ pc \in [Sessions -> {"idle", "add", "pay", "gateway", "update", "commit", "abort"}]
  /\ opened \in [Sessions -> CheckInStatuses \cup {Nil}]
  /\ seen \in [Sessions -> [Bags -> Bag \cup {Nil}]]
  /\ request \in [Sessions -> Weights \cup {0}]
  /\ unsaved \in [Sessions -> Unsaved]

(* A check-in as start_checkin leaves it. *)
Init ==
  /\ status = "IN_PROGRESS"
  /\ bags = NoBags
  /\ collected = 0
  /\ pc = [x \in Sessions |-> "idle"]
  /\ opened = [x \in Sessions |-> Nil]
  /\ seen = [x \in Sessions |-> NoBags]
  /\ request = [x \in Sessions |-> 0]
  /\ unsaved = [x \in Sessions |-> NothingUnsaved]

(***************************************************************************)
(* Sums over bags                                                          *)
(***************************************************************************)
Present(rows) == {b \in Bags : rows[b] # Nil}

TotalWeight(rows) ==
  MapThenSumSet(LAMBDA b : rows[b].weight_kg, Present(rows))

TotalFee(rows, some) == MapThenSumSet(LAMBDA b : rows[b].excess_fee, some)

Owing(rows) ==
  {b \in Present(rows) : ~rows[b].fee_paid /\ rows[b].excess_fee > 0}

(* Mutant: the bags paid for count as well. *)
RequiredForAll(rows) == TotalFee(rows, Present(rows))

Required(rows) == TotalFee(rows, Owing(rows))

Excess(weight) ==
  IF weight > MaxBaggageWeight THEN weight - MaxBaggageWeight ELSE 0

(* Mutant: the excess of earlier bags is charged again. *)
FeeOfWholeExcess(rows, w) == FeePerKg * Excess(TotalWeight(rows) + w)

(* Mutant: the two totals the wrong way round. *)
FeeForBagSwapped(rows, w) ==
  FeePerKg * (Excess(TotalWeight(rows)) - Excess(TotalWeight(rows) + w))

(* The fee of one more bag: what it adds to the excess. *)
FeeForBag(rows, w) ==
  FeePerKg * (Excess(TotalWeight(rows) + w) - Excess(TotalWeight(rows)))

(***************************************************************************)
(* Steps                                                                   *)
(***************************************************************************)
Goto(x, label) == pc' = [pc EXCEPT ![x] = label]

(* A request's first SELECT: the check-in, refused or gone on with. *)
Open(x, accepted, label) ==
  /\ pc[x] = "idle"
  /\ opened' = [opened EXCEPT ![x] = status]
  /\ Goto(x, IF status \in accepted THEN label ELSE "abort")

(* The UPDATE of the check-in does not wait. *)
RowFree(x) ==
  \A y \in Sessions \ {x} : ~(pc[y] = "commit" /\ unsaved[y].status # Nil)

(* An id nobody has used. *)
Fresh(b) == bags[b] = Nil /\ \A y \in Sessions : unsaved[y].bags[b] = Nil

(* Mutant: the test of the status is forgotten. *)
AddBaggageAnyway(x, w) ==
  /\ Open(x, CheckInStatuses, "add")
  /\ request' = [request EXCEPT ![x] = w]
  /\ UNCHANGED <<status, bags, collected, seen, unsaved>>

AddBaggage(x, w) ==
  /\ Open(x, CheckInStatuses \ {"COMPLETED"}, "add")
  /\ request' = [request EXCEPT ![x] = w]
  /\ UNCHANGED <<status, bags, collected, seen, unsaved>>

(* The SELECT of the bags, the fee, and the INSERT of the new bag. *)
InsertBag(x, b) ==
  LET fee  == FeeForBag(bags, request[x])
      sent == fee > 0 /\ opened[x] # "WAITING_FOR_PAYMENT"
  IN /\ pc[x] = "add"
     /\ Fresh(b)
     /\ seen' = [seen EXCEPT ![x] = bags]
     /\ unsaved' = [unsaved EXCEPT ![x] =
          [status |-> IF sent THEN "WAITING_FOR_PAYMENT" ELSE Nil,
           bags   |-> [NoBags EXCEPT ![b] = [weight_kg  |-> request[x],
                                             excess_fee |-> fee,
                                             fee_paid   |-> FALSE]],
           amount |-> 0]]
     /\ Goto(x, IF sent THEN "update" ELSE "commit")
     /\ UNCHANGED <<status, bags, collected, opened, request>>

(* The UPDATE of the check-in's status gets the row. *)
UpdateStatus(x) ==
  /\ pc[x] = "update"
  /\ RowFree(x)
  /\ Goto(x, "commit")
  /\ UNCHANGED <<status, bags, collected, opened, seen, request, unsaved>>

ProcessPayment(x) ==
  /\ Open(x, {"WAITING_FOR_PAYMENT"}, "pay")
  /\ UNCHANGED <<status, bags, collected, seen, request, unsaved>>

(* The SELECT of the bags, and the INSERT of a PENDING payment if the      *)
(* amount the passenger sent is the amount required.                       *)
InsertPayment(x) ==
  /\ pc[x] = "pay"
  /\ seen' = [seen EXCEPT ![x] = bags]
  /\ \/ Goto(x, "abort") /\ UNCHANGED unsaved
     \/ /\ Required(bags) > 0
        /\ unsaved' = [unsaved EXCEPT ![x].amount = Required(bags)]
        /\ Goto(x, "gateway")
  /\ UNCHANGED <<status, bags, collected, opened, request>>

(* Mutant: the fee is cleared. *)
SettledCleared(rows, some) ==
  [b \in Bags |-> IF b \in some THEN [rows[b] EXCEPT !.excess_fee = 0] ELSE Nil]

Settled(rows, some) ==
  [b \in Bags |-> IF b \in some THEN [rows[b] EXCEPT !.fee_paid = TRUE] ELSE Nil]

(* Mutant: mark_fees_paid marks the bags there are now. *)
RecordPaymentOfAll(x) ==
  /\ pc[x] = "gateway"
  /\ RowFree(x)
  /\ unsaved' = [unsaved EXCEPT ![x].bags = Settled(bags, Owing(bags)),
                                ![x].status = "IN_PROGRESS"]
  /\ Goto(x, "commit")
  /\ UNCHANGED <<status, bags, collected, opened, seen, request>>

(* Mutant: the check-in is not resumed. *)
RecordPaymentOnly(x) ==
  /\ pc[x] = "gateway"
  /\ unsaved' = [unsaved EXCEPT ![x].bags = Settled(seen[x], Owing(seen[x]))]
  /\ Goto(x, "commit")
  /\ UNCHANGED <<status, bags, collected, opened, seen, request>>

(* The gateway has answered: the payment is a SUCCESS, the bags loaded     *)
(* before it are paid for, and the check-in goes on.  Another payment that *)
(* writes the same bags also writes the check-in, so this is one wait.     *)
RecordPayment(x) ==
  /\ pc[x] = "gateway"
  /\ RowFree(x)
  /\ unsaved' = [unsaved EXCEPT ![x] =
       [status |-> "IN_PROGRESS",
        bags   |-> Settled(seen[x], Owing(seen[x])),
        amount |-> @.amount]]
  /\ Goto(x, "commit")
  /\ UNCHANGED <<status, bags, collected, opened, seen, request>>

(* Mutant: only a completed check-in is refused. *)
CompleteCheckInInDebt(x) ==
  /\ status # "COMPLETED"
  /\ Open(x, {"IN_PROGRESS", "WAITING_FOR_PAYMENT"}, "update")
  /\ unsaved' = [unsaved EXCEPT ![x].status = "COMPLETED"]
  /\ UNCHANGED <<status, bags, collected, seen, request>>

(* The seat is confirmed, or it is lost and the request fails. *)
CompleteCheckIn(x) ==
  /\ \/ /\ Open(x, {}, "abort")
        /\ UNCHANGED unsaved
     \/ /\ status = "IN_PROGRESS"
        /\ Open(x, {"IN_PROGRESS"}, "update")
        /\ unsaved' = [unsaved EXCEPT ![x].status = "COMPLETED"]
  /\ UNCHANGED <<status, bags, collected, seen, request>>

(***************************************************************************)
(* The end of a transaction                                                *)
(***************************************************************************)
EndSession(x) ==
  /\ Goto(x, "idle")
  /\ opened' = [opened EXCEPT ![x] = Nil]
  /\ seen' = [seen EXCEPT ![x] = NoBags]
  /\ request' = [request EXCEPT ![x] = 0]
  /\ unsaved' = [unsaved EXCEPT ![x] = NothingUnsaved]

Commit(x) ==
  LET u == unsaved[x]
  IN /\ pc[x] = "commit"
     /\ status' = IF u.status = Nil THEN status ELSE u.status
     /\ bags' = [b \in Bags |-> IF u.bags[b] = Nil THEN bags[b] ELSE u.bags[b]]
     /\ collected' = collected + u.amount
     /\ EndSession(x)

(* An exception, or the loss of the process: everything is rolled back. *)
Abandon(x) ==
  /\ pc[x] # "idle"
  /\ EndSession(x)
  /\ UNCHANGED <<status, bags, collected>>

Step(x) ==
  \/ \E w \in Weights : AddBaggage(x, w)
  \/ \E b \in Bags : InsertBag(x, b)
  \/ UpdateStatus(x)
  \/ ProcessPayment(x)
  \/ InsertPayment(x)
  \/ RecordPayment(x)
  \/ CompleteCheckIn(x)
  \/ Commit(x)
  \/ Abandon(x)

Next == \E x \in Sessions : Step(x)

Spec == Init /\ [][Next]_vars
===============================================================================
