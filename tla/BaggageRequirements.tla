------------------------- MODULE BaggageRequirements --------------------------
(***************************************************************************)
(* What the baggage and payment flow is required to do: what holds with    *)
(* any number of concurrent requests, and what holds while requests for a  *)
(* check-in come one after the other.                                      *)
(***************************************************************************)
EXTENDS BaggagePayment

AllFees == TotalFee(bags, Present(bags))

PaidBags == {b \in Present(bags) : bags[b].fee_paid}

DueFees == FeePerKg * Excess(TotalWeight(bags))

(***************************************************************************)
(* Whatever the interleaving                                               *)
(***************************************************************************)

(* The passenger is never charged more than the excess of the baggage:     *)
(* a fee computed from bags that are out of date is too low, not too high. *)
NeverOvercharged == AllFees <= DueFees

(* No bag counts as paid that no payment has paid for: a bag added while   *)
(* the gateway works on a payment is not settled with it.                  *)
NothingIsFree == TotalFee(bags, PaidBags) <= collected

(* A fee, once paid, stays paid, and no bag is lost or charged anew        *)
(* afterwards, however requests overwrite each other.                      *)
BagKept(b) ==
  bags[b] # Nil =>
    /\ bags'[b] # Nil
    /\ bags'[b].excess_fee = bags[b].excess_fee
    /\ bags[b].fee_paid => bags'[b].fee_paid

BagsAreKept == [][\A b \in Bags : BagKept(b)]_vars

(* A check-in that waits for a payment can always be paid for:             *)
(* process_payment (payments/service.py:52, :63) takes a payment only in   *)
(* that status and only of a sum above zero, add_baggage puts the check-in *)
(* there with the status read before its bag was inserted, and payments    *)
(* settle what they saw before the gateway answered; no race of them       *)
(* leaves the passenger waiting with nothing to pay.                       *)
NeverStuckWaiting == status = "WAITING_FOR_PAYMENT" => Required(bags) > 0

(***************************************************************************)
(* One request after the other: as long as no two requests have been under *)
(* way at once, which a history variable records.                          *)
(***************************************************************************)
VARIABLE overlapped

Overlap ==
  \E x, y \in Sessions : x # y /\ pc'[x] # "idle" /\ pc'[y] # "idle"

RecordedInit == Init /\ overlapped = FALSE

RecordedNext == Next /\ overlapped' = (overlapped \/ Overlap)

RecordedSpec == RecordedInit /\ [][RecordedNext]_<<vars, overlapped>>

(* PRD.md:36, "100% enforcement of 25kg limit": the fees of the bags are   *)
(* those of the excess of their total weight.                              *)
FeesMatchExcess == ~overlapped => AllFees = DueFees

(* Nobody goes on in debt: while a fee is owed, the check-in waits for the *)
(* payment.                                                                *)
WaitsWhileInDebt ==
  ~overlapped => (Owing(bags) # {} => status = "WAITING_FOR_PAYMENT")

(* The money taken is the fees of the bags that are paid: no fee is paid   *)
(* twice, and none is marked paid that the payment did not include.        *)
EachFeePaidOnce == ~overlapped => TotalFee(bags, PaidBags) = collected

(* baggage/service.py:44, "Check if check-in is completed": nothing is     *)
(* added to a completed check-in, and it stays completed.                  *)
CompletedIsFinal ==
  [][status = "COMPLETED" /\ ~overlapped =>
       status' = "COMPLETED" /\ bags' = bags]_vars

(***************************************************************************)
(* PRD.md:38, "System remains consistent under load", "Zero data           *)
(* inconsistencies": the same of payments that run at once.                *)
(***************************************************************************)
PaidOnce == TotalFee(bags, PaidBags) = collected
===============================================================================
