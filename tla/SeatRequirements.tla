--------------------------- MODULE SeatRequirements ---------------------------
(***************************************************************************)
(* What SeatBooking is required to do: invariants, properties of steps,    *)
(* and the abstract lifecycle it implements.                               *)
(***************************************************************************)
EXTENDS SeatBooking

(***************************************************************************)
(* Invariants                                                              *)
(***************************************************************************)

(* The columns of a committed row agree with its status: a holder and a    *)
(* deadline exactly when HELD, a confirmer exactly when CONFIRMED.  Every  *)
(* transition assigns the columns one by one, and an UPDATE made from a    *)
(* stale object sends only some of them.                                   *)
WellFormed(row) ==
  /\ row.status = "HELD"      <=> row.held_by # Nil
  /\ row.status = "HELD"      <=> row.hold_expires_at # Nil
  /\ row.status = "CONFIRMED" <=> row.confirmed_by # Nil

RowShape == \A s \in Seats : WellFormed(seat[s])

(* A session that will commit a hold, a release or an expiry decided on    *)
(* the row as it still is: get_by_id_for_update was its first read of the  *)
(* seat.  Only confirm_seat decides on an object it read earlier.          *)
DecidedOnCurrentRow ==
  \A x \in Sessions, s \in Seats :
    /\ pc[x] = "commit"
    /\ dirty[x][s] # Nil
    /\ dirty[x][s].entry.change_reason # "passenger_confirmed_seat"
    => loaded[x][s] = seat[s]

(* A session that waits for a row lock (expire_hold) or is about to ask    *)
(* for one (confirm_seat) owns none: no cycle of waits can form.           *)
WaitersOwnNothing ==
  \A x \in Sessions :
    pc[x] \in {"confirm", "expire"} => \A s \in Seats : lock[s] # x

(* The audit table tells the truth about the present: the last entry of a  *)
(* seat's history ends in the status the seat has (WORKFLOW_DESIGN: every  *)
(* state change is recorded).                                              *)
AuditEndsInStatus ==
  \A s \in Seats :
    seat[s].status = IF hist[s] = Nil THEN "AVAILABLE" ELSE hist[s].new_status

(***************************************************************************)
(* Properties of steps                                                     *)
(***************************************************************************)

(* A hold is only ever given on a free seat: of many passengers who ask    *)
(* for one seat at once a single one gets it, and no hold is overwritten   *)
(* by another one.                                                         *)
NewHold(s) ==
  seat'[s].status = "HELD" /\ seat'[s] # seat[s] => seat[s].status = "AVAILABLE"

OneHolder == [][\A s \in Seats : NewHold(s)]_seatVars

(* CONFIRMED is final: no release, expiry, cleanup or new hold, however    *)
(* late it commits, gives up a confirmed seat.                             *)
StaysConfirmed(s) ==
  seat[s].status = "CONFIRMED" => seat'[s].status = "CONFIRMED"

ConfirmedIsFinal == [][\A s \in Seats : StaysConfirmed(s)]_seatVars

(* A held seat becomes free in two ways only, and the history says which:  *)
(* its holder released it, or its hold was due and the system expired it.  *)
(* A late expire task, left over from an earlier hold of the seat, never   *)
(* cuts the present hold short.                                            *)
FreedLawfully(s) ==
  seat[s].status = "HELD" /\ seat'[s].status = "AVAILABLE" =>
    \/ hist'[s].changed_by = seat[s].held_by
    \/ hist'[s].changed_by = Nil /\ Due(seat[s], now)

HoldsAreHonoured == [][\A s \in Seats : FreedLawfully(s)]_seatVars

(* Whose seat a row is, once it is not free. *)
Owner(row) == IF row.status = "HELD" THEN row.held_by ELSE row.confirmed_by

(* A seat passes from one passenger to another without becoming free only  *)
(* by the flaw ConfirmedOnce shows, and no other way: by the confirmation  *)
(* of a passenger who held the seat when confirm_seat read it unlocked.    *)
(* Whoever never held the seat never takes it from anybody.                *)
ChangesHands(s) ==
  /\ seat[s].status # "AVAILABLE"
  /\ seat'[s].status # "AVAILABLE"
  /\ Owner(seat'[s]) # Owner(seat[s])

FormerHolderConfirms(s) ==
  /\ hist'[s].change_reason = "passenger_confirmed_seat"
  /\ \E x \in Sessions :
       /\ pc[x] = "commit" /\ pc'[x] = "idle"
       /\ HeldBy(loaded[x][s], Owner(seat'[s]))

TakenByFormerHolderOnly ==
  [][\A s \in Seats : ChangesHands(s) => FormerHolderConfirms(s)]_seatVars

(* An entry of the history whose previous_status is not the status the     *)
(* seat had is always that of a confirmation of a seat that was no longer  *)
(* HELD as it was read; every other entry tells both statuses truly, in    *)
(* whatever order requests and tasks overlap.                              *)
RecordedTruly(s) ==
  seat'[s] # seat[s] =>
    /\ hist'[s].new_status = seat'[s].status
    /\ \/ hist'[s].previous_status = seat[s].status
       \/ /\ hist'[s].change_reason = "passenger_confirmed_seat"
          /\ hist'[s].previous_status = "HELD"

AuditSlipsAtConfirmationsOnly == [][\A s \in Seats : RecordedTruly(s)]_seatVars

(* The history is a chain: every change of status is recorded with the     *)
(* status the seat had.                                                    *)
Chained(s) ==
  seat'[s].status # seat[s].status =>
    /\ hist'[s].previous_status = seat[s].status
    /\ hist'[s].new_status = seat'[s].status

AuditIsAChain == [][\A s \in Seats : Chained(s)]_seatVars

(* PRD.md:70, "A CONFIRMED seat can never change state": nor its owner. *)
KeepsConfirmer(s) ==
  seat[s].status = "CONFIRMED" => seat'[s].confirmed_by = seat[s].confirmed_by

ConfirmedOnce == [][\A s \in Seats : KeepsConfirmer(s)]_seatVars

(***************************************************************************)
(* The inductive invariant: what makes the properties above true.  It says *)
(* of each session how far it is and what it may know and own there.       *)
(***************************************************************************)

(* Before its first locked read a session owns no lock and wrote nothing. *)
OwnsNothing(x) == \A s \in Seats : lock[s] # x /\ dirty[x][s] = Nil

(* What can be committed to a seat: a new hold of the free seat, the end   *)
(* of the hold the seat is under - both decided on the row as it is - or a *)
(* confirmation, whose four columns all differ from those of a held row.   *)
HoldDecided(s, d) ==
  /\ seat[s].status = "AVAILABLE"
  /\ d.row.hold_expires_at # Nil
  /\ d.entry.changed_by # Nil
  /\ d.row = HeldRow(seat[s], d.entry.changed_by, d.row.hold_expires_at)

FreeingDecided(s, d) ==
  /\ seat[s].status = "HELD"
  /\ d.row = FreedRow(seat[s])
  /\ \/ d.entry.changed_by = seat[s].held_by
     \/ d.entry.changed_by = Nil /\ Due(seat[s], now)

ConfirmationDecided(d) ==
  /\ d.entry.change_reason = "passenger_confirmed_seat"
  /\ d.entry.changed_by # Nil
  /\ d.row = ConfirmedRow(d.entry.changed_by)

Decided(x, s) ==
  LET d == dirty[x][s]
  IN /\ d.entry.previous_status = loaded[x][s].status
     /\ d.entry.new_status = d.row.status
     /\ \/ loaded[x][s] = seat[s] /\ HoldDecided(s, d)
        \/ loaded[x][s] = seat[s] /\ FreeingDecided(s, d)
        \/ ConfirmationDecided(d) /\ HeldBy(loaded[x][s], d.entry.changed_by)

(* Only freeing seats is ever done to several of them at once. *)
OnlyFreesMany(x) ==
  \A s, t \in Seats :
    /\ s # t
    /\ dirty[x][s] # Nil
    /\ dirty[x][t] # Nil
    => dirty[x][s].row.status = "AVAILABLE"

SessionInv(x) ==
  /\ \A s \in Seats : dirty[x][s] # Nil => lock[s] = x
  /\ pc[x] \in {"idle", "confirm", "expire"} => OwnsNothing(x)
  /\ pc[x] \in {"confirm", "expire"} => req[x] \in Request
  /\ pc[x] = "confirm" => req[x].passenger # Nil
  /\ pc[x] = "idle" \/ (pc[x] = "expire" /\ req[x].passenger = Nil)
       => \A s \in Seats : loaded[x][s] = Nil
  /\ \A s \in Seats : loaded[x][s] # Nil => WellFormed(loaded[x][s])
  /\ pc[x] = "commit" => \A s \in Seats : dirty[x][s] # Nil => Decided(x, s)
  /\ OnlyFreesMany(x)

SeatInv ==
  /\ SeatTypeOK
  /\ RowShape
  /\ AuditEndsInStatus
  /\ \A x \in Sessions : SessionInv(x)

(***************************************************************************)
(* The lifecycle of PRD.md 2.1                                             *)
(***************************************************************************)

Booking == [s \in Seats |-> [status |-> seat[s].status, owner |-> Owner(seat[s])]]

Lifecycle == INSTANCE SeatLifecycle WITH booking <- Booking

(* SeatBooking implements the lifecycle: when one session runs at a time,  *)
(* and with any number of sessions as long as nobody confirms.             *)
ImplementsLifecycle == Lifecycle!LifecycleSpec
===============================================================================
