------------------------------- MODULE SeatRows -------------------------------
(***************************************************************************)
(* The rows of tables seats and seat_state_history, and what an UPDATE     *)
(* does to a row.  Pure definitions: the modules that keep rows in their   *)
(* state EXTEND this one.                                                  *)
(*                                                                         *)
(* Columns nothing branches on are left out (seat_number, seat_class, the  *)
(* created/updated/held/confirmed_at stamps).                              *)
(***************************************************************************)
EXTENDS Integers

CONSTANTS
  Passengers,    \* the passengers' ids
  Nil            \* SQL's NULL, Python's None

ASSUME NilAssumption == Nil \notin Passengers /\ Nil \notin Int

Statuses == {"AVAILABLE", "HELD", "CONFIRMED"}

PassengerOrNil == Passengers \cup {Nil}

(* One row of table seats. *)
Row ==
  [status          : Statuses,
   held_by         : PassengerOrNil,
   hold_expires_at : Nat \cup {Nil},
   confirmed_by    : PassengerOrNil]

(* A seat as the seeding code and the migration's defaults create it. *)
NewRow ==
  [status          |-> "AVAILABLE",
   held_by         |-> Nil,
   hold_expires_at |-> Nil,
   confirmed_by    |-> Nil]

(***************************************************************************)
(* What the repository assigns to a seat object.                           *)
(***************************************************************************)

(* Mutant: the two new values the wrong way round. *)
HeldRowSwapped(row, p, expires) ==
  [status |-> "HELD", held_by |-> expires, hold_expires_at |-> p,
   confirmed_by |-> row.confirmed_by]

HeldRow(row, p, expires) ==
  [status |-> "HELD", held_by |-> p, hold_expires_at |-> expires,
   confirmed_by |-> row.confirmed_by]

(* confirm_seat assigns every column. *)
ConfirmedRow(p) ==
  [status |-> "CONFIRMED", held_by |-> Nil, hold_expires_at |-> Nil,
   confirmed_by |-> p]

(* Mutant: held_by is not reset. *)
FreedRowKeepsHolder(row) ==
  [row EXCEPT !.status = "AVAILABLE", !.hold_expires_at = Nil]

(* Shared by release_seat, expire_hold and cleanup_expired_holds. *)
FreedRow(row) ==
  [status |-> "AVAILABLE", held_by |-> Nil, hold_expires_at |-> Nil,
   confirmed_by |-> row.confirmed_by]

(***************************************************************************)
(* A flush sends an UPDATE with only the columns whose value differs from  *)
(* the value that was LOADED; the other columns keep what the table has.   *)
(* When the loaded object is out of date the outcome is a mixture of both. *)
(***************************************************************************)
Column(stored, old, new) == IF new = old THEN stored ELSE new

UpdatedRow(stored, old, new) ==
  [status          |-> Column(stored.status, old.status, new.status),
   held_by         |-> Column(stored.held_by, old.held_by, new.held_by),
   hold_expires_at |-> Column(stored.hold_expires_at,
                              old.hold_expires_at, new.hold_expires_at),
   confirmed_by    |-> Column(stored.confirmed_by,
                              old.confirmed_by, new.confirmed_by)]

(***************************************************************************)
(* When a hold is over.  The three places that ask do not agree on the     *)
(* last instant: expire_hold counts the hold as over, the periodic cleanup *)
(* and confirm_seat do not.                                                *)
(***************************************************************************)
Due(row, now)     == ~(row.hold_expires_at # Nil /\ row.hold_expires_at > now)
Overdue(row, now) == row.hold_expires_at # Nil /\ row.hold_expires_at < now

(* One row of table seat_state_history. *)
Reasons ==
  {"passenger_selected_seat", "passenger_confirmed_seat",
   "passenger_released_seat", "hold_expired_automatically",
   "hold_expired_cleanup"}

Entry ==
  [previous_status : Statuses,
   new_status      : Statuses,
   changed_by      : PassengerOrNil,
   change_reason   : Reasons]

(* NULL is neither a row nor an entry. *)
ASSUME NullAssumption == Nil \notin Row /\ Nil \notin Entry

(* Mutant: previous_status is read after the object was changed. *)
StateChangeReadLate(old, new, by, reason) ==
  [previous_status |-> new.status,
   new_status      |-> new.status,
   changed_by      |-> by,
   change_reason   |-> reason]

(* Mutant: the two statuses the wrong way round. *)
StateChangeSwapped(old, new, by, reason) ==
  [previous_status |-> new.status,
   new_status      |-> old.status,
   changed_by      |-> by,
   change_reason   |-> reason]

(* _record_state_change for a change of a seat object from old to new. *)
StateChange(old, new, by, reason) ==
  [previous_status |-> old.status,
   new_status      |-> new.status,
   changed_by      |-> by,
   change_reason   |-> reason]
===============================================================================
