---------------------------- MODULE CheckInProofs -----------------------------
(***************************************************************************)
(* Check-in among the seat operations, for any passengers, seats, sessions *)
(* and times.  SeatInv does not hold here: a check-in decides on seat      *)
(* objects loaded before its lock, so that it can put a hold on a seat     *)
(* another passenger has confirmed.  CheckInInv says what is left.         *)
(***************************************************************************)
EXTENDS CheckInRequirements, SeatRefinementProofs

(***************************************************************************)
(* The inductive invariant                                                 *)
(***************************************************************************)

(* What remains of WellFormed when holds are put on confirmed seats.       *)
Shaped(row) ==
  /\ row.status = "HELD" <=> row.held_by # Nil
  /\ row.status = "HELD" <=> row.hold_expires_at # Nil

ForPassenger(x) == req[x] \in Request /\ req[x].passenger # Nil

(* Session x has flushed the hold of the seat its passenger selected.      *)
SelectedSeat(x) ==
  LET d == dirty[x][req[x].seat]
  IN /\ ForPassenger(x)
     /\ d # Nil
     /\ HeldBy(d.row, req[x].passenger)
     /\ d.entry.changed_by = req[x].passenger
     /\ d.entry.change_reason = "passenger_selected_seat"

(* Session x works on the hold of s for a check-in it is about to file, or *)
(* has filed as a new one.                                                 *)
HeldForCheckIn(x, s) ==
  /\ s = req[x].seat
  /\ \/ pc[x] = "file"
     \/ filed[x] # Nil /\ checkin[req[x].passenger] = Nil

(* A row version on its way to a commit.  A seat is only freed by who has  *)
(* read its row under the lock, and only held, when it is not free, for a  *)
(* new check-in.                                                           *)
Written(x, s) ==
  LET d == dirty[x][s]
  IN /\ Shaped(d.row)
     /\ d.entry.new_status = d.row.status
     /\ d.row.status = "AVAILABLE" => FreeingDecided(s, d)
     /\ d.row.status = "HELD" => seat[s].status = "AVAILABLE" \/ HeldForCheckIn(x, s)

(* The check-in a session has opened is still there, with the seat the     *)
(* session works on; its status may have changed.                          *)
OpenedKept(x) ==
  /\ ForPassenger(x)
  /\ checkin[req[x].passenger] # Nil
  /\ checkin[req[x].passenger].seat = req[x].seat

(* A check-in row is filed last in its transaction: it is new and comes    *)
(* with its hold, or it completes the one that is there.                   *)
FiledRightly(x) ==
  LET old == checkin[req[x].passenger]
  IN /\ pc[x] = "commit"
     /\ ForPassenger(x)
     /\ \/ old = Nil /\ filed[x].seat = req[x].seat /\ SelectedSeat(x)
        \/ old # Nil /\ filed[x].seat = old.seat /\ filed[x].status = "COMPLETED"

(* What a session may know at each of its labels ...                       *)
Knowledge(x) ==
  /\ pc[x] = "idle" => opened[x] = Nil
  /\ pc[x] = "idle" \/ (pc[x] = "expire" /\ req[x].passenger = Nil)
       => \A s \in Seats : loaded[x][s] = Nil
  /\ \A s \in Seats : loaded[x][s] # Nil => Shaped(loaded[x][s])
  /\ pc[x] \in {"hold", "file", "seat", "recheck", "confirm", "complete"}
       => ForPassenger(x)
  /\ pc[x] = "expire" => req[x] \in Request
  /\ pc[x] \in {"seat", "recheck", "complete"} => opened[x] # Nil
  /\ opened[x] # Nil => OpenedKept(x)

(* ... and what it may own and have changed: nothing before its one row    *)
(* lock, and no check-in row before its last step.                         *)
Early == {"idle", "hold", "seat", "recheck", "confirm", "expire"}

Changes(x) ==
  /\ \A s \in Seats : dirty[x][s] # Nil => lock[s] = x
  /\ pc[x] \in Early => OwnsNothing(x)
  /\ pc[x] \in {"file", "complete", "commit"} =>
       \A s \in Seats : dirty[x][s] # Nil => Written(x, s)
  /\ pc[x] = "file" => SelectedSeat(x)
  /\ filed[x] # Nil => FiledRightly(x)

RowsShaped == \A s \in Seats : Shaped(seat[s])

(* Two sessions never have a new version of one check-in under way: the    *)
(* unique index and the row lock of the checkins table.                    *)
OneFilerEach ==
  \A x, y \in Sessions :
    x # y /\ filed[x] # Nil /\ filed[y] # Nil =>
      req[x].passenger # req[y].passenger

CheckInInv ==
  /\ CheckInTypeOK
  /\ RowsShaped
  /\ AuditEndsInStatus
  /\ OneFilerEach
  /\ \A x \in Sessions : Knowledge(x) /\ Changes(x)

(***************************************************************************)
(* Steps within a transaction                                              *)
(***************************************************************************)

(* What a step of session x leaves alone, until it ends its transaction.   *)
LeavesOthers(x) ==
  /\ UNCHANGED <<now, seat, hist, checkin>>
  /\ \A y \in Sessions \ {x} :
       /\ pc'[y] = pc[y]
       /\ req'[y] = req[y]
       /\ loaded'[y] = loaded[y]
       /\ dirty'[y] = dirty[y]
       /\ opened'[y] = opened[y]
       /\ filed'[y] = filed[y]
  /\ \A s \in Seats : lock'[s] = lock[s] \/ (lock[s] = Nil /\ lock'[s] = x)

(* Such a step preserves what is known of every other session, and the new *)
(* check-in row it may file is one that nobody else is filing.             *)
LEMMA OwnStep ==
  ASSUME CheckInInv, NEW x \in Sessions, LeavesOthers(x), CheckInTypeOK',
         Knowledge(x)', Changes(x)',
         filed'[x] # Nil =>
           \A y \in Sessions \ {x} :
             filed[y] # Nil => req[y].passenger # req'[x].passenger
  PROVE  CheckInInv'
<1>1. RowsShaped' /\ AuditEndsInStatus'
  BY DEF CheckInInv, LeavesOthers, RowsShaped, AuditEndsInStatus, Shaped
<1>2. OneFilerEach'
  BY DEF CheckInInv, LeavesOthers, OneFilerEach
<1>3. ASSUME NEW y \in Sessions, y # x
      PROVE  Knowledge(y)' /\ Changes(y)'
  <2>1. /\ pc'[y] = pc[y] /\ req'[y] = req[y] /\ loaded'[y] = loaded[y]
        /\ dirty'[y] = dirty[y] /\ opened'[y] = opened[y] /\ filed'[y] = filed[y]
        /\ checkin' = checkin /\ seat' = seat /\ now' = now
    BY <1>3 DEF LeavesOthers
  <2>2. \A s \in Seats : lock'[s] = y <=> lock[s] = y
    BY <1>3, SessionAssumption DEF LeavesOthers, CheckInInv, CheckInTypeOK
  <2>3. ForPassenger(y)' <=> ForPassenger(y)
    BY <2>1 DEF ForPassenger
  <2>4. SelectedSeat(y)' <=> SelectedSeat(y)
    BY <2>1, <2>3 DEF SelectedSeat, HeldBy
  <2>5. OpenedKept(y)' <=> OpenedKept(y)
    BY <2>1, <2>3 DEF OpenedKept
  <2>6. FiledRightly(y)' <=> FiledRightly(y)
    BY <2>1, <2>3, <2>4 DEF FiledRightly
  <2>7. ASSUME NEW s \in Seats
        PROVE  Written(y, s)' <=> Written(y, s)
    BY <2>1 DEF Written, Shaped, FreeingDecided, Due, HeldForCheckIn
  <2>8. OwnsNothing(y)' <=> OwnsNothing(y)
    BY <2>1, <2>2 DEF OwnsNothing
  <2>9. Knowledge(y)'
    BY <2>1, <2>3, <2>5 DEF CheckInInv, Knowledge, Shaped
  <2>10. Changes(y)'
    BY <2>1, <2>2, <2>4, <2>6, <2>7, <2>8 DEF CheckInInv, Changes
  <2> QED
    BY <2>9, <2>10
<1> QED
  BY <1>1, <1>2, <1>3 DEF CheckInInv

(* The object a session works on is a row whose hold columns agree.        *)
LEMMA ObjectsAreShaped ==
  ASSUME CheckInInv, NEW x \in Sessions, NEW s \in Seats
  PROVE  Read(x, s) \in Row /\ Shaped(Read(x, s))
  BY DEF CheckInInv, CheckInTypeOK, RowsShaped, Knowledge, Read

(* A session that owns nothing has filed nothing.                          *)
LEMMA EarlyHasFiledNothing ==
  ASSUME CheckInInv, NEW x \in Sessions, pc[x] # "commit"
  PROVE  filed[x] = Nil
  BY DEF CheckInInv, Changes, FiledRightly

(* Until the session has opened a check-in, its request may be new.        *)
RequestKept(x) ==
  /\ RequestOf(x)
  /\ opened[x] # Nil => req'[x] = req[x]

(* The lock is refused, or the object fails a test, or there is nothing to *)
(* change: the session goes on to its end without a row version.           *)
LEMMA UnchangedRows ==
  ASSUME CheckInInv, NEW x \in Sessions, NEW s \in Seats, pc[x] \in Early,
         UNCHANGED <<now, seat, hist, checkInVars>>, RequestKept(x),
         \/ Refused(x, s)
         \/ Acquire(x, s) /\ UNCHANGED dirty /\ (Goto(x, "abort") \/ Goto(x, "commit"))
  PROVE  CheckInInv'
<1>1. CheckInTypeOK /\ Knowledge(x) /\ Changes(x) /\ OwnsNothing(x) /\ filed[x] = Nil
  BY EarlyHasFiledNothing DEF CheckInInv, Changes, Early
<1>2. Read(x, s) \in Row /\ Shaped(Read(x, s))
  BY ObjectsAreShaped
<1>3. /\ \/ pc' = [pc EXCEPT ![x] = "abort"]
         \/ pc' = [pc EXCEPT ![x] = "commit"]
      /\ UNCHANGED <<dirty, checkin, opened, filed, timers>>
      /\ \/ lock' = lock /\ loaded' = loaded
         \/ /\ lock[s] = Nil
            /\ lock' = [lock EXCEPT ![s] = x]
            /\ loaded' = [loaded EXCEPT ![x][s] = Read(x, s)]
  BY DEF Refused, Acquire, Goto, Load, checkInVars
<1>4. CheckInTypeOK'
  <2>1. pc' \in [Sessions -> Labels]
    BY <1>1, <1>3 DEF CheckInTypeOK, Labels
  <2>2. CASE lock' = lock /\ loaded' = loaded
    BY <1>1, <1>3, <2>1, <2>2 DEF CheckInTypeOK, RequestKept, RequestOf
  <2>3. CASE /\ lock' = [lock EXCEPT ![s] = x]
             /\ loaded' = [loaded EXCEPT ![x][s] = Read(x, s)]
    BY <1>1, <1>2, <1>3, <2>1, <2>3 DEF CheckInTypeOK, RequestKept, RequestOf
  <2> QED
    BY <1>3, <2>2, <2>3
<1>5. LeavesOthers(x)
  BY <1>1, <1>3 DEF LeavesOthers, CheckInTypeOK, RequestKept, RequestOf
<1>6. pc'[x] \in {"abort", "commit"} /\ filed'[x] = Nil
      /\ \A t \in Seats : dirty'[x][t] = Nil
  BY <1>1, <1>3 DEF CheckInTypeOK, OwnsNothing
<1>7. \A t \in Seats : loaded'[x][t] # Nil => Shaped(loaded'[x][t])
  <2>1. CASE loaded' = loaded
    BY <1>1, <2>1 DEF Knowledge
  <2>2. CASE loaded' = [loaded EXCEPT ![x][s] = Read(x, s)]
    BY <1>1, <1>2, <2>2 DEF CheckInTypeOK, Knowledge
  <2> QED
    BY <1>3, <2>1, <2>2
<1>8. opened'[x] # Nil => OpenedKept(x)'
  BY <1>1, <1>3 DEF Knowledge, OpenedKept, ForPassenger, RequestKept
<1>9. Knowledge(x)'
  BY <1>6, <1>7, <1>8 DEF Knowledge, Shaped
<1>10. Changes(x)'
  BY <1>6 DEF Changes, Early
<1> QED
  BY <1>4, <1>5, <1>6, <1>9, <1>10, OwnStep

(* The object is changed to d and flushed; the session goes on to file or  *)
(* to update its check-in, to its commit, or to its rollback.              *)
LEMMA ChangedRow ==
  ASSUME CheckInInv, NEW x \in Sessions, NEW s \in Seats, pc[x] \in Early,
         UNCHANGED <<now, seat, hist, checkInVars>>, RequestKept(x),
         Acquire(x, s),
         NEW d \in Change, dirty' = [dirty EXCEPT ![x][s] = d],
         NEW l \in {"file", "complete", "commit", "abort"}, Goto(x, l),
         l # "abort" => Written(x, s)',
         l = "file" => SelectedSeat(x)',
         l = "complete" => opened[x] # Nil
  PROVE  CheckInInv'
<1>1. CheckInTypeOK /\ Knowledge(x) /\ Changes(x) /\ OwnsNothing(x) /\ filed[x] = Nil
  BY EarlyHasFiledNothing DEF CheckInInv, Changes, Early
<1>2. Read(x, s) \in Row /\ Shaped(Read(x, s))
  BY ObjectsAreShaped
<1>3. /\ pc' = [pc EXCEPT ![x] = l]
      /\ UNCHANGED <<checkin, opened, filed, timers>>
      /\ lock[s] = Nil
      /\ lock' = [lock EXCEPT ![s] = x]
      /\ loaded' = [loaded EXCEPT ![x][s] = Read(x, s)]
  BY DEF Acquire, Goto, Load, checkInVars
<1>4. CheckInTypeOK'
  <2>1. pc' \in [Sessions -> Labels]
    BY <1>1, <1>3 DEF CheckInTypeOK, Labels
  <2> QED
    BY <1>1, <1>2, <1>3, <2>1 DEF CheckInTypeOK, RequestKept, RequestOf
<1>5. LeavesOthers(x)
  BY <1>1, <1>3 DEF LeavesOthers, CheckInTypeOK, RequestKept, RequestOf
<1>6. pc'[x] = l /\ filed'[x] = Nil /\ lock'[s] = x
      /\ \A t \in Seats : t # s => dirty'[x][t] = Nil
  BY <1>1, <1>3 DEF CheckInTypeOK, OwnsNothing
<1>7. \A t \in Seats : loaded'[x][t] # Nil => Shaped(loaded'[x][t])
  BY <1>1, <1>2, <1>3 DEF CheckInTypeOK, Knowledge
<1>8. opened'[x] # Nil => OpenedKept(x)'
  BY <1>1, <1>3 DEF Knowledge, OpenedKept, ForPassenger, RequestKept
<1>9. l = "complete" => ForPassenger(x)' /\ opened'[x] # Nil
  BY <1>3, <1>8 DEF OpenedKept
<1>10. l = "file" => ForPassenger(x)'
  BY DEF SelectedSeat
<1>11. Knowledge(x)'
  BY <1>6, <1>7, <1>8, <1>9, <1>10 DEF Knowledge, Shaped
<1>12. Changes(x)'
  BY <1>6 DEF Changes, Early
<1> QED
  BY <1>4, <1>5, <1>6, <1>11, <1>12, OwnStep

(* The session reads without a lock, or only moves on.                     *)
LEMMA NothingOwned ==
  ASSUME CheckInInv, NEW x \in Sessions, pc[x] \in Early,
         UNCHANGED <<now, seat, hist, lock, dirty, checkin, filed, timers>>,
         RequestOf(x),
         NEW l \in {"hold", "seat", "recheck", "confirm", "complete", "expire", "abort"},
         Goto(x, l),
         loaded' \in [Sessions -> [Seats -> Row \cup {Nil}]],
         \A y \in Sessions \ {x} : loaded'[y] = loaded[y],
         opened' \in [Sessions -> CheckInRow \cup {Nil}],
         \A y \in Sessions \ {x} : opened'[y] = opened[y],
         \A s \in Seats : loaded'[x][s] # Nil => Shaped(loaded'[x][s]),
         opened'[x] # Nil => OpenedKept(x)',
         l \in {"seat", "recheck", "complete"} => opened'[x] # Nil,
         l \in {"hold", "confirm"} => ForPassenger(x)',
         l = "expire" => req'[x] \in Request,
         l = "expire" /\ req'[x].passenger = Nil =>
           \A s \in Seats : loaded'[x][s] = Nil
  PROVE  CheckInInv'
<1>1. CheckInTypeOK /\ Knowledge(x) /\ Changes(x) /\ OwnsNothing(x) /\ filed[x] = Nil
  BY EarlyHasFiledNothing DEF CheckInInv, Changes, Early
<1>2. pc' = [pc EXCEPT ![x] = l]
  BY DEF Goto
<1>3. CheckInTypeOK'
  <2>1. pc' \in [Sessions -> Labels]
    BY <1>1, <1>2 DEF CheckInTypeOK, Labels
  <2> QED
    BY <1>1, <2>1 DEF CheckInTypeOK, RequestOf
<1>4. LeavesOthers(x)
  BY <1>1, <1>2 DEF LeavesOthers, CheckInTypeOK, RequestOf
<1>5. pc'[x] = l /\ filed'[x] = Nil /\ OwnsNothing(x)'
      /\ \A t \in Seats : dirty'[x][t] = Nil
  BY <1>1, <1>2 DEF CheckInTypeOK, OwnsNothing
<1>6. l \in {"seat", "recheck", "complete"} => ForPassenger(x)'
  BY DEF OpenedKept
<1>7. Knowledge(x)'
  BY <1>5, <1>6 DEF Knowledge, Shaped
<1>8. Changes(x)'
  BY <1>5 DEF Changes, Early
<1> QED
  BY <1>3, <1>4, <1>5, <1>7, <1>8, OwnStep

(***************************************************************************)
(* What the repository writes                                              *)
(***************************************************************************)

(* What a flush makes of a seat is a row version with a history entry.     *)
LEMMA FlushesAreTyped ==
  ASSUME CheckInInv, NEW x \in Sessions, NEW s \in Seats, NEW new \in Row,
         NEW by \in PassengerOrNil, NEW reason \in Reasons
  PROVE  ChangeOf(x, s, new, by, reason) \in Change
<1>1. Read(x, s) \in Row /\ seat[s] \in Row
  BY ObjectsAreShaped DEF CheckInInv, CheckInTypeOK
<1>2. UpdatedRow(seat[s], Read(x, s), new) \in Row
  BY <1>1, UpdatesAreTyped
<1>3. StateChange(Read(x, s), new, by, reason) \in Entry
  BY <1>1 DEF StateChange, Entry, Row
<1> QED
  BY <1>2, <1>3 DEF ChangeOf, Change

(* A hold decided on a free object, however old: status, holder and        *)
(* deadline are written whatever the stored row has become.                *)
LEMMA HoldIsWritten ==
  ASSUME NEW stored \in Row, NEW old \in Row, NEW p \in Passengers, NEW e \in Nat,
         Shaped(old), old.status = "AVAILABLE"
  PROVE  LET new == UpdatedRow(stored, old, HeldRow(old, p, e))
         IN  HeldBy(new, p) /\ Shaped(new)
<1>1. /\ old.held_by = Nil /\ old.hold_expires_at = Nil
      /\ p # Nil /\ e # Nil
  BY NilAssumption DEF Shaped
<1> QED
  BY <1>1 DEF UpdatedRow, Column, HeldRow, HeldBy, Shaped

(* The confirmation of a held object, however old, leaves a seat that is   *)
(* CONFIRMED and under no hold.                                            *)
LEMMA ConfirmationIsWritten ==
  ASSUME NEW stored \in Row, NEW old \in Row, NEW p \in Passengers,
         Shaped(old), old.status = "HELD"
  PROVE  LET new == UpdatedRow(stored, old, ConfirmedRow(p))
         IN  new.status = "CONFIRMED" /\ Shaped(new)
<1>1. old.held_by # Nil /\ old.hold_expires_at # Nil
  BY DEF Shaped
<1> QED
  BY <1>1 DEF UpdatedRow, Column, ConfirmedRow, Shaped

(***************************************************************************)
(* The changes of a seat                                                   *)
(***************************************************************************)

(* A request starts with a session that knows and owns nothing.            *)
LEMMA RequestBegins ==
  ASSUME CheckInInv, NEW x \in Sessions, NEW s \in Seats, NEW p \in PassengerOrNil,
         Begin(x, s, p)
  PROVE  /\ pc[x] = "idle" /\ opened[x] = Nil
         /\ RequestKept(x)
         /\ req'[x] = [seat |-> s, passenger |-> p]
         /\ \A t \in Seats : loaded[x][t] = Nil
         /\ \A t \in Seats : Read(x, t) = seat[t]
<1>1. /\ CheckInTypeOK
      /\ Knowledge(x)
      /\ pc[x] = "idle"
      /\ req' = [req EXCEPT ![x] = [seat |-> s, passenger |-> p]]
  BY DEF CheckInInv, Begin
<1>2. [seat |-> s, passenger |-> p] \in Request
  BY DEF Request
<1>3. RequestOf(x) /\ req'[x] = [seat |-> s, passenger |-> p]
  BY <1>1, <1>2 DEF RequestOf, CheckInTypeOK
<1> QED
  BY <1>1, <1>3 DEF Knowledge, Read, RequestKept

(* hold_seat of the repository, as a request of its own or for a check-in, *)
(* keeps the invariant, even if its object is out of date.                 *)
LEMMA HoldKeepsInv ==
  ASSUME CheckInInv, NEW x \in Sessions, NEW s \in Seats, NEW p \in Passengers,
         pc[x] \in Early, UNCHANGED <<now, seat, hist, checkInVars>>,
         RequestKept(x), req'[x] = [seat |-> s, passenger |-> p],
         NEW l \in {"commit", "file"}, RepositoryHold(x, s, p, l),
         l = "commit" => Read(x, s) = seat[s]
  PROVE  CheckInInv'
<1> DEFINE row == Read(x, s)
           new == HeldRow(row, p, now + HoldDuration)
           d   == ChangeOf(x, s, new, p, "passenger_selected_seat")
<1>1. CheckInTypeOK /\ seat[s] \in Row /\ now + HoldDuration \in Nat
      /\ p \in PassengerOrNil /\ p # Nil
  BY TimeAssumption, NilAssumption DEF CheckInInv, CheckInTypeOK, PassengerOrNil
<1>2. row \in Row /\ Shaped(row)
  BY ObjectsAreShaped
<1>3. CASE Refused(x, s) \/ (Acquire(x, s) /\ UNCHANGED dirty /\ Goto(x, "abort"))
  BY <1>3, UnchangedRows
<1>4. CASE /\ Acquire(x, s)
           /\ row.status = "AVAILABLE"
           /\ Flush(x, s, new, p, "passenger_selected_seat")
           /\ Goto(x, l)
  <2>1. new \in Row
    BY <1>1, <1>2, RowsAreTyped
  <2>2. d \in Change
    BY <1>1, <2>1, FlushesAreTyped DEF Reasons
  <2>3. HeldBy(d.row, p) /\ Shaped(d.row)
    BY <1>1, <1>2, <1>4, HoldIsWritten DEF ChangeOf
  <2>4. /\ d.entry.changed_by = p
        /\ d.entry.change_reason = "passenger_selected_seat"
        /\ d.entry.new_status = "HELD"
    BY DEF ChangeOf, StateChange, HeldRow
  <2>5. dirty' = [dirty EXCEPT ![x][s] = d] /\ dirty'[x][s] = d
    BY <1>1, <1>4 DEF Flush, CheckInTypeOK
  <2> HIDE DEF d
  <2>6. seat'[s].status = "AVAILABLE" \/ HeldForCheckIn(x, s)'
    <3>1. CASE l = "commit"
      BY <1>4, <3>1
    <3>2. CASE l = "file"
      BY <1>1, <1>4, <3>2 DEF HeldForCheckIn, Goto, CheckInTypeOK
    <3> QED
      BY <3>1, <3>2
  <2>7. Written(x, s)'
    BY <2>3, <2>4, <2>5, <2>6 DEF Written, HeldBy, Shaped
  <2>8. req'[x] \in Request /\ d # Nil
    BY <1>1, <2>2, ChangeAssumption DEF Request
  <2>9. SelectedSeat(x)'
    BY <1>1, <2>3, <2>4, <2>5, <2>8 DEF SelectedSeat, ForPassenger, HeldBy
  <2> QED
    BY <1>4, <2>2, <2>5, <2>7, <2>9, ChangedRow
<1> QED
  BY <1>3, <1>4 DEF RepositoryHold, LockedChange

(* confirm_seat of the repository keeps the invariant.                     *)
LEMMA ConfirmKeepsInv ==
  ASSUME CheckInInv, NEW x \in Sessions, NEW s \in Seats, NEW p \in Passengers,
         pc[x] \in Early, UNCHANGED <<now, seat, hist, req, checkInVars>>,
         NEW l \in {"commit", "complete"}, l = "complete" => opened[x] # Nil,
         RepositoryConfirm(x, s, p, l)
  PROVE  CheckInInv'
<1> DEFINE row == Read(x, s)
           d   == ChangeOf(x, s, ConfirmedRow(p), p, "passenger_confirmed_seat")
<1>1. CheckInTypeOK /\ seat[s] \in Row /\ p \in PassengerOrNil
  BY DEF CheckInInv, CheckInTypeOK, PassengerOrNil
<1>2. row \in Row /\ Shaped(row)
  BY ObjectsAreShaped
<1>3. RequestKept(x)
  BY <1>1 DEF RequestKept, RequestOf, CheckInTypeOK
<1>4. CASE Refused(x, s) \/ (Acquire(x, s) /\ UNCHANGED dirty /\ Goto(x, "abort"))
  BY <1>3, <1>4, UnchangedRows
<1>5. CASE /\ Acquire(x, s)
           /\ HeldBy(row, p)
           /\ Flush(x, s, ConfirmedRow(p), p, "passenger_confirmed_seat")
           /\ Goto(x, l)
  <2>1. ConfirmedRow(p) \in Row
    BY <1>1, RowsAreTyped, 0 \in Nat
  <2>2. d \in Change
    BY <1>1, <2>1, FlushesAreTyped DEF Reasons
  <2>3. d.row.status = "CONFIRMED" /\ Shaped(d.row)
    BY <1>1, <1>2, <1>5, ConfirmationIsWritten DEF ChangeOf, HeldBy
  <2>4. d.entry.new_status = "CONFIRMED"
    BY DEF ChangeOf, StateChange, ConfirmedRow
  <2>5. dirty' = [dirty EXCEPT ![x][s] = d] /\ dirty'[x][s] = d
    BY <1>1, <1>5 DEF Flush, CheckInTypeOK
  <2> HIDE DEF d
  <2>6. Written(x, s)'
    BY <2>3, <2>4, <2>5 DEF Written, Shaped
  <2> QED
    BY <1>3, <1>5, <2>2, <2>5, <2>6, ChangedRow
<1> QED
  BY <1>4, <1>5 DEF RepositoryConfirm, LockedChange

(* Freeing a held seat keeps the invariant when the object is the stored   *)
(* row and it is the holder who frees it, or nobody, when it is due.       *)
LEMMA FreeingKeepsInv ==
  ASSUME CheckInInv, NEW x \in Sessions, NEW s \in Seats,
         pc[x] \in Early, UNCHANGED <<now, seat, hist, checkInVars>>,
         RequestKept(x), Acquire(x, s), Goto(x, "commit"),
         Read(x, s) = seat[s], seat[s].status = "HELD",
         NEW by \in PassengerOrNil, NEW reason \in Reasons,
         by = seat[s].held_by \/ (by = Nil /\ Due(seat[s], now)),
         Flush(x, s, FreedRow(seat[s]), by, reason)
  PROVE  CheckInInv'
<1> DEFINE new == FreedRow(seat[s])
           d   == ChangeOf(x, s, new, by, reason)
<1>1. CheckInTypeOK /\ seat[s] \in Row
  BY DEF CheckInInv, CheckInTypeOK
<1>2. new \in Row
  BY <1>1 DEF Row, FreedRow, PassengerOrNil, Statuses
<1>3. d \in Change
  BY <1>2, FlushesAreTyped
<1>4. d = [row |-> new, entry |-> StateChange(seat[s], new, by, reason)]
  BY <1>1, <1>2, FreshUpdate DEF ChangeOf
<1>5. d.row = new /\ d.entry.new_status = "AVAILABLE" /\ d.entry.changed_by = by
  BY <1>4 DEF StateChange, FreedRow
<1>6. dirty' = [dirty EXCEPT ![x][s] = d] /\ dirty'[x][s] = d
  BY <1>1 DEF Flush, CheckInTypeOK
<1>7. Shaped(new) /\ new.status = "AVAILABLE"
  BY DEF Shaped, FreedRow
<1> HIDE DEF d, new
<1>8. FreeingDecided(s, d)
  BY <1>5 DEF FreeingDecided, new
<1>9. FreeingDecided(s, dirty[x][s])'
  BY <1>6, <1>8 DEF FreeingDecided
<1>10. Written(x, s)'
  BY <1>5, <1>6, <1>7, <1>9 DEF Written, Shaped
<1> QED
  BY <1>3, <1>6, <1>10, ChangedRow

(***************************************************************************)
(* The actions                                                             *)
(***************************************************************************)

(* The seat requests of SeatBooking keep the invariant.                    *)
LEMMA SeatRequestKeepsInv ==
  ASSUME CheckInInv, NEW x \in Sessions, SeatRequest(x)
  PROVE  CheckInInv'
<1>1. CheckInTypeOK /\ Knowledge(x) /\ UNCHANGED checkInVars
  BY DEF CheckInInv, SeatRequest
<1>2. ASSUME NEW s \in Seats, NEW p \in Passengers, HoldSeat(x, s, p)
      PROVE  CheckInInv'
  <2>1. /\ RequestKept(x) /\ pc[x] \in Early
        /\ req'[x] = [seat |-> s, passenger |-> p] /\ Read(x, s) = seat[s]
    BY <1>2, RequestBegins DEF HoldSeat, PassengerOrNil, Early
  <2> QED
    BY <1>1, <1>2, <2>1, HoldKeepsInv DEF HoldSeat
<1>3. ASSUME NEW s \in Seats, NEW p \in Passengers, ReleaseSeat(x, s, p)
      PROVE  CheckInInv'
  <2>1. /\ RequestKept(x) /\ pc[x] \in Early /\ Read(x, s) = seat[s]
        /\ p \in PassengerOrNil
    BY <1>3, RequestBegins DEF ReleaseSeat, PassengerOrNil, Early
  <2>2. UNCHANGED <<now, seat, hist, checkInVars>>
    BY <1>1, <1>3 DEF ReleaseSeat
  <2>3. CASE Refused(x, s) \/ (Acquire(x, s) /\ UNCHANGED dirty /\ Goto(x, "abort"))
    BY <2>1, <2>2, <2>3, UnchangedRows
  <2>4. CASE /\ Acquire(x, s) /\ HeldBy(seat[s], p) /\ Goto(x, "commit")
             /\ Flush(x, s, FreedRow(seat[s]), p, "passenger_released_seat")
    BY <2>1, <2>2, <2>4, FreeingKeepsInv DEF HeldBy, Reasons
  <2> QED
    BY <1>3, <2>1, <2>3, <2>4 DEF ReleaseSeat, RepositoryRelease, LockedChange
<1>4. ASSUME NEW s \in Seats, NEW p \in Passengers, ConfirmRead(x, s, p)
      PROVE  CheckInInv'
  <2> DEFINE l == AfterUnlockedRead(Read(x, s), p)
  <2>1. /\ RequestOf(x) /\ pc[x] \in Early /\ opened[x] = Nil
        /\ req'[x] = [seat |-> s, passenger |-> p]
    BY <1>4, RequestBegins DEF ConfirmRead, PassengerOrNil, Early, RequestKept
  <2>2. req'[x] \in Request /\ req'[x].passenger # Nil
    BY <2>1, NilAssumption DEF Request, PassengerOrNil
  <2>3. Read(x, s) \in Row /\ Shaped(Read(x, s))
    BY ObjectsAreShaped
  <2>4. loaded' = [loaded EXCEPT ![x][s] = Read(x, s)]
    BY <1>4 DEF ConfirmRead, Load
  <2>5. \A t \in Seats : loaded'[x][t] # Nil => Shaped(loaded'[x][t])
    BY <1>1, <2>3, <2>4 DEF CheckInTypeOK, Knowledge
  <2>6. /\ loaded' \in [Sessions -> [Seats -> Row \cup {Nil}]]
        /\ \A y \in Sessions \ {x} : loaded'[y] = loaded[y]
    BY <1>1, <2>3, <2>4 DEF CheckInTypeOK
  <2>7. l \in {"confirm", "abort", "expire"} /\ Goto(x, l)
    BY <1>4 DEF AfterUnlockedRead, ConfirmRead
  <2>8. /\ UNCHANGED <<now, seat, hist, lock, dirty, checkin, filed, timers>>
        /\ opened' = opened
    BY <1>1, <1>4 DEF ConfirmRead, checkInVars
  <2>9. opened' \in [Sessions -> CheckInRow \cup {Nil}] /\ opened'[x] = Nil
    BY <1>1, <2>1, <2>8 DEF CheckInTypeOK
  <2> HIDE DEF l
  <2> QED
    BY <2>1, <2>2, <2>5, <2>6, <2>7, <2>8, <2>9, NothingOwned DEF ForPassenger
<1>5. CASE ConfirmSeat(x)
  <2>1. pc[x] = "confirm" /\ UNCHANGED <<now, seat, hist, req, checkInVars>>
    BY <1>1, <1>5 DEF ConfirmSeat
  <2> PICK s \in Seats, p \in Passengers : s = req[x].seat /\ p = req[x].passenger
    BY <1>1, <2>1 DEF Knowledge, ForPassenger, Request, PassengerOrNil
  <2>2. RepositoryConfirm(x, s, p, "commit")
    BY <1>5 DEF ConfirmSeat
  <2> QED
    BY <2>1, <2>2, ConfirmKeepsInv DEF Early
<1> QED
  BY <1>2, <1>3, <1>4, <1>5 DEF SeatRequest

(* The tasks keep the invariant.                                           *)
LEMMA ExpireKeepsInv ==
  ASSUME CheckInInv, NEW x \in Sessions, UNCHANGED checkInVars,
         ExpireHold(x) \/ \E s \in Seats : ExpireTask(x, s)
  PROVE  CheckInInv'
<1>1. CheckInTypeOK /\ Knowledge(x)
  BY DEF CheckInInv
<1>2. ASSUME NEW s \in Seats, ExpireTask(x, s)
      PROVE  CheckInInv'
  <2>1. /\ RequestOf(x) /\ pc[x] \in Early /\ opened[x] = Nil
        /\ req'[x] = [seat |-> s, passenger |-> Nil]
        /\ \A t \in Seats : loaded[x][t] = Nil
    BY <1>2, RequestBegins DEF ExpireTask, PassengerOrNil, Early, RequestKept
  <2>2. req'[x] \in Request
    BY <2>1 DEF Request, PassengerOrNil
  <2>3. /\ UNCHANGED <<now, seat, hist, lock, dirty, checkin, filed, timers>>
        /\ opened' = opened /\ loaded' = loaded /\ Goto(x, "expire")
    BY <1>2 DEF ExpireTask, checkInVars
  <2>4. /\ loaded' \in [Sessions -> [Seats -> Row \cup {Nil}]]
        /\ opened' \in [Sessions -> CheckInRow \cup {Nil}]
        /\ opened'[x] = Nil /\ \A t \in Seats : loaded'[x][t] = Nil
    BY <1>1, <2>1, <2>3 DEF CheckInTypeOK
  <2> QED
    BY <2>1, <2>2, <2>3, <2>4, NothingOwned
<1>3. CASE ExpireHold(x)
  <2>1. /\ pc[x] = "expire" /\ pc[x] \in Early
        /\ UNCHANGED <<now, seat, hist, req, checkInVars>>
    BY <1>3 DEF ExpireHold, Early
  <2> PICK s \in Seats : s = req[x].seat
    BY <1>1, <2>1 DEF Knowledge, Request
  <2> DEFINE row == Read(x, s)
             new == FreedRow(row)
             d   == ChangeOf(x, s, new, Nil, "hold_expired_automatically")
  <2>2. /\ Acquire(x, s) /\ Nil \in PassengerOrNil /\ RequestKept(x)
        /\ Goto(x, IF req[x].passenger = Nil THEN "commit" ELSE "abort")
    BY <1>1, <1>3, <2>1
    DEF ExpireHold, PassengerOrNil, RequestKept, RequestOf, CheckInTypeOK
  <2>3. CASE UNCHANGED dirty
    <3>1. Goto(x, "abort") \/ Goto(x, "commit")
      BY <2>2
    <3> QED
      BY <2>1, <2>2, <2>3, <3>1, UnchangedRows
  <2>4. CASE /\ row.status = "HELD" /\ Due(row, now)
             /\ Flush(x, s, new, Nil, "hold_expired_automatically")
    <3>1. CASE req[x].passenger = Nil
      <4>1. row = seat[s]
        BY <1>1, <2>1, <3>1 DEF Knowledge, Read
      <4>2. Goto(x, "commit")
        BY <2>2, <3>1
      <4> QED
        BY <2>1, <2>2, <2>4, <4>1, <4>2, FreeingKeepsInv DEF Reasons
    <3>2. CASE req[x].passenger # Nil
      <4>1. Goto(x, "abort")
        BY <2>2, <3>2
      <4>2. row \in Row
        BY ObjectsAreShaped
      <4>3. new \in Row
        BY <4>2 DEF FreedRow, Row, PassengerOrNil, Statuses
      <4>4. d \in Change /\ dirty' = [dirty EXCEPT ![x][s] = d]
        BY <2>2, <2>4, <4>3, FlushesAreTyped DEF Reasons, Flush
      <4> HIDE DEF d
      <4> QED
        BY <2>1, <2>2, <4>1, <4>4, ChangedRow
    <3> QED
      BY <3>1, <3>2
  <2> QED
    BY <1>3, <2>3, <2>4 DEF ExpireHold
<1> QED
  BY <1>2, <1>3

(* cleanup_expired_holds keeps the invariant: its session has loaded       *)
(* nothing before, so it frees overdue holds as they are.                  *)
LEMMA CleanupKeepsInv ==
  ASSUME CheckInInv, NEW x \in Sessions, UNCHANGED checkInVars,
         CleanupExpiredHolds(x)
  PROVE  CheckInInv'
<1> DEFINE batch == {s \in Seats : Unattended(s)}
           d(s)  == ChangeOf(x, s, FreedRow(seat[s]), Nil, "hold_expired_cleanup")
<1>1. CheckInTypeOK /\ Knowledge(x) /\ Changes(x) /\ pc[x] = "idle" /\ RowsShaped
  BY DEF CheckInInv, CleanupExpiredHolds
<1>2. /\ opened[x] = Nil /\ filed[x] = Nil /\ OwnsNothing(x)
      /\ \A s \in Seats : loaded[x][s] = Nil
  BY <1>1, EarlyHasFiledNothing DEF Knowledge, Changes, Early
<1>3. /\ UNCHANGED <<now, seat, hist, req, checkin, opened, filed, timers>>
      /\ pc' = [pc EXCEPT ![x] = "commit"]
  BY DEF CleanupExpiredHolds, Goto, checkInVars
<1>4. ASSUME NEW s \in Seats
      PROVE  /\ d(s) \in Change
             /\ d(s).row = FreedRow(seat[s])
             /\ d(s).entry.changed_by = Nil
             /\ d(s).entry.new_status = "AVAILABLE"
  <2>1. Read(x, s) = seat[s]
    BY <1>2 DEF Read
  <2>2. seat[s] \in Row /\ FreedRow(seat[s]) \in Row
    BY <1>1 DEF CheckInTypeOK, Row, FreedRow, PassengerOrNil, Statuses
  <2>3. d(s) \in Change
    BY <2>2, FlushesAreTyped DEF Reasons, PassengerOrNil
  <2> QED
    BY <2>1, <2>2, <2>3, FreshUpdate DEF ChangeOf, StateChange, FreedRow
<1>5. \A s \in Seats :
        /\ lock'[s] = IF s \in batch THEN x ELSE lock[s]
        /\ loaded'[x][s] = IF s \in batch THEN seat[s] ELSE loaded[x][s]
        /\ dirty'[x][s] = IF s \in batch THEN d(s) ELSE dirty[x][s]
  BY <1>1 DEF CleanupExpiredHolds, CheckInTypeOK
<1> HIDE DEF d
<1>6. CheckInTypeOK'
  BY <1>1, <1>3, <1>4 DEF CleanupExpiredHolds, CheckInTypeOK, Labels, d
<1>7. LeavesOthers(x)
  BY <1>1, <1>3, <1>5 DEF CleanupExpiredHolds, LeavesOthers, Unattended, CheckInTypeOK
<1>8. pc'[x] = "commit" /\ opened'[x] = Nil /\ filed'[x] = Nil
  BY <1>1, <1>2, <1>3 DEF CheckInTypeOK
<1>9. ASSUME NEW s \in Seats, dirty'[x][s] # Nil
      PROVE  Written(x, s)' /\ lock'[s] = x
  <2>1. s \in batch
    BY <1>2, <1>5, <1>9 DEF OwnsNothing
  <2>2. dirty'[x][s] = d(s) /\ lock'[s] = x
    BY <1>5, <2>1
  <2>3. seat[s].status = "HELD" /\ Due(seat[s], now)
    BY <1>1, <2>1 DEF Unattended, Overdue, Due, CheckInTypeOK, Row
  <2>4. FreeingDecided(s, dirty[x][s])'
    BY <1>3, <1>4, <2>2, <2>3 DEF FreeingDecided
  <2>5. Shaped(FreedRow(seat[s])) /\ FreedRow(seat[s]).status = "AVAILABLE"
    BY DEF Shaped, FreedRow
  <2>6. Written(x, s)'
    BY <1>4, <2>2, <2>4, <2>5 DEF Written, Shaped
  <2> QED
    BY <2>2, <2>6
<1>10. \A s \in Seats : loaded'[x][s] # Nil => Shaped(loaded'[x][s])
  BY <1>1, <1>2, <1>5 DEF RowsShaped
<1>11. Knowledge(x)' /\ Changes(x)'
  BY <1>8, <1>9, <1>10 DEF Knowledge, Changes, Shaped, Early
<1> QED
  BY <1>6, <1>7, <1>8, <1>11, OwnStep

(* Loading all seats gives rows whose hold columns agree.                  *)
LEMMA LoadedAreShaped ==
  ASSUME CheckInInv, NEW x \in Sessions, LoadSeats(x)
  PROVE  /\ loaded' \in [Sessions -> [Seats -> Row \cup {Nil}]]
         /\ \A y \in Sessions \ {x} : loaded'[y] = loaded[y]
         /\ \A s \in Seats : loaded'[x][s] = Read(x, s)
         /\ \A s \in Seats : Shaped(loaded'[x][s])
<1>1. \A s \in Seats : Read(x, s) \in Row /\ Shaped(Read(x, s))
  BY ObjectsAreShaped
<1>2. [s \in Seats |-> Read(x, s)] \in [Seats -> Row \cup {Nil}]
  BY <1>1
<1>3. loaded \in [Sessions -> [Seats -> Row \cup {Nil}]]
  BY DEF CheckInInv, CheckInTypeOK
<1>4. \A s \in Seats : loaded'[x][s] = Read(x, s)
  BY <1>3 DEF LoadSeats
<1> QED
  BY <1>1, <1>2, <1>3, <1>4 DEF LoadSeats

(* A start of check-in, up to its INSERT, keeps the invariant.             *)
LEMMA StartKeepsInv ==
  ASSUME CheckInInv, NEW x \in Sessions,
         \/ \E s \in Seats, p \in Passengers : StartCheckIn(x, s, p)
         \/ HoldForCheckIn(x)
  PROVE  CheckInInv'
<1>1. CheckInTypeOK /\ Knowledge(x)
  BY DEF CheckInInv
<1>2. ASSUME NEW s \in Seats, NEW p \in Passengers, StartCheckIn(x, s, p)
      PROVE  CheckInInv'
  <2>1. /\ RequestOf(x) /\ pc[x] \in Early /\ opened[x] = Nil
        /\ req'[x] = [seat |-> s, passenger |-> p]
    BY <1>2, RequestBegins DEF StartCheckIn, PassengerOrNil, Early, RequestKept
  <2>2. req'[x] \in Request /\ req'[x].passenger # Nil
    BY <2>1, NilAssumption DEF Request, PassengerOrNil
  <2>3. /\ UNCHANGED <<now, seat, hist, lock, dirty, checkin, filed, timers>>
        /\ opened' = opened /\ LoadSeats(x)
        /\ Goto(x, IF checkin[p] = Nil THEN "hold" ELSE "abort")
    BY <1>2 DEF StartCheckIn, checkInVars
  <2>4. opened' \in [Sessions -> CheckInRow \cup {Nil}] /\ opened'[x] = Nil
    BY <1>1, <2>1, <2>3 DEF CheckInTypeOK
  <2>5. ForPassenger(x)'
    BY <2>2 DEF ForPassenger
  <2> QED
    BY <2>1, <2>3, <2>4, <2>5, LoadedAreShaped, NothingOwned
<1>3. CASE HoldForCheckIn(x)
  <2>1. pc[x] = "hold" /\ UNCHANGED <<now, seat, hist, req, checkInVars>>
    BY <1>3 DEF HoldForCheckIn
  <2> PICK s \in Seats, p \in Passengers : req[x] = [seat |-> s, passenger |-> p]
    BY <1>1, <2>1 DEF Knowledge, ForPassenger, Request, PassengerOrNil
  <2>2. RequestKept(x) /\ req'[x] = [seat |-> s, passenger |-> p]
    BY <1>1, <2>1 DEF RequestKept, RequestOf, CheckInTypeOK
  <2>3. CASE RepositoryHold(x, s, p, "file")
    BY <2>1, <2>2, <2>3, HoldKeepsInv DEF Early
  <2>4. CASE Goto(x, "abort") /\ UNCHANGED <<lock, loaded, dirty>>
    <3>1. /\ UNCHANGED <<now, seat, hist, lock, dirty, checkin, filed, timers>>
          /\ opened' = opened /\ loaded' = loaded
      BY <2>1, <2>4 DEF checkInVars
    <3>2. opened'[x] # Nil => OpenedKept(x)'
      BY <1>1, <2>1, <3>1 DEF Knowledge, OpenedKept, ForPassenger
    <3>3. \A t \in Seats : loaded'[x][t] # Nil => Shaped(loaded'[x][t])
      BY <1>1, <3>1 DEF Knowledge
    <3> QED
      BY <1>1, <2>1, <2>2, <2>4, <3>1, <3>2, <3>3, NothingOwned
      DEF Early, RequestKept, CheckInTypeOK
  <2> QED
    BY <1>3, <2>3, <2>4 DEF HoldForCheckIn
<1> QED
  BY <1>2, <1>3

(* complete_checkin, up to its UPDATE, keeps the invariant: the check-in   *)
(* it has opened stays, with the seat that is confirmed.                   *)
LEMMA CompletionKeepsInv ==
  ASSUME CheckInInv, NEW x \in Sessions,
         \/ \E p \in Passengers : OpenCheckIn(x, p)
         \/ LookAtSeat(x)
         \/ RecheckSeat(x)
         \/ ConfirmForCheckIn(x)
  PROVE  CheckInInv'
<1>1. CheckInTypeOK /\ Knowledge(x)
  BY DEF CheckInInv
<1>2. ASSUME NEW p \in Passengers, OpenCheckIn(x, p)
      PROVE  CheckInInv'
  <2> DEFINE l == IF checkin[p].status = "IN_PROGRESS" THEN "seat" ELSE "abort"
  <2>1. checkin[p] # Nil /\ checkin[p] \in CheckInRow /\ checkin[p].seat \in Seats
    BY <1>1, <1>2 DEF OpenCheckIn, CheckInTypeOK, CheckInRow
  <2>2. /\ RequestOf(x) /\ pc[x] \in Early
        /\ req'[x] = [seat |-> checkin[p].seat, passenger |-> p]
        /\ \A t \in Seats : loaded[x][t] = Nil
    BY <1>2, <2>1, RequestBegins DEF OpenCheckIn, PassengerOrNil, Early, RequestKept
  <2>3. /\ UNCHANGED <<now, seat, hist, lock, dirty, checkin, filed, timers>>
        /\ loaded' = loaded /\ opened' = [opened EXCEPT ![x] = checkin[p]]
        /\ Goto(x, l) /\ l \in {"seat", "abort"}
    BY <1>2 DEF OpenCheckIn
  <2>4. /\ opened' \in [Sessions -> CheckInRow \cup {Nil}]
        /\ \A y \in Sessions \ {x} : opened'[y] = opened[y]
        /\ opened'[x] # Nil
    BY <1>1, <2>1, <2>3 DEF CheckInTypeOK
  <2>5. req'[x] \in Request /\ req'[x].passenger = p /\ p # Nil
        /\ req'[x].seat = checkin[p].seat
    BY <2>1, <2>2, NilAssumption DEF Request, PassengerOrNil
  <2>6. OpenedKept(x)'
    BY <2>1, <2>3, <2>5 DEF OpenedKept, ForPassenger
  <2>7. /\ loaded' \in [Sessions -> [Seats -> Row \cup {Nil}]]
        /\ \A t \in Seats : loaded'[x][t] = Nil
    BY <1>1, <2>2, <2>3 DEF CheckInTypeOK
  <2> HIDE DEF l
  <2> QED
    BY <2>2, <2>3, <2>4, <2>6, <2>7, NothingOwned
<1>3. ASSUME pc[x] \in {"seat", "recheck"}, UNCHANGED <<opened, req, checkin>>
      PROVE  /\ RequestOf(x) /\ pc[x] \in Early
             /\ opened' \in [Sessions -> CheckInRow \cup {Nil}]
             /\ opened'[x] # Nil
             /\ OpenedKept(x)' /\ ForPassenger(x)'
             /\ req'[x] \in Request /\ req'[x].passenger # Nil
  BY <1>1, <1>3
  DEF Knowledge, OpenedKept, ForPassenger, RequestOf, CheckInTypeOK, Early
<1>4. CASE LookAtSeat(x)
  <2> DEFINE l == AfterSeatRead(Read(x, req[x].seat))
  <2>1. /\ UNCHANGED <<now, seat, hist, lock, dirty, req, checkin, opened, filed, timers>>
        /\ pc[x] = "seat" /\ LoadSeats(x) /\ Goto(x, l)
    BY <1>4 DEF LookAtSeat, checkInVars
  <2>2. l \in {"abort", "complete", "recheck"}
    BY DEF AfterSeatRead
  <2> HIDE DEF l
  <2> QED
    BY <1>3, <2>1, <2>2, LoadedAreShaped, NothingOwned
<1>5. CASE RecheckSeat(x)
  <2> DEFINE l == AfterUnlockedRead(Read(x, req[x].seat), req[x].passenger)
  <2>1. /\ UNCHANGED <<now, seat, hist, lock, dirty, req, checkin, opened, filed, timers>>
        /\ pc[x] = "recheck" /\ loaded' = loaded /\ Goto(x, l)
    BY <1>5 DEF RecheckSeat, checkInVars
  <2>2. l \in {"confirm", "abort", "expire"}
    BY DEF AfterUnlockedRead
  <2>3. /\ loaded' \in [Sessions -> [Seats -> Row \cup {Nil}]]
        /\ \A t \in Seats : loaded'[x][t] # Nil => Shaped(loaded'[x][t])
    BY <1>1, <2>1 DEF CheckInTypeOK, Knowledge
  <2> HIDE DEF l
  <2> QED
    BY <1>3, <2>1, <2>2, <2>3, NothingOwned
<1>6. CASE ConfirmForCheckIn(x)
  <2>1. pc[x] = "confirm" /\ opened[x] # Nil
        /\ UNCHANGED <<now, seat, hist, req, checkInVars>>
    BY <1>6 DEF ConfirmForCheckIn
  <2> PICK s \in Seats, p \in Passengers : s = req[x].seat /\ p = req[x].passenger
    BY <1>1, <2>1 DEF Knowledge, ForPassenger, Request, PassengerOrNil
  <2>2. RepositoryConfirm(x, s, p, "complete")
    BY <1>6 DEF ConfirmForCheckIn
  <2> QED
    BY <2>1, <2>2, ConfirmKeepsInv DEF Early
<1> QED
  BY <1>2, <1>4, <1>5, <1>6

(* The INSERT or UPDATE of the check-in row keeps the invariant: nobody    *)
(* else is writing that row.                                               *)
LEMMA FilingKeepsInv ==
  ASSUME CheckInInv, NEW x \in Sessions, FileCheckIn(x) \/ CompleteCheckIn(x)
  PROVE  CheckInInv'
<1> DEFINE p == req[x].passenger
           s == req[x].seat
<1>1. CheckInTypeOK /\ Knowledge(x) /\ Changes(x) /\ filed[x] = Nil
      /\ pc[x] \in {"file", "complete"} /\ CheckInRowFree(x)
  BY EarlyHasFiledNothing DEF CheckInInv, FileCheckIn, CompleteCheckIn
<1>2. /\ ForPassenger(x) /\ p \in Passengers /\ s \in Seats
      /\ checkin[p] \in CheckInRow \cup {Nil}
  BY <1>1 DEF Knowledge, ForPassenger, Request, PassengerOrNil, CheckInTypeOK
<1>3. UNCHANGED <<now, seat, hist, lock, req, loaded, dirty, checkin, opened>>
  BY DEF FileCheckIn, CompleteCheckIn
<1>4. ForPassenger(x)' /\ (OpenedKept(x)' <=> OpenedKept(x))
      /\ (SelectedSeat(x)' <=> SelectedSeat(x))
  BY <1>2, <1>3 DEF OpenedKept, ForPassenger, SelectedSeat, HeldBy
<1>5. CASE Goto(x, "abort") /\ UNCHANGED <<filed, timers>>
  <2>1. pc' = [pc EXCEPT ![x] = "abort"]
    BY <1>5 DEF Goto
  <2>2. CheckInTypeOK'
    BY <1>1, <1>3, <1>5, <2>1 DEF CheckInTypeOK, Labels
  <2>3. LeavesOthers(x) /\ pc'[x] = "abort"
    BY <1>1, <1>3, <1>5, <2>1 DEF LeavesOthers, CheckInTypeOK
  <2>4. Knowledge(x)'
    BY <1>1, <1>3, <1>4, <2>3 DEF Knowledge, Shaped
  <2>5. Changes(x)'
    BY <1>1, <1>3, <1>4, <1>5, <2>3 DEF Changes, Early
  <2> QED
    BY <1>1, <1>5, <2>2, <2>3, <2>4, <2>5, OwnStep
<1>6. ASSUME NEW row \in CheckInRow, filed' = [filed EXCEPT ![x] = row],
             timers' \in [Seats -> Nat \cup {Nil}], Goto(x, "commit"),
             \/ checkin[p] = Nil /\ row.seat = s /\ SelectedSeat(x)
             \/ /\ checkin[p] # Nil /\ pc[x] = "complete"
                /\ row.seat = checkin[p].seat /\ row.status = "COMPLETED"
      PROVE  CheckInInv'
  <2>1. pc' = [pc EXCEPT ![x] = "commit"]
    BY <1>6 DEF Goto
  <2>2. CheckInTypeOK'
    BY <1>1, <1>3, <1>6, <2>1 DEF CheckInTypeOK, Labels
  <2>3. LeavesOthers(x) /\ pc'[x] = "commit" /\ filed'[x] = row
    BY <1>1, <1>3, <1>6, <2>1 DEF LeavesOthers, CheckInTypeOK
  <2>4. Knowledge(x)'
    BY <1>1, <1>3, <1>4, <2>3 DEF Knowledge, Shaped
  <2>5. FiledRightly(x)'
    BY <1>3, <1>4, <1>6, <2>3 DEF FiledRightly
  <2>6. ASSUME NEW t \in Seats, HeldForCheckIn(x, t)
        PROVE  HeldForCheckIn(x, t)'
    <3>1. t = s /\ checkin[p] = Nil
      BY <1>1, <1>6, <2>6 DEF HeldForCheckIn
    <3> QED
      BY <1>3, <1>6, <2>3, <3>1, CheckInRowAssumption DEF HeldForCheckIn
  <2>7. ASSUME NEW t \in Seats, Written(x, t)
        PROVE  Written(x, t)'
    BY <1>3, <2>6, <2>7 DEF Written, Shaped, FreeingDecided, Due
  <2>8. Changes(x)'
    BY <1>1, <1>3, <1>4, <2>3, <2>5, <2>7 DEF Changes, Early
  <2>9. \A y \in Sessions \ {x} : filed[y] # Nil => req[y].passenger # req'[x].passenger
    BY <1>1, <1>3 DEF CheckInRowFree
  <2> QED
    BY <2>2, <2>3, <2>4, <2>8, <2>9, OwnStep
<1>7. CASE FileCheckIn(x)
  <2>1. CASE checkin[p] # Nil /\ Goto(x, "abort") /\ UNCHANGED <<filed, timers>>
    BY <1>5, <2>1
  <2>2. CASE /\ checkin[p] = Nil
             /\ filed' = [filed EXCEPT ![x] = [seat |-> s, status |-> "IN_PROGRESS"]]
             /\ Schedule(s)
             /\ Goto(x, "commit")
    <3>1. [seat |-> s, status |-> "IN_PROGRESS"] \in CheckInRow
      BY <1>2 DEF CheckInRow
    <3>2. now + HoldDuration \in Nat
      BY <1>1, TimeAssumption DEF CheckInTypeOK
    <3>3. timers' \in [Seats -> Nat \cup {Nil}]
      BY <1>1, <2>2, <3>2 DEF Schedule, CheckInTypeOK
    <3>4. SelectedSeat(x)
      BY <1>1, <1>7 DEF FileCheckIn, Changes
    <3> QED
      BY <1>6, <2>2, <3>1, <3>3, <3>4
  <2> QED
    BY <1>7, <2>1, <2>2 DEF FileCheckIn
<1>8. CASE CompleteCheckIn(x)
  <2> DEFINE row == [checkin[p] EXCEPT !.status = "COMPLETED"]
  <2>1. checkin[p] # Nil /\ pc[x] = "complete"
    BY <1>1, <1>8 DEF CompleteCheckIn, Knowledge, OpenedKept
  <2>2. row \in CheckInRow /\ row.seat = checkin[p].seat /\ row.status = "COMPLETED"
    BY <1>2, <2>1 DEF CheckInRow
  <2>3. /\ filed' = [filed EXCEPT ![x] = row]
        /\ Goto(x, "commit")
        /\ timers' \in [Seats -> Nat \cup {Nil}]
    BY <1>1, <1>8 DEF CompleteCheckIn, CheckInTypeOK
  <2> HIDE DEF row
  <2> QED
    BY <1>6, <2>1, <2>2, <2>3
<1> QED
  BY <1>7, <1>8

(***************************************************************************)
(* The end of a transaction                                                *)
(***************************************************************************)

(* The check-in of p is as before, or session x has filed its next version *)
(* with the same seat.                                                     *)
FiledOrKept(x, p) ==
  \/ checkin'[p] = checkin[p]
  \/ /\ filed[x] # Nil
     /\ p = req[x].passenger
     /\ checkin'[p] # Nil
     /\ checkin[p] # Nil => checkin'[p].seat = checkin[p].seat

(* Session x ends; seats change only where it owns the lock, check-ins     *)
(* only where it has filed one.                                            *)
LEMMA EndKeepsInv ==
  ASSUME CheckInInv, NEW x \in Sessions, EndSession(x), ForgetCheckIn(x),
         CheckInTypeOK', RowsShaped', AuditEndsInStatus',
         \A s \in Seats : seat'[s] = seat[s] \/ lock[s] = x,
         \A p \in Passengers : FiledOrKept(x, p)
  PROVE  CheckInInv'
<1>1. CheckInTypeOK
  BY DEF CheckInInv
<1>2. /\ pc' = [pc EXCEPT ![x] = "idle"]
      /\ req' = [req EXCEPT ![x] = Nil]
      /\ lock' = [s \in Seats |-> IF lock[s] = x THEN Nil ELSE lock[s]]
      /\ loaded' = [loaded EXCEPT ![x] = Nothing]
      /\ dirty' = [dirty EXCEPT ![x] = Nothing]
      /\ opened' = [opened EXCEPT ![x] = Nil]
      /\ filed' = [filed EXCEPT ![x] = Nil]
      /\ now' = now
  BY DEF EndSession, Goto, ForgetCheckIn
<1>3. Knowledge(x)' /\ Changes(x)' /\ filed'[x] = Nil
  <2>1. pc'[x] = "idle" /\ loaded'[x] = Nothing /\ dirty'[x] = Nothing
        /\ opened'[x] = Nil /\ filed'[x] = Nil
    BY <1>1, <1>2 DEF CheckInTypeOK
  <2>2. OwnsNothing(x)'
    BY <1>1, <1>2, <2>1, SessionAssumption DEF OwnsNothing, CheckInTypeOK, Nothing
  <2> QED
    BY <2>1, <2>2 DEF Knowledge, Changes, Nothing
<1>4. ASSUME NEW y \in Sessions, y # x
      PROVE  /\ Knowledge(y)' /\ Changes(y)'
             /\ filed'[y] = filed[y] /\ req'[y] = req[y]
  <2>1. Knowledge(y) /\ Changes(y)
    BY DEF CheckInInv
  <2>2. /\ pc'[y] = pc[y] /\ req'[y] = req[y] /\ loaded'[y] = loaded[y]
        /\ dirty'[y] = dirty[y] /\ opened'[y] = opened[y] /\ filed'[y] = filed[y]
    BY <1>1, <1>2, <1>4 DEF CheckInTypeOK
  <2>3. \A s \in Seats : lock'[s] = y <=> lock[s] = y
    BY <1>2, <1>4, SessionAssumption
  <2>4. ForPassenger(y)' <=> ForPassenger(y)
    BY <2>2 DEF ForPassenger
  <2>5. SelectedSeat(y)' <=> SelectedSeat(y)
    BY <2>2, <2>4 DEF SelectedSeat, HeldBy
  <2>6. OpenedKept(y) => OpenedKept(y)'
    <3> SUFFICES ASSUME OpenedKept(y)
                 PROVE  OpenedKept(y)'
      OBVIOUS
    <3>1. req[y].passenger \in Passengers
      BY DEF OpenedKept, ForPassenger, Request, PassengerOrNil
    <3>2. FiledOrKept(x, req[y].passenger)
      BY <3>1
    <3> QED
      BY <2>2, <2>4, <3>2 DEF OpenedKept, FiledOrKept
  <2>7. filed[y] # Nil =>
          /\ FiledRightly(y)'
          /\ checkin'[req[y].passenger] = checkin[req[y].passenger]
    <3> SUFFICES ASSUME filed[y] # Nil
                 PROVE  /\ FiledRightly(y)'
                        /\ checkin'[req[y].passenger] = checkin[req[y].passenger]
      OBVIOUS
    <3>1. FiledRightly(y)
      BY <2>1 DEF Changes
    <3>2. req[y].passenger \in Passengers
      BY <3>1 DEF FiledRightly, ForPassenger, Request, PassengerOrNil
    <3>3. filed[x] # Nil => req[x].passenger # req[y].passenger
      BY <1>4 DEF CheckInInv, OneFilerEach
    <3>4. checkin'[req[y].passenger] = checkin[req[y].passenger]
      BY <3>2, <3>3 DEF FiledOrKept
    <3> QED
      BY <2>2, <2>4, <2>5, <3>1, <3>4 DEF FiledRightly
  <2>8. ASSUME NEW s \in Seats, dirty[y][s] # Nil, Written(y, s)
        PROVE  Written(y, s)'
    <3>1. lock[s] = y
      BY <2>1, <2>8 DEF Changes
    <3>2. seat'[s] = seat[s]
      BY <3>1, <1>4
    <3>3. HeldForCheckIn(y, s) => HeldForCheckIn(y, s)'
      BY <2>2, <2>7 DEF HeldForCheckIn
    <3> QED
      BY <1>2, <2>2, <2>8, <3>2, <3>3 DEF Written, Shaped, FreeingDecided, Due
  <2>9. OwnsNothing(y)' <=> OwnsNothing(y)
    BY <2>2, <2>3 DEF OwnsNothing
  <2>10. Knowledge(y)'
    BY <2>1, <2>2, <2>4, <2>6 DEF Knowledge, Shaped
  <2>11. Changes(y)'
    BY <2>1, <2>2, <2>3, <2>5, <2>7, <2>8, <2>9 DEF Changes
  <2> QED
    BY <2>2, <2>10, <2>11
<1>5. OneFilerEach'
  BY <1>3, <1>4 DEF CheckInInv, OneFilerEach
<1> QED
  BY <1>3, <1>4, <1>5 DEF CheckInInv

(* A rollback and a crash keep the invariant.                              *)
LEMMA AbandonAllKeepsInv ==
  ASSUME CheckInInv, NEW x \in Sessions, AbandonAll(x)
  PROVE  CheckInInv'
<1>1. EndSession(x) /\ ForgetCheckIn(x) /\ UNCHANGED <<seat, hist, checkin>>
  BY DEF AbandonAll, Rollback, Crash
<1>2. CheckInTypeOK'
  BY <1>1
  DEF CheckInInv, CheckInTypeOK, EndSession, Goto, Nothing, ForgetCheckIn, Labels
<1>3. RowsShaped' /\ AuditEndsInStatus' /\ \A p \in Passengers : FiledOrKept(x, p)
  BY <1>1 DEF CheckInInv, RowsShaped, Shaped, AuditEndsInStatus, FiledOrKept
<1> QED
  BY <1>1, <1>2, <1>3, EndKeepsInv

(* A commit keeps the invariant: what it stores was written for that row,  *)
(* and the check-in it files was nobody else's to file.                    *)
LEMMA CommitAllKeepsInv ==
  ASSUME CheckInInv, NEW x \in Sessions, CommitAll(x)
  PROVE  CheckInInv' /\ \A p \in Passengers : FiledOrKept(x, p)
<1>1. EndSession(x) /\ ForgetCheckIn(x) /\ CheckInTypeOK /\ Changes(x)
      /\ pc[x] = "commit"
  BY DEF CheckInInv, CommitAll, Commit
<1>2. ASSUME NEW s \in Seats, dirty[x][s] # Nil
      PROVE  /\ lock[s] = x
             /\ dirty[x][s] \in Change
             /\ Shaped(dirty[x][s].row)
             /\ dirty[x][s].entry \in Entry /\ dirty[x][s].entry # Nil
             /\ dirty[x][s].entry.new_status = dirty[x][s].row.status
  BY <1>1, <1>2, NullAssumption DEF Changes, Written, CheckInTypeOK, Change
<1>3. \A s \in Seats :
        /\ seat'[s] = IF dirty[x][s] = Nil THEN seat[s] ELSE dirty[x][s].row
        /\ hist'[s] = IF dirty[x][s] = Nil THEN hist[s] ELSE dirty[x][s].entry
  BY DEF CommitAll, Commit
<1>4. \A p \in Passengers : FiledOrKept(x, p) /\ checkin'[p] \in CheckInRow \cup {Nil}
  <2>1. CASE filed[x] = Nil
    BY <1>1, <2>1 DEF CommitAll, FiledOrKept, CheckInTypeOK
  <2>2. CASE filed[x] # Nil
    <3>1. FiledRightly(x) /\ filed[x] \in CheckInRow
      BY <1>1, <2>2 DEF Changes, CheckInTypeOK
    <3>2. checkin' = [checkin EXCEPT ![req[x].passenger] = filed[x]]
      BY <2>2 DEF CommitAll
    <3>3. checkin[req[x].passenger] # Nil =>
            filed[x].seat = checkin[req[x].passenger].seat
      BY <3>1 DEF FiledRightly
    <3> QED
      BY <1>1, <2>2, <3>1, <3>2, <3>3 DEF FiledOrKept, CheckInTypeOK
  <2> QED
    BY <2>1, <2>2
<1>5. CheckInTypeOK'
  <2>1. seat' \in [Seats -> Row]
    BY <1>1, <1>2 DEF CommitAll, Commit, CheckInTypeOK, Change
  <2>2. hist' \in [Seats -> Entry \cup {Nil}]
    BY <1>1, <1>2 DEF CommitAll, Commit, CheckInTypeOK
  <2>3. checkin' \in [Passengers -> CheckInRow \cup {Nil}]
    BY <1>1, <1>4 DEF CommitAll, CheckInTypeOK
  <2> QED
    BY <1>1, <2>1, <2>2, <2>3
    DEF CheckInTypeOK, EndSession, Goto, Nothing, ForgetCheckIn, Labels
<1>6. RowsShaped'
  BY <1>2, <1>3 DEF CheckInInv, RowsShaped, Shaped
<1>7. AuditEndsInStatus'
  BY <1>2, <1>3 DEF CheckInInv, AuditEndsInStatus
<1>8. \A s \in Seats : seat'[s] = seat[s] \/ lock[s] = x
  BY <1>2, <1>3
<1> QED
  BY <1>1, <1>4, <1>5, <1>6, <1>7, <1>8, EndKeepsInv

(***************************************************************************)
(* The invariant                                                           *)
(***************************************************************************)

(* The passing of time keeps the invariant: a hold that was due stays due. *)
LEMMA TickKeepsInv ==
  ASSUME CheckInInv, Tick, UNCHANGED checkInVars
  PROVE  CheckInInv'
<1>1. CheckInTypeOK /\ now' = now + 1 /\ now < MaxTime
      /\ UNCHANGED <<seat, hist, lock, pc, req, loaded, dirty,
                     checkin, opened, filed, timers>>
  BY DEF CheckInInv, Tick, checkInVars
<1>2. CheckInTypeOK'
  BY <1>1, TimeAssumption DEF CheckInTypeOK
<1>3. ASSUME NEW s \in Seats, Due(seat[s], now)
      PROVE  Due(seat[s], now)'
  BY <1>1, <1>3 DEF Due, CheckInTypeOK, Row
<1>4. ASSUME NEW x \in Sessions, NEW s \in Seats, Written(x, s)
      PROVE  Written(x, s)'
  BY <1>1, <1>3, <1>4 DEF Written, FreeingDecided, Shaped, HeldForCheckIn
<1>5. ASSUME NEW x \in Sessions
      PROVE  Knowledge(x)' /\ Changes(x)'
  BY <1>1, <1>4
  DEF CheckInInv, Knowledge, Changes, OwnsNothing, OpenedKept, ForPassenger,
      Shaped, FiledRightly, SelectedSeat, HeldBy
<1>6. RowsShaped' /\ AuditEndsInStatus' /\ OneFilerEach'
  BY <1>1 DEF CheckInInv, RowsShaped, Shaped, AuditEndsInStatus, OneFilerEach
<1> QED
  BY <1>2, <1>5, <1>6 DEF CheckInInv

(* The invariant holds of the seeded seats before any check-in.            *)
LEMMA CheckInInvHoldsInitially == CheckInInit => CheckInInv
<1> SUFFICES ASSUME CheckInInit PROVE CheckInInv
  OBVIOUS
<1>1. CheckInTypeOK
  BY TimeAssumption
  DEF CheckInInit, SeatInit, CheckInTypeOK, NewRow, Row, Statuses, PassengerOrNil,
      Nothing, Labels
<1>2. RowsShaped /\ AuditEndsInStatus /\ OneFilerEach
  BY DEF CheckInInit, SeatInit, RowsShaped, AuditEndsInStatus, OneFilerEach,
         Shaped, NewRow, Nothing
<1>3. \A x \in Sessions : Knowledge(x) /\ Changes(x)
  BY SessionAssumption
  DEF CheckInInit, SeatInit, Knowledge, Changes, OwnsNothing, Nothing
<1> QED
  BY <1>1, <1>2, <1>3 DEF CheckInInv

(* Every step of the system keeps the invariant.                           *)
LEMMA CheckInInvIsKept == CheckInInv /\ [CheckInNext]_vars => CheckInInv'
<1> SUFFICES ASSUME CheckInInv, [CheckInNext]_vars PROVE CheckInInv'
  OBVIOUS
<1>1. CASE Tick /\ UNCHANGED checkInVars
  BY <1>1, TickKeepsInv
<1>2. ASSUME NEW x \in Sessions, CheckInStep(x)
      PROVE  CheckInInv'
  BY <1>2, StartKeepsInv, CompletionKeepsInv, FilingKeepsInv DEF CheckInStep
<1>3. ASSUME NEW x \in Sessions, SeatTask(x)
      PROVE  CheckInInv'
  BY <1>3, ExpireKeepsInv, CleanupKeepsInv DEF SeatTask
<1>4. ASSUME NEW x \in Sessions, SeatRequest(x) \/ CommitAll(x) \/ AbandonAll(x)
      PROVE  CheckInInv'
  BY <1>4, SeatRequestKeepsInv, CommitAllKeepsInv, AbandonAllKeepsInv
<1>5. CASE UNCHANGED vars
  BY <1>5
  DEF vars, CheckInInv, CheckInTypeOK, RowsShaped, AuditEndsInStatus, OneFilerEach,
      Knowledge, Changes, OwnsNothing, OpenedKept, ForPassenger, Shaped,
      FiledRightly, SelectedSeat, HeldBy, Written, HeldForCheckIn, FreeingDecided, Due
<1> QED
  BY <1>1, <1>2, <1>3, <1>4, <1>5 DEF CheckInNext

(* The inductive invariant holds in every reachable state.                 *)
LEMMA CheckInInvariance == CheckInSpec => []CheckInInv
  BY CheckInInvHoldsInitially, CheckInInvIsKept, PTL DEF CheckInSpec

(***************************************************************************)
(* The invariants the runs check                                           *)
(***************************************************************************)

(* Every variable keeps its type.                                          *)
THEOREM CheckInTypes == CheckInSpec => []CheckInTypeOK
<1>1. CheckInInv => CheckInTypeOK
  BY DEF CheckInInv
<1> QED
  BY <1>1, CheckInInvariance, PTL

(* The history of every seat ends in the status the seat has, although     *)
(* check-ins hold and confirm seats on objects that are out of date.       *)
THEOREM CheckInHistoryEnds == CheckInSpec => []AuditEndsInStatus
<1>1. CheckInInv => AuditEndsInStatus
  BY DEF CheckInInv
<1> QED
  BY <1>1, CheckInInvariance, PTL

(***************************************************************************)
(* The steps                                                               *)
(***************************************************************************)

(* The tables change at commits only.                                      *)
LEMMA TablesChangeAtCommit ==
  ASSUME [CheckInNext]_vars, \A x \in Sessions : ~CommitAll(x)
  PROVE  UNCHANGED <<seat, hist, checkin>>
<1>1. CASE Tick /\ UNCHANGED checkInVars
  BY <1>1 DEF Tick, checkInVars
<1>2. ASSUME NEW x \in Sessions, CheckInStep(x)
      PROVE  UNCHANGED <<seat, hist, checkin>>
  BY <1>2
  DEF CheckInStep, StartCheckIn, HoldForCheckIn, FileCheckIn, OpenCheckIn, LookAtSeat,
      RecheckSeat, ConfirmForCheckIn, CompleteCheckIn, checkInVars
<1>3. ASSUME NEW x \in Sessions, SeatRequest(x) \/ SeatTask(x)
      PROVE  UNCHANGED <<seat, hist, checkin>>
  BY <1>3
  DEF SeatRequest, SeatTask, HoldSeat, ReleaseSeat, ConfirmRead, ConfirmSeat, ExpireTask,
      ExpireHold, CleanupExpiredHolds, checkInVars
<1>4. ASSUME NEW x \in Sessions, AbandonAll(x)
      PROVE  UNCHANGED <<seat, hist, checkin>>
  BY <1>4 DEF AbandonAll, Rollback, Crash
<1>5. CASE UNCHANGED vars
  BY <1>5 DEF vars
<1> QED
  BY <1>1, <1>2, <1>3, <1>4, <1>5 DEF CheckInNext

(* A check-in is never created anew, moved or reopened: its next version   *)
(* is filed under the lock of its row, from the version that is there.     *)
THEOREM CheckInsLast == CheckInSpec => CheckInsAreKept
<1>1. ASSUME CheckInInv, [CheckInNext]_vars, NEW p \in Passengers
      PROVE  CheckInKept(p)
  <2>1. CASE \A x \in Sessions : ~CommitAll(x)
    BY <1>1, <2>1, TablesChangeAtCommit DEF CheckInKept
  <2>2. ASSUME NEW x \in Sessions, CommitAll(x)
        PROVE  CheckInKept(p)
    <3>1. FiledOrKept(x, p)
      BY <1>1, <2>2, CommitAllKeepsInv
    <3>2. CASE filed[x] # Nil /\ p = req[x].passenger
      <4>1. FiledRightly(x) /\ CheckInTypeOK
        BY <1>1, <3>2 DEF CheckInInv, Changes
      <4>2. checkin'[p] = filed[x]
        BY <2>2, <3>2, <4>1 DEF CommitAll, CheckInTypeOK
      <4> QED
        BY <3>1, <3>2, <4>1, <4>2 DEF FiledOrKept, FiledRightly, CheckInKept
    <3> QED
      BY <3>1, <3>2 DEF FiledOrKept, CheckInKept
  <2> QED
    BY <2>1, <2>2
<1>2. CheckInInv /\ [CheckInNext]_vars => [\A p \in Passengers : CheckInKept(p)]_vars
  BY <1>1
<1> QED
  BY <1>2, CheckInInvariance, PTL DEF CheckInSpec, CheckInsAreKept

(* The hold and the check-in of a start appear in one commit.              *)
THEOREM StartsAreAtomic == CheckInSpec => StartIsAtomic
<1>1. ASSUME CheckInInv, [CheckInNext]_vars, NEW p \in Passengers,
             checkin[p] = Nil, checkin'[p] # Nil
      PROVE  HeldFor(p, checkin'[p].seat)
  <2> PICK x \in Sessions : CommitAll(x)
    BY <1>1, TablesChangeAtCommit
  <2>1. filed[x] # Nil /\ p = req[x].passenger
    BY <1>1, CommitAllKeepsInv DEF FiledOrKept
  <2>2. FiledRightly(x) /\ CheckInTypeOK
    BY <1>1, <2>1 DEF CheckInInv, Changes
  <2>3. checkin'[p] = filed[x]
    BY <2>1, <2>2 DEF CommitAll, CheckInTypeOK
  <2> DEFINE s == req[x].seat
  <2>4. filed[x].seat = s /\ SelectedSeat(x) /\ s \in Seats
    BY <1>1, <2>1, <2>2 DEF FiledRightly, ForPassenger, Request
  <2>5. seat'[s] = dirty[x][s].row /\ hist'[s] = dirty[x][s].entry
    BY <2>4 DEF CommitAll, Commit, SelectedSeat
  <2>6. HeldFor(p, s)
    BY <2>1, <2>4, <2>5 DEF SelectedSeat, HeldFor, HeldBy
  <2> QED
    BY <2>3, <2>4, <2>6
<1>2. CheckInInv /\ [CheckInNext]_vars =>
        [\A p \in Passengers :
           checkin[p] = Nil /\ checkin'[p] # Nil => HeldFor(p, checkin'[p].seat)]_vars
  BY <1>1
<1> QED
  BY <1>2, CheckInInvariance, PTL DEF CheckInSpec, StartIsAtomic

(* Only a start whose new check-in commits puts its hold on a seat that is *)
(* not free: every other hold was decided on the row under its lock.       *)
THEOREM OnlyNewCheckInsSteal == CheckInSpec => StolenByNewCheckInsOnly
<1>1. ASSUME CheckInInv, [CheckInNext]_vars, NEW s \in Seats
      PROVE  StartedOn(s) \/ (NewHold(s) /\ StaysConfirmed(s))
  <2>1. CASE \A x \in Sessions : ~CommitAll(x)
    BY <1>1, <2>1, TablesChangeAtCommit DEF NewHold, StaysConfirmed
  <2>2. ASSUME NEW x \in Sessions, CommitAll(x)
        PROVE  StartedOn(s) \/ (NewHold(s) /\ StaysConfirmed(s))
    <3>1. CASE dirty[x][s] = Nil
      <4>1. seat'[s] = seat[s]
        BY <2>2, <3>1 DEF CommitAll, Commit
      <4> QED
        BY <4>1 DEF NewHold, StaysConfirmed
    <3>2. CASE dirty[x][s] # Nil
      <4> DEFINE d == dirty[x][s]
      <4>1. Written(x, s) /\ CheckInTypeOK /\ pc[x] = "commit"
        BY <1>1, <2>2, <3>2 DEF CheckInInv, Changes, CommitAll, Commit
      <4>2. seat'[s] = d.row
        BY <2>2, <3>2 DEF CommitAll, Commit
      <4>3. d.row.status \in {"AVAILABLE", "HELD", "CONFIRMED"}
        BY <3>2, <4>1 DEF CheckInTypeOK, Change, Row, Statuses
      <4>4. CASE d.row.status = "AVAILABLE"
        BY <4>1, <4>2, <4>4 DEF Written, FreeingDecided, NewHold, StaysConfirmed
      <4>5. CASE d.row.status = "CONFIRMED"
        BY <4>2, <4>5 DEF NewHold, StaysConfirmed
      <4>6. CASE d.row.status = "HELD" /\ seat[s].status = "AVAILABLE"
        BY <4>6 DEF NewHold, StaysConfirmed
      <4>7. CASE HeldForCheckIn(x, s)
        <5> DEFINE p == req[x].passenger
        <5>1. s = req[x].seat /\ filed[x] # Nil /\ checkin[p] = Nil
          BY <4>1, <4>7 DEF HeldForCheckIn
        <5>2. FiledRightly(x)
          BY <1>1, <5>1 DEF CheckInInv, Changes
        <5>3. /\ SelectedSeat(x) /\ filed[x].seat = s
              /\ p \in Passengers
          BY <5>1, <5>2 DEF FiledRightly, ForPassenger, Request, PassengerOrNil
        <5>4. checkin'[p] = filed[x]
          BY <2>2, <4>1, <5>1, <5>3 DEF CommitAll, CheckInTypeOK
        <5>5. HeldBy(seat'[s], p)
          BY <4>2, <5>1, <5>3 DEF SelectedSeat, HeldBy
        <5> QED
          BY <5>1, <5>3, <5>4, <5>5 DEF StartedOn
      <4> QED
        BY <4>1, <4>3, <4>4, <4>5, <4>6, <4>7 DEF Written
    <3> QED
      BY <3>1, <3>2
  <2> QED
    BY <2>1, <2>2
<1>2. CheckInInv /\ [CheckInNext]_vars
        => [\A s \in Seats : StartedOn(s) \/ (NewHold(s) /\ StaysConfirmed(s))]_vars
  BY <1>1
<1> QED
  BY <1>2, CheckInInvariance, PTL DEF CheckInSpec, StolenByNewCheckInsOnly

(* Among check-ins too a hold ends by its holder's release or              *)
(* confirmation, or when it is due: only who has read the row under its    *)
(* lock frees a seat.                                                      *)
THEOREM CheckInHoldsEndLawfully == CheckInSpec => HoldsAreHonoured
<1>1. ASSUME CheckInInv, [CheckInNext]_vars, NEW s \in Seats
      PROVE  FreedLawfully(s)
  <2>1. CASE \A x \in Sessions : ~CommitAll(x)
    BY <1>1, <2>1, TablesChangeAtCommit DEF FreedLawfully
  <2>2. ASSUME NEW x \in Sessions, CommitAll(x)
        PROVE  FreedLawfully(s)
    <3>1. CASE dirty[x][s] = Nil
      <4>1. seat'[s] = seat[s]
        BY <2>2, <3>1 DEF CommitAll, Commit
      <4> QED
        BY <4>1 DEF FreedLawfully
    <3>2. CASE dirty[x][s] # Nil
      <4>1. Written(x, s)
        BY <1>1, <2>2, <3>2 DEF CheckInInv, Changes, CommitAll, Commit
      <4>2. seat'[s] = dirty[x][s].row /\ hist'[s] = dirty[x][s].entry
        BY <2>2, <3>2 DEF CommitAll, Commit
      <4> QED
        BY <4>1, <4>2 DEF Written, FreeingDecided, FreedLawfully
    <3> QED
      BY <3>1, <3>2
  <2> QED
    BY <2>1, <2>2
<1>2. CheckInInv /\ [CheckInNext]_vars => [\A s \in Seats : FreedLawfully(s)]_seatVars
  BY <1>1
<1> QED
  BY <1>2, CheckInInvariance, PTL DEF CheckInSpec, HoldsAreHonoured

(***************************************************************************)
(* One session at a time                                                   *)
(***************************************************************************)

(* What a session is about to commit was decided on the present rows.      *)
Decisions(x) ==
  /\ pc[x] \in {"file", "complete", "commit"} =>
       \A s \in Seats : dirty[x][s] # Nil => Decided(x, s)
  /\ OnlyFreesMany(x)

(* A check-in is completed with its seat confirmed, before or with it.     *)
Completing(x) ==
  LET s == req[x].seat
  IN pc[x] = "complete" \/ (filed[x] # Nil /\ filed[x].status = "COMPLETED") =>
       /\ filed[x] # Nil => filed[x].seat = s
       /\ dirty[x][s] = Nil => seat[s].status = "CONFIRMED"
       /\ dirty[x][s] # Nil => dirty[x][s].row.status = "CONFIRMED"

SerialCheckIns ==
  /\ LoadedIsPresent
  /\ DirtyIsPresent
  /\ RowShape
  /\ CompletedHasConfirmedSeat
  /\ \A x \in Sessions : Decisions(x) /\ Completing(x)

(* The only session reads what the table has.                              *)
LEMMA ReadsArePresent ==
  ASSUME SerialCheckIns, NEW x \in Sessions, NEW s \in Seats
  PROVE  Read(x, s) = seat[s]
  BY DEF SerialCheckIns, LoadedIsPresent, Read

(* A step that changes no row keeps the serial invariant.                  *)
LEMMA QuietStep ==
  ASSUME SerialCheckIns, OneSession, NEW x \in Sessions,
         UNCHANGED <<seat, checkin>>,
         \A s \in Seats : loaded'[x][s] # Nil => loaded'[x][s] = seat[s],
         \A s \in Seats : dirty'[x][s] = Nil,
         filed'[x] = Nil,
         pc'[x] = "complete" => seat[req'[x].seat].status = "CONFIRMED",
         pc'[x] = "complete" => req'[x].seat \in Seats
  PROVE  SerialCheckIns'
<1>1. LoadedIsPresent' /\ DirtyIsPresent'
  BY DEF OneSession, LoadedIsPresent, DirtyIsPresent
<1>2. RowShape' /\ CompletedHasConfirmedSeat'
  BY DEF SerialCheckIns, RowShape, WellFormed, CompletedHasConfirmedSeat, Completed
<1>3. \A y \in Sessions : Decisions(y)' /\ Completing(y)'
  BY DEF OneSession, Decisions, Completing, OnlyFreesMany
<1> QED
  BY <1>1, <1>2, <1>3 DEF SerialCheckIns

(* The change of a seat that was read as it is keeps the serial invariant. *)
LEMMA WritingStep ==
  ASSUME CheckInInv, SerialCheckIns, OneSession, NEW x \in Sessions, NEW s \in Seats,
         UNCHANGED <<now, seat, checkin>>, OwnsNothing(x), filed'[x] = Nil,
         NEW new \in Row, NEW by \in PassengerOrNil, NEW reason \in Reasons,
         Acquire(x, s), Flush(x, s, new, by, reason),
         LET d == ChangeOf(x, s, new, by, reason)
         IN  \/ HoldDecided(s, d) /\ reason # "passenger_confirmed_seat"
             \/ FreeingDecided(s, d) /\ reason # "passenger_confirmed_seat"
             \/ ConfirmationDecided(d) /\ HeldBy(seat[s], by),
         pc'[x] = "complete" => new.status = "CONFIRMED" /\ req'[x].seat = s
  PROVE  SerialCheckIns'
<1> DEFINE d == ChangeOf(x, s, new, by, reason)
<1>1. CheckInTypeOK /\ seat[s] \in Row /\ Read(x, s) = seat[s]
  BY ReadsArePresent DEF CheckInInv, CheckInTypeOK
<1>2. d = [row |-> new, entry |-> StateChange(seat[s], new, by, reason)]
  BY <1>1, FreshUpdate DEF ChangeOf
<1>3. /\ d.row = new
      /\ d.entry.previous_status = seat[s].status
      /\ d.entry.new_status = new.status
      /\ d.entry.changed_by = by
      /\ d.entry.change_reason = reason
  BY <1>2 DEF StateChange
<1>4. /\ dirty'[x][s] = d
      /\ loaded'[x][s] = seat[s]
      /\ \A t \in Seats : t # s => dirty'[x][t] = Nil /\ loaded'[x][t] = loaded[x][t]
  BY <1>1 DEF Flush, Acquire, Load, CheckInTypeOK, OwnsNothing
<1>5. /\ HoldDecided(s, d) => HoldDecided(s, dirty[x][s])'
      /\ FreeingDecided(s, d) => FreeingDecided(s, dirty[x][s])'
      /\ ConfirmationDecided(d) <=> ConfirmationDecided(dirty[x][s])'
  BY <1>4 DEF HoldDecided, FreeingDecided, ConfirmationDecided
<1>6. ConfirmationDecided(d) => HeldBy(seat[s], by)
  BY <1>3 DEF ConfirmationDecided
<1> HIDE DEF d
<1>7. Decided(x, s)'
  BY <1>3, <1>4, <1>5, <1>6 DEF Decided, HeldBy, d
<1>8. Decisions(x)'
  BY <1>4, <1>7 DEF Decisions, OnlyFreesMany
<1>9. Completing(x)'
  <2>1. d \in Change
    BY <1>1, <1>2 DEF d, Change, StateChange, Entry, Row
  <2> QED
    BY <1>3, <1>4, <2>1, ChangeAssumption DEF Completing
<1>10. LoadedIsPresent'
  BY <1>4 DEF SerialCheckIns, LoadedIsPresent, OneSession
<1>11. DirtyIsPresent'
  BY <1>3, <1>4, <1>5, <1>6 DEF DirtyIsPresent, OneSession, HeldBy
<1>12. RowShape' /\ CompletedHasConfirmedSeat'
  BY DEF SerialCheckIns, RowShape, WellFormed, CompletedHasConfirmedSeat, Completed
<1> QED
  BY <1>8, <1>9, <1>10, <1>11, <1>12 DEF SerialCheckIns, OneSession

(* A refused lock or a failed test leaves the rows alone.                  *)
LEMMA RefusedStep ==
  ASSUME CheckInInv, SerialCheckIns, OneSession, NEW x \in Sessions, NEW s \in Seats,
         UNCHANGED <<seat, checkin, filed>>, pc[x] \in Early,
         \/ Refused(x, s)
         \/ Acquire(x, s) /\ UNCHANGED dirty /\ (Goto(x, "abort") \/ Goto(x, "commit"))
  PROVE  SerialCheckIns'
<1>1. CheckInTypeOK /\ OwnsNothing(x) /\ filed[x] = Nil /\ Read(x, s) = seat[s]
  BY EarlyHasFiledNothing, ReadsArePresent DEF CheckInInv, Changes, Early
<1>2. pc'[x] # "complete" /\ \A t \in Seats : dirty'[x][t] = Nil
  BY <1>1 DEF Refused, Goto, CheckInTypeOK, OwnsNothing
<1>3. \A t \in Seats : loaded'[x][t] = loaded[x][t] \/ loaded'[x][t] = seat[t]
  BY <1>1 DEF Refused, Acquire, Load, CheckInTypeOK
<1>4. \A t \in Seats : loaded'[x][t] # Nil => loaded'[x][t] = seat[t]
  BY <1>3 DEF SerialCheckIns, LoadedIsPresent
<1> QED
  BY <1>1, <1>2, <1>4, QuietStep

(* hold_seat of the repository keeps the serial invariant: its object is   *)
(* the present row.                                                        *)
LEMMA SerialHold ==
  ASSUME CheckInInv, SerialCheckIns, OneSession, NEW x \in Sessions, NEW s \in Seats,
         NEW p \in Passengers, pc[x] \in Early,
         UNCHANGED <<now, seat, hist, checkInVars>>,
         NEW l \in {"commit", "file"}, RepositoryHold(x, s, p, l)
  PROVE  SerialCheckIns'
<1> DEFINE new == HeldRow(seat[s], p, now + HoldDuration)
           d   == ChangeOf(x, s, new, p, "passenger_selected_seat")
<1>1. /\ CheckInTypeOK /\ seat[s] \in Row /\ now + HoldDuration \in Nat
      /\ p \in PassengerOrNil /\ p # Nil
      /\ OwnsNothing(x) /\ filed'[x] = Nil /\ Read(x, s) = seat[s]
      /\ UNCHANGED <<checkin, filed>>
  BY EarlyHasFiledNothing, ReadsArePresent, TimeAssumption, NilAssumption
  DEF CheckInInv, CheckInTypeOK, PassengerOrNil, Changes, Early, checkInVars
<1>2. CASE Refused(x, s) \/ (Acquire(x, s) /\ UNCHANGED dirty /\ Goto(x, "abort"))
  BY <1>1, <1>2, RefusedStep
<1>3. CASE /\ Acquire(x, s)
           /\ seat[s].status = "AVAILABLE"
           /\ Flush(x, s, new, p, "passenger_selected_seat")
           /\ Goto(x, l)
  <2>1. new \in Row
    BY <1>1, RowsAreTyped
  <2>2. d.row = new /\ d.entry.changed_by = p
    BY <1>1, <2>1, FreshUpdate DEF ChangeOf, StateChange
  <2>3. HoldDecided(s, d)
    BY <1>1, <1>3, <2>2, NilAssumption DEF HoldDecided, HeldRow
  <2>4. pc'[x] # "complete"
    BY <1>1, <1>3 DEF Goto, CheckInTypeOK
  <2> QED
    BY <1>1, <1>3, <2>1, <2>3, <2>4, WritingStep DEF Reasons
<1> QED
  BY <1>1, <1>2, <1>3 DEF RepositoryHold, LockedChange

(* So does confirm_seat of the repository.                                 *)
LEMMA SerialConfirm ==
  ASSUME CheckInInv, SerialCheckIns, OneSession, NEW x \in Sessions, NEW s \in Seats,
         NEW p \in Passengers, pc[x] \in Early, s = req[x].seat,
         UNCHANGED <<now, seat, hist, req, checkInVars>>,
         NEW l \in {"commit", "complete"}, RepositoryConfirm(x, s, p, l)
  PROVE  SerialCheckIns'
<1> DEFINE new == ConfirmedRow(p)
           d   == ChangeOf(x, s, new, p, "passenger_confirmed_seat")
<1>1. /\ CheckInTypeOK /\ seat[s] \in Row /\ p \in PassengerOrNil /\ p # Nil
      /\ OwnsNothing(x) /\ filed'[x] = Nil /\ Read(x, s) = seat[s]
      /\ UNCHANGED <<checkin, filed>>
  BY EarlyHasFiledNothing, ReadsArePresent, NilAssumption
  DEF CheckInInv, CheckInTypeOK, PassengerOrNil, Changes, Early, checkInVars
<1>2. CASE Refused(x, s) \/ (Acquire(x, s) /\ UNCHANGED dirty /\ Goto(x, "abort"))
  BY <1>1, <1>2, RefusedStep
<1>3. CASE /\ Acquire(x, s)
           /\ HeldBy(seat[s], p)
           /\ Flush(x, s, new, p, "passenger_confirmed_seat")
           /\ Goto(x, l)
  <2>1. new \in Row /\ new.status = "CONFIRMED"
    BY <1>1, RowsAreTyped, 0 \in Nat DEF ConfirmedRow
  <2>2. d.row = new /\ d.entry.changed_by = p
        /\ d.entry.change_reason = "passenger_confirmed_seat"
    BY <1>1, <2>1, FreshUpdate DEF ChangeOf, StateChange
  <2>3. ConfirmationDecided(d)
    BY <1>1, <2>2 DEF ConfirmationDecided
  <2> QED
    BY <1>1, <1>3, <2>1, <2>3, WritingStep DEF Reasons
<1> QED
  BY <1>1, <1>2, <1>3 DEF RepositoryConfirm, LockedChange

(* The seat requests keep the serial invariant.                            *)
LEMMA SerialSeatRequest ==
  ASSUME CheckInInv, SerialCheckIns, OneSession, NEW x \in Sessions, SeatRequest(x)
  PROVE  SerialCheckIns'
<1>1. CheckInTypeOK /\ Knowledge(x) /\ Changes(x) /\ UNCHANGED checkInVars
  BY DEF CheckInInv, SeatRequest
<1>2. ASSUME NEW s \in Seats, NEW p \in Passengers, HoldSeat(x, s, p)
      PROVE  SerialCheckIns'
  <2>1. pc[x] \in Early
    BY <1>2 DEF HoldSeat, Begin, Early
  <2> QED
    BY <1>1, <1>2, <2>1, SerialHold DEF HoldSeat
<1>3. ASSUME NEW s \in Seats, NEW p \in Passengers, ReleaseSeat(x, s, p)
      PROVE  SerialCheckIns'
  <2> DEFINE new == FreedRow(seat[s])
             d   == ChangeOf(x, s, new, p, "passenger_released_seat")
  <2>1. /\ pc[x] \in Early /\ OwnsNothing(x) /\ filed'[x] = Nil
        /\ Read(x, s) = seat[s] /\ seat[s] \in Row /\ p \in PassengerOrNil /\ p # Nil
        /\ UNCHANGED <<now, seat, checkin, filed>>
    BY <1>1, <1>3, EarlyHasFiledNothing, ReadsArePresent, NilAssumption
    DEF ReleaseSeat, Begin, Early, Changes, checkInVars, CheckInTypeOK, PassengerOrNil
  <2>2. CASE Refused(x, s) \/ (Acquire(x, s) /\ UNCHANGED dirty /\ Goto(x, "abort"))
    BY <2>1, <2>2, RefusedStep
  <2>3. CASE /\ Acquire(x, s) /\ HeldBy(seat[s], p) /\ Goto(x, "commit")
             /\ Flush(x, s, new, p, "passenger_released_seat")
    <3>1. new \in Row
      BY <2>1, RowsAreTyped
    <3>2. d.row = new /\ d.entry.changed_by = p
      BY <2>1, <3>1, FreshUpdate DEF ChangeOf, StateChange
    <3>3. FreeingDecided(s, d)
      BY <2>3, <3>2 DEF FreeingDecided, HeldBy
    <3>4. pc'[x] # "complete"
      BY <1>1, <2>3 DEF Goto, CheckInTypeOK
    <3> QED
      BY <2>1, <2>3, <3>1, <3>3, <3>4, WritingStep DEF Reasons
  <2> QED
    BY <1>3, <2>1, <2>2, <2>3 DEF ReleaseSeat, RepositoryRelease, LockedChange
<1>4. ASSUME NEW s \in Seats, NEW p \in Passengers, ConfirmRead(x, s, p)
      PROVE  SerialCheckIns'
  <2>1. /\ pc[x] = "idle" /\ OwnsNothing(x) /\ filed'[x] = Nil
        /\ Read(x, s) = seat[s] /\ UNCHANGED <<seat, checkin, dirty>>
        /\ loaded' = [loaded EXCEPT ![x][s] = Read(x, s)]
        /\ pc' = [pc EXCEPT ![x] = AfterUnlockedRead(Read(x, s), p)]
    BY <1>1, <1>4, EarlyHasFiledNothing, ReadsArePresent
    DEF ConfirmRead, Begin, Load, Goto, Early, Changes, checkInVars
  <2>2. pc'[x] \in {"confirm", "expire", "abort"}
    BY <1>1, <2>1 DEF AfterUnlockedRead, CheckInTypeOK
  <2>3. \A t \in Seats : loaded'[x][t] # Nil => loaded'[x][t] = seat[t]
    BY <1>1, <2>1 DEF CheckInTypeOK, SerialCheckIns, LoadedIsPresent
  <2>4. \A t \in Seats : dirty'[x][t] = Nil
    BY <2>1 DEF OwnsNothing
  <2> QED
    BY <2>1, <2>2, <2>3, <2>4, QuietStep
<1>5. CASE ConfirmSeat(x)
  <2>1. pc[x] = "confirm" /\ UNCHANGED <<now, seat, hist, req, checkInVars>>
    BY <1>1, <1>5 DEF ConfirmSeat
  <2> PICK s \in Seats, p \in Passengers : s = req[x].seat /\ p = req[x].passenger
    BY <1>1, <2>1 DEF Knowledge, ForPassenger, Request, PassengerOrNil
  <2>2. RepositoryConfirm(x, s, p, "commit")
    BY <1>5 DEF ConfirmSeat
  <2> QED
    BY <2>1, <2>2, SerialConfirm DEF Early
<1> QED
  BY <1>2, <1>3, <1>4, <1>5 DEF SeatRequest

(* The tasks keep the serial invariant.                                    *)
LEMMA SerialTask ==
  ASSUME CheckInInv, SerialCheckIns, OneSession, NEW x \in Sessions, SeatTask(x)
  PROVE  SerialCheckIns'
<1>1. CheckInTypeOK /\ Knowledge(x) /\ Changes(x) /\ UNCHANGED <<checkin, filed>>
  BY DEF CheckInInv, SeatTask, checkInVars
<1>2. ASSUME NEW s \in Seats, ExpireTask(x, s)
      PROVE  SerialCheckIns'
  <2>1. /\ OwnsNothing(x) /\ filed'[x] = Nil
        /\ UNCHANGED <<seat, dirty, loaded>> /\ pc' = [pc EXCEPT ![x] = "expire"]
    BY <1>1, <1>2, EarlyHasFiledNothing DEF ExpireTask, Begin, Goto, Early, Changes
  <2>2. pc'[x] = "expire" /\ \A t \in Seats : dirty'[x][t] = Nil
    BY <1>1, <2>1 DEF CheckInTypeOK, OwnsNothing
  <2>3. \A t \in Seats : loaded'[x][t] # Nil => loaded'[x][t] = seat[t]
    BY <2>1 DEF SerialCheckIns, LoadedIsPresent
  <2> QED
    BY <1>1, <2>1, <2>2, <2>3, QuietStep
<1>3. CASE ExpireHold(x)
  <2>1. /\ pc[x] = "expire" /\ pc[x] \in Early /\ UNCHANGED <<now, seat>>
        /\ OwnsNothing(x) /\ filed'[x] = Nil
    BY <1>1, <1>3, EarlyHasFiledNothing DEF ExpireHold, Early, Changes
  <2> PICK s \in Seats : s = req[x].seat
    BY <1>1, <2>1 DEF Knowledge, Request
  <2> DEFINE new == FreedRow(seat[s])
             d   == ChangeOf(x, s, new, Nil, "hold_expired_automatically")
  <2>2. /\ Read(x, s) = seat[s] /\ seat[s] \in Row /\ Nil \in PassengerOrNil
        /\ Acquire(x, s) /\ (Goto(x, "abort") \/ Goto(x, "commit"))
    BY <1>1, <1>3, ReadsArePresent DEF ExpireHold, CheckInTypeOK, PassengerOrNil
  <2>3. CASE UNCHANGED dirty
    BY <1>1, <2>1, <2>2, <2>3, RefusedStep
  <2>4. CASE /\ seat[s].status = "HELD" /\ Due(seat[s], now)
             /\ Flush(x, s, new, Nil, "hold_expired_automatically")
    <3>1. new \in Row
      BY <2>2 DEF FreedRow, Row, PassengerOrNil, Statuses
    <3>2. d.row = new /\ d.entry.changed_by = Nil
      BY <2>2, <3>1, FreshUpdate DEF ChangeOf, StateChange
    <3>3. FreeingDecided(s, d)
      BY <2>4, <3>2 DEF FreeingDecided
    <3>4. pc'[x] # "complete"
      BY <1>1, <2>2 DEF Goto, CheckInTypeOK
    <3> QED
      BY <1>1, <2>1, <2>2, <2>4, <3>1, <3>3, <3>4, WritingStep DEF Reasons
  <2> QED
    BY <1>3, <2>2, <2>3, <2>4 DEF ExpireHold
<1>4. CASE CleanupExpiredHolds(x)
  <2> DEFINE batch == {s \in Seats : Unattended(s)}
             d(s)  == ChangeOf(x, s, FreedRow(seat[s]), Nil, "hold_expired_cleanup")
  <2>1. /\ pc[x] = "idle" /\ OwnsNothing(x) /\ filed'[x] = Nil
        /\ UNCHANGED <<now, seat>> /\ pc' = [pc EXCEPT ![x] = "commit"]
    BY <1>1, <1>4, EarlyHasFiledNothing DEF CleanupExpiredHolds, Goto, Early, Changes
  <2>2. ASSUME NEW s \in Seats
        PROVE  /\ d(s).row = FreedRow(seat[s])
               /\ d(s).row.status = "AVAILABLE"
               /\ d(s).entry.changed_by = Nil
               /\ d(s).entry.change_reason = "hold_expired_cleanup"
               /\ d(s).entry.previous_status = seat[s].status
               /\ d(s).entry.new_status = "AVAILABLE"
    <3>1. Read(x, s) = seat[s]
      BY ReadsArePresent
    <3>2. seat[s] \in Row /\ FreedRow(seat[s]) \in Row
      BY <1>1 DEF CheckInTypeOK, Row, FreedRow, PassengerOrNil, Statuses
    <3> QED
      BY <3>1, <3>2, FreshUpdate DEF ChangeOf, StateChange, FreedRow
  <2>3. \A s \in Seats :
          /\ loaded'[x][s] = IF s \in batch THEN seat[s] ELSE loaded[x][s]
          /\ dirty'[x][s] = IF s \in batch THEN d(s) ELSE Nil
    BY <1>1, <1>4, <2>1 DEF CleanupExpiredHolds, CheckInTypeOK, OwnsNothing
  <2> HIDE DEF d
  <2>4. pc'[x] = "commit"
    BY <1>1, <2>1 DEF CheckInTypeOK
  <2>5. ASSUME NEW s \in Seats, dirty'[x][s] # Nil
        PROVE  /\ loaded'[x][s] = seat[s] /\ Decided(x, s)'
               /\ ~ConfirmationDecided(dirty[x][s])'
               /\ dirty'[x][s].row.status = "AVAILABLE"
    <3>1. s \in batch /\ dirty'[x][s] = d(s) /\ loaded'[x][s] = seat[s]
      BY <2>3, <2>5
    <3>2. seat[s].status = "HELD" /\ Due(seat[s], now)
      BY <1>1, <3>1 DEF Unattended, Overdue, Due, CheckInTypeOK, Row
    <3>3. FreeingDecided(s, dirty[x][s])'
      BY <2>1, <2>2, <3>1, <3>2 DEF FreeingDecided
    <3> QED
      BY <2>1, <2>2, <3>1, <3>3 DEF Decided, ConfirmationDecided
  <2>6. LoadedIsPresent' /\ DirtyIsPresent'
    BY <2>1, <2>3, <2>5 DEF SerialCheckIns, LoadedIsPresent, DirtyIsPresent, OneSession
  <2>7. Decisions(x)' /\ Completing(x)'
    BY <2>1, <2>4, <2>5 DEF Decisions, OnlyFreesMany, Completing
  <2>8. RowShape' /\ CompletedHasConfirmedSeat'
    BY <1>1, <2>1 DEF SerialCheckIns, RowShape, WellFormed, CompletedHasConfirmedSeat, Completed
  <2> QED
    BY <2>6, <2>7, <2>8 DEF SerialCheckIns, OneSession
<1> QED
  BY <1>2, <1>3, <1>4 DEF SeatTask

(* The steps of check-in before a row is filed keep the serial invariant.  *)
LEMMA SerialCheckInStep ==
  ASSUME CheckInInv, SerialCheckIns, OneSession, NEW x \in Sessions,
         CheckInStep(x), ~FileCheckIn(x), ~CompleteCheckIn(x)
  PROVE  SerialCheckIns'
<1>1. CheckInTypeOK /\ Knowledge(x) /\ Changes(x)
  BY DEF CheckInInv
<1>2. /\ pc[x] \in Early /\ OwnsNothing(x)
      /\ UNCHANGED <<now, seat, hist, checkin, filed, timers>> /\ filed'[x] = Nil
  BY <1>1, EarlyHasFiledNothing
  DEF CheckInStep, StartCheckIn, HoldForCheckIn, OpenCheckIn, LookAtSeat, RecheckSeat,
      ConfirmForCheckIn, Begin, Early, Changes, checkInVars
<1>3. ASSUME UNCHANGED dirty, LoadSeats(x) \/ UNCHANGED loaded, NEW l, Goto(x, l),
             l = "complete" => req'[x].seat \in Seats
                               /\ seat[req'[x].seat].status = "CONFIRMED"
      PROVE  SerialCheckIns'
  <2>1. \A s \in Seats : dirty'[x][s] = Nil
    BY <1>2, <1>3 DEF OwnsNothing
  <2>2. \A s \in Seats : loaded'[x][s] # Nil => loaded'[x][s] = seat[s]
    <3>1. CASE LoadSeats(x)
      BY <1>1, <3>1, ReadsArePresent DEF LoadSeats, CheckInTypeOK
    <3>2. CASE UNCHANGED loaded
      BY <3>2 DEF SerialCheckIns, LoadedIsPresent
    <3> QED
      BY <1>3, <3>1, <3>2
  <2>3. pc'[x] = l
    BY <1>1, <1>3 DEF Goto, CheckInTypeOK
  <2> QED
    BY <1>2, <1>3, <2>1, <2>2, <2>3, QuietStep
<1>4. ASSUME NEW s \in Seats, NEW p \in Passengers, StartCheckIn(x, s, p)
      PROVE  SerialCheckIns'
  <2> DEFINE l == IF checkin[p] = Nil THEN "hold" ELSE "abort"
  <2>1. UNCHANGED dirty /\ LoadSeats(x) /\ Goto(x, l) /\ l # "complete"
    BY <1>4 DEF StartCheckIn
  <2> HIDE DEF l
  <2> QED
    BY <1>3, <2>1
<1>5. CASE HoldForCheckIn(x)
  <2>1. pc[x] = "hold" /\ UNCHANGED <<now, seat, hist, checkInVars>>
    BY <1>5 DEF HoldForCheckIn
  <2> PICK s \in Seats, p \in Passengers : req[x] = [seat |-> s, passenger |-> p]
    BY <1>1, <2>1 DEF Knowledge, ForPassenger, Request, PassengerOrNil
  <2>2. CASE RepositoryHold(x, s, p, "file")
    BY <1>2, <2>1, <2>2, SerialHold
  <2>3. CASE Goto(x, "abort") /\ UNCHANGED <<lock, loaded, dirty>>
    BY <1>3, <2>3
  <2> QED
    BY <1>5, <2>2, <2>3 DEF HoldForCheckIn
<1>6. ASSUME NEW p \in Passengers, OpenCheckIn(x, p)
      PROVE  SerialCheckIns'
  <2> DEFINE l == IF checkin[p].status = "IN_PROGRESS" THEN "seat" ELSE "abort"
  <2>1. UNCHANGED <<dirty, loaded>> /\ Goto(x, l) /\ l # "complete"
    BY <1>6 DEF OpenCheckIn
  <2> HIDE DEF l
  <2> QED
    BY <1>3, <2>1
<1>7. CASE LookAtSeat(x)
  <2> DEFINE s == req[x].seat
             l == AfterSeatRead(Read(x, s))
  <2>1. UNCHANGED <<dirty, req>> /\ LoadSeats(x) /\ Goto(x, l) /\ pc[x] = "seat"
    BY <1>7 DEF LookAtSeat
  <2>2. s \in Seats
    BY <1>1, <2>1 DEF Knowledge, ForPassenger, Request
  <2>3. Read(x, s) = seat[s] /\ seat[s] \in Row
    BY <1>1, <2>2, ReadsArePresent DEF CheckInTypeOK
  <2>4. l = "complete" => seat[s].status = "CONFIRMED"
    BY <2>3 DEF AfterSeatRead, Row, Statuses
  <2> HIDE DEF l
  <2> QED
    BY <1>3, <2>1, <2>2, <2>4
<1>8. CASE RecheckSeat(x)
  <2> DEFINE l == AfterUnlockedRead(Read(x, req[x].seat), req[x].passenger)
  <2>1. UNCHANGED <<dirty, loaded>> /\ Goto(x, l) /\ l # "complete"
    BY <1>8 DEF RecheckSeat, AfterUnlockedRead
  <2> HIDE DEF l
  <2> QED
    BY <1>3, <2>1
<1>9. CASE ConfirmForCheckIn(x)
  <2>1. pc[x] = "confirm" /\ UNCHANGED <<now, seat, hist, req, checkInVars>>
    BY <1>9 DEF ConfirmForCheckIn
  <2> PICK s \in Seats, p \in Passengers : s = req[x].seat /\ p = req[x].passenger
    BY <1>1, <2>1 DEF Knowledge, ForPassenger, Request, PassengerOrNil
  <2>2. RepositoryConfirm(x, s, p, "complete")
    BY <1>9 DEF ConfirmForCheckIn
  <2> QED
    BY <1>2, <2>1, <2>2, SerialConfirm
<1> QED
  BY <1>4, <1>5, <1>6, <1>7, <1>8, <1>9 DEF CheckInStep

(* Filing a check-in row keeps the serial invariant: it is completed in a  *)
(* transaction that has found or made its seat CONFIRMED.                  *)
LEMMA SerialFiling ==
  ASSUME CheckInInv, SerialCheckIns, OneSession, NEW x \in Sessions,
         FileCheckIn(x) \/ CompleteCheckIn(x)
  PROVE  SerialCheckIns'
<1>1. CheckInTypeOK /\ Knowledge(x) /\ filed[x] = Nil /\ Decisions(x) /\ Completing(x)
      /\ pc[x] \in {"file", "complete"}
  BY EarlyHasFiledNothing DEF CheckInInv, SerialCheckIns, FileCheckIn, CompleteCheckIn
<1>2. UNCHANGED <<now, seat, hist, req, loaded, dirty, checkin, opened>>
  BY DEF FileCheckIn, CompleteCheckIn
<1>3. pc'[x] \in {"commit", "abort"}
  BY <1>1 DEF FileCheckIn, CompleteCheckIn, Goto, CheckInTypeOK
<1>4. \A s \in Seats : Decided(x, s)' <=> Decided(x, s)
  BY <1>2 DEF Decided, HoldDecided, FreeingDecided, ConfirmationDecided, HeldBy, Due
<1>5. Decisions(x)'
  BY <1>1, <1>2, <1>4 DEF Decisions, OnlyFreesMany
<1>6. Completing(x)'
  <2>1. CASE FileCheckIn(x)
    <3>1. filed'[x] = Nil \/ filed'[x].status = "IN_PROGRESS"
      BY <1>1, <2>1 DEF FileCheckIn, CheckInTypeOK
    <3> QED
      BY <1>3, <3>1 DEF Completing
  <2>2. CASE CompleteCheckIn(x)
    <3>1. OpenedKept(x) /\ pc[x] = "complete"
      BY <1>1, <2>2 DEF CompleteCheckIn, Knowledge
    <3>2. req[x].passenger \in Passengers /\ checkin[req[x].passenger] \in CheckInRow
      BY <1>1, <3>1 DEF OpenedKept, ForPassenger, Request, PassengerOrNil, CheckInTypeOK
    <3>3. filed'[x].seat = req[x].seat
      BY <1>1, <2>2, <3>1, <3>2 DEF CompleteCheckIn, OpenedKept, CheckInTypeOK, CheckInRow
    <3> QED
      BY <1>1, <1>2, <3>1, <3>3 DEF Completing
  <2> QED
    BY <2>1, <2>2
<1>7. LoadedIsPresent' /\ DirtyIsPresent' /\ RowShape' /\ CompletedHasConfirmedSeat'
  BY <1>2
  DEF SerialCheckIns, LoadedIsPresent, DirtyIsPresent, ConfirmationDecided, HeldBy,
      RowShape, WellFormed, CompletedHasConfirmedSeat, Completed
<1> QED
  BY <1>5, <1>6, <1>7 DEF SerialCheckIns, OneSession

(* What a commit relies on holds in a serial run of check-ins.             *)
LEMMA SerialCommits == CheckInInv /\ SerialCheckIns => CommitInv /\ NothingStale
  BY DEF CheckInInv, CheckInTypeOK, SerialCheckIns, Decisions, CommitInv,
         DirtyIsPresent, NothingStale, DecidedOnPresentRow

(* A confirmed seat stays confirmed when decisions are made on present     *)
(* rows.                                                                   *)
LEMMA SerialCommitKeepsConfirmed ==
  ASSUME CheckInInv, SerialCheckIns, NEW x \in Sessions, CommitAll(x), NEW s \in Seats,
         seat[s].status = "CONFIRMED"
  PROVE  dirty[x][s] = Nil /\ seat'[s] = seat[s]
<1>1. CASE dirty[x][s] = Nil
  BY <1>1 DEF CommitAll, Commit
<1>2. CASE dirty[x][s] # Nil
  <2>1. Decided(x, s) /\ DirtyIsPresent
    BY <1>2 DEF SerialCheckIns, Decisions, CommitAll, Commit
  <2> QED
    BY <1>2, <2>1 DEF Decided, HoldDecided, FreeingDecided, DirtyIsPresent, HeldBy
<1> QED
  BY <1>1, <1>2

(* A commit and its abandonment keep the serial invariant.                 *)
LEMMA SerialEnd ==
  ASSUME CheckInInv, SerialCheckIns, OneSession, NEW x \in Sessions,
         CommitAll(x) \/ AbandonAll(x)
  PROVE  SerialCheckIns'
<1>1. CheckInTypeOK /\ EndSession(x) /\ ForgetCheckIn(x)
  BY DEF CheckInInv, CommitAll, Commit, AbandonAll, Rollback, Crash
<1>2. /\ pc'[x] = "idle" /\ filed'[x] = Nil
      /\ \A s \in Seats : loaded'[x][s] = Nil /\ dirty'[x][s] = Nil
  BY <1>1 DEF CheckInTypeOK, EndSession, Goto, ForgetCheckIn, Nothing
<1>3. CASE AbandonAll(x)
  <2>1. UNCHANGED <<seat, checkin>>
    BY <1>3 DEF AbandonAll, Rollback, Crash
  <2> QED
    BY <1>2, <2>1, QuietStep
<1>4. CASE CommitAll(x)
  <2>1. LoadedIsPresent' /\ DirtyIsPresent' /\ Decisions(x)' /\ Completing(x)'
    BY <1>2
    DEF OneSession, LoadedIsPresent, DirtyIsPresent, Decisions, OnlyFreesMany, Completing
  <2>2. ASSUME NEW s \in Seats
        PROVE  WellFormed(seat[s])'
    <3>1. CASE dirty[x][s] = Nil
      BY <1>4, <3>1 DEF CommitAll, Commit, SerialCheckIns, RowShape, WellFormed
    <3>2. CASE dirty[x][s] # Nil
      <4>1. Decided(x, s) /\ seat'[s] = dirty[x][s].row
        BY <1>4, <3>2 DEF CommitAll, Commit, SerialCheckIns, Decisions
      <4>2. WellFormed(dirty[x][s].row)
        BY <3>2, <4>1, SerialCommits, CommittedRow
      <4> QED
        BY <4>1, <4>2 DEF WellFormed
    <3> QED
      BY <3>1, <3>2
  <2>3. RowShape'
    BY <2>2 DEF RowShape
  <2>4. ASSUME NEW p \in Passengers, Completed(p)'
        PROVE  seat'[checkin'[p].seat].status = "CONFIRMED"
    <3>1. CASE checkin'[p] = checkin[p]
      <4>1. Completed(p) /\ checkin[p].seat \in Seats
        BY <1>1, <2>4, <3>1 DEF Completed, CheckInTypeOK, CheckInRow
      <4>2. seat[checkin[p].seat].status = "CONFIRMED"
        BY <4>1 DEF SerialCheckIns, CompletedHasConfirmedSeat
      <4> QED
        BY <1>4, <3>1, <4>1, <4>2, SerialCommitKeepsConfirmed
    <3>2. CASE checkin'[p] # checkin[p]
      <4>1. filed[x] # Nil /\ p = req[x].passenger /\ checkin'[p] = filed[x]
        BY <1>1, <1>4, <3>2 DEF CommitAll, CheckInTypeOK
      <4>2. Completing(x) /\ filed[x].status = "COMPLETED" /\ req[x].seat \in Seats
        BY <1>1, <2>4, <4>1
        DEF SerialCheckIns, Completed, CheckInInv, Changes, FiledRightly, ForPassenger, Request
      <4>3. filed[x].seat = req[x].seat
        BY <4>1, <4>2 DEF Completing
      <4>4. seat'[req[x].seat].status = "CONFIRMED"
        BY <1>4, <4>1, <4>2 DEF Completing, CommitAll, Commit
      <4> QED
        BY <4>1, <4>3, <4>4
    <3> QED
      BY <3>1, <3>2
  <2>5. CompletedHasConfirmedSeat'
    BY <2>4 DEF CompletedHasConfirmedSeat
  <2> QED
    BY <2>1, <2>3, <2>5 DEF SerialCheckIns, OneSession
<1> QED
  BY <1>3, <1>4

(* Every step keeps the serial invariant.                                  *)
LEMMA SerialCheckInsAreKept ==
  ASSUME CheckInInv, SerialCheckIns, OneSession, [CheckInNext]_vars
  PROVE  SerialCheckIns'
<1>1. CheckInTypeOK
  BY DEF CheckInInv
<1>2. ASSUME UNCHANGED <<seat, pc, req, loaded, dirty, checkin, filed>>,
             \A s \in Seats : Due(seat[s], now) => Due(seat[s], now)'
      PROVE  SerialCheckIns'
  <2>1. \A x \in Sessions, s \in Seats : Decided(x, s) => Decided(x, s)'
    BY <1>2 DEF Decided, HoldDecided, FreeingDecided, ConfirmationDecided, HeldBy
  <2>2. \A x \in Sessions : Decisions(x)' /\ Completing(x)'
    BY <1>2, <2>1 DEF SerialCheckIns, Decisions, OnlyFreesMany, Completing
  <2>3. LoadedIsPresent' /\ DirtyIsPresent' /\ RowShape' /\ CompletedHasConfirmedSeat'
    BY <1>2
    DEF SerialCheckIns, LoadedIsPresent, DirtyIsPresent, ConfirmationDecided, HeldBy,
        RowShape, WellFormed, CompletedHasConfirmedSeat, Completed
  <2> QED
    BY <2>2, <2>3 DEF SerialCheckIns
<1>3. CASE Tick /\ UNCHANGED checkInVars
  <2>1. now' = now + 1 /\ UNCHANGED <<seat, pc, req, loaded, dirty, checkin, filed>>
    BY <1>3 DEF Tick, checkInVars
  <2>2. \A s \in Seats : Due(seat[s], now) => Due(seat[s], now)'
    BY <1>1, <2>1 DEF Due, CheckInTypeOK, Row
  <2> QED
    BY <1>2, <2>1, <2>2
<1>4. CASE UNCHANGED vars
  <2>1. UNCHANGED <<now, seat, pc, req, loaded, dirty, checkin, filed>>
    BY <1>4 DEF vars
  <2>2. \A s \in Seats : Due(seat[s], now) => Due(seat[s], now)'
    BY <2>1 DEF Due
  <2> QED
    BY <1>2, <2>1, <2>2
<1>5. ASSUME NEW x \in Sessions, CheckInStep(x)
      PROVE  SerialCheckIns'
  BY <1>5, SerialFiling, SerialCheckInStep
<1>6. ASSUME NEW x \in Sessions,
             SeatRequest(x) \/ SeatTask(x) \/ CommitAll(x) \/ AbandonAll(x)
      PROVE  SerialCheckIns'
  BY <1>6, SerialSeatRequest, SerialTask, SerialEnd
<1> QED
  BY <1>3, <1>4, <1>5, <1>6 DEF CheckInNext

(* When requests and tasks do not overlap, what commits is never stale.    *)
LEMMA SerialCheckInInvariance ==
  ASSUME OneSession
  PROVE  CheckInSpec => [](CheckInInv /\ SerialCheckIns)
<1>1. CheckInInit => SerialCheckIns
  BY SessionAssumption
  DEF CheckInInit, SeatInit, SerialCheckIns, LoadedIsPresent, DirtyIsPresent, RowShape,
      WellFormed, NewRow, CompletedHasConfirmedSeat, Completed, Decisions,
      OnlyFreesMany, Completing, Nothing
<1>2. CheckInInv /\ SerialCheckIns /\ [CheckInNext]_vars => (CheckInInv /\ SerialCheckIns)'
  BY SerialCheckInsAreKept, CheckInInvIsKept
<1> QED
  BY <1>1, <1>2, CheckInInvHoldsInitially, PTL DEF CheckInSpec

(* When requests and tasks do not overlap, a completed check-in has a      *)
(* confirmed seat.                                                         *)
THEOREM CompletedIsConfirmed ==
  ASSUME OneSession
  PROVE  CheckInSpec => []CompletedHasConfirmedSeat
<1>1. SerialCheckIns => CompletedHasConfirmedSeat
  BY DEF SerialCheckIns
<1> QED
  BY <1>1, SerialCheckInInvariance, PTL

(* ... check-ins among seat operations, expiries and crashes implement the *)
(* lifecycle of the seats ...                                              *)
THEOREM SerialCheckInRefinement ==
  ASSUME OneSession
  PROVE  CheckInSpec => ImplementsLifecycle
<1>1. ASSUME CheckInInv, SerialCheckIns, [CheckInNext]_vars
      PROVE  [Lifecycle!LifecycleNext]_Booking
  <2>1. CASE \E x \in Sessions : CommitAll(x)
    BY <1>1, <2>1, SerialCommits, CommitImplements DEF CommitAll
  <2>2. CASE \A x \in Sessions : ~CommitAll(x)
    BY <1>1, <2>2, TablesChangeAtCommit DEF Booking
  <2> QED
    BY <2>1, <2>2
<1>2. CheckInInv /\ SerialCheckIns /\ [CheckInNext]_vars => [Lifecycle!LifecycleNext]_Booking
  BY <1>1
<1>3. CheckInInit => Lifecycle!LifecycleInit
  BY InitImplements DEF CheckInInit
<1> QED
  BY <1>2, <1>3, SerialCheckInInvariance, PTL
  DEF CheckInSpec, ImplementsLifecycle, Lifecycle!LifecycleSpec

(* ... and leave a history in which every entry starts from the status the *)
(* seat had.                                                               *)
THEOREM SerialCheckInAudit ==
  ASSUME OneSession
  PROVE  CheckInSpec => AuditIsAChain
<1>1. ASSUME CheckInInv, SerialCheckIns, [CheckInNext]_vars, NEW s \in Seats
      PROVE  Chained(s)
  <2>1. CASE \A x \in Sessions : ~CommitAll(x)
    BY <1>1, <2>1, TablesChangeAtCommit DEF Chained
  <2>2. ASSUME NEW x \in Sessions, CommitAll(x)
        PROVE  Chained(s)
    <3>1. CASE dirty[x][s] = Nil
      BY <2>2, <3>1 DEF CommitAll, Commit, Chained
    <3>2. CASE dirty[x][s] # Nil
      <4>1. /\ Decided(x, s) /\ loaded[x][s] = seat[s]
            /\ seat'[s] = dirty[x][s].row /\ hist'[s] = dirty[x][s].entry
        BY <1>1, <2>2, <3>2
        DEF SerialCheckIns, Decisions, DirtyIsPresent, CommitAll, Commit
      <4> QED
        BY <4>1 DEF Decided, Chained
    <3> QED
      BY <3>1, <3>2
  <2> QED
    BY <2>1, <2>2
<1>2. CheckInInv /\ SerialCheckIns /\ [CheckInNext]_vars
        => [\A s \in Seats : Chained(s)]_seatVars
  BY <1>1
<1> QED
  BY <1>2, SerialCheckInInvariance, PTL DEF CheckInSpec, AuditIsAChain
===============================================================================
