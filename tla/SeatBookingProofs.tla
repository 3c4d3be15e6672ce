-------------------------- MODULE SeatBookingProofs ---------------------------
(***************************************************************************)
(* SeatInv is an inductive invariant of SeatBooking, for any passengers,   *)
(* seats, sessions and times; the safety properties follow from it.        *)
(***************************************************************************)
EXTENDS SeatRequirements, TLAPS

(***************************************************************************)
(* Rows                                                                    *)
(***************************************************************************)

(* An UPDATE made from an object that is up to date stores the object. *)
LEMMA FreshUpdate ==
  ASSUME NEW row \in Row, NEW new \in Row
  PROVE  UpdatedRow(row, row, new) = new
  BY DEF UpdatedRow, Column, Row

(* The confirmation of a held object changes all four columns, so it       *)
(* replaces the stored row whatever that row has become.                   *)
LEMMA ConfirmationReplaces ==
  ASSUME NEW stored \in Row, NEW old \in Row, NEW p \in Passengers,
         WellFormed(old), HeldBy(old, p)
  PROVE  UpdatedRow(stored, old, ConfirmedRow(p)) = ConfirmedRow(p)
<1>1. /\ old.status = "HELD"
      /\ old.held_by # Nil
      /\ old.hold_expires_at # Nil
      /\ old.confirmed_by = Nil
  BY DEF WellFormed, HeldBy, Row, Statuses
<1>2. p # Nil
  BY NilAssumption
<1> QED
  BY <1>1, <1>2 DEF UpdatedRow, Column, ConfirmedRow

(* What the repository assigns to a seat object is again a row.            *)
LEMMA RowsAreTyped ==
  ASSUME NEW row \in Row, NEW p \in Passengers, NEW e \in Nat
  PROVE  /\ HeldRow(row, p, e) \in Row
         /\ ConfirmedRow(p) \in Row
         /\ FreedRow(row) \in Row
         /\ NewRow \in Row
  BY DEF Row, HeldRow, ConfirmedRow, FreedRow, NewRow, PassengerOrNil, Statuses

(* An UPDATE of the changed columns, made from any object, leaves a row.   *)
LEMMA UpdatesAreTyped ==
  ASSUME NEW stored \in Row, NEW old \in Row, NEW new \in Row
  PROVE  UpdatedRow(stored, old, new) \in Row
  BY DEF Row, UpdatedRow, Column

(* A well-formed row stays so under each of the repository's changes. *)
LEMMA ChangesKeepShape ==
  ASSUME NEW row \in Row, NEW p \in Passengers, NEW e \in Nat, WellFormed(row)
  PROVE  /\ WellFormed(NewRow)
         /\ row.status = "AVAILABLE" => WellFormed(HeldRow(row, p, e))
         /\ row.status = "HELD" => WellFormed(FreedRow(row))
         /\ WellFormed(ConfirmedRow(p))
  BY NilAssumption
  DEF WellFormed, Row, HeldRow, ConfirmedRow, FreedRow, NewRow,
      PassengerOrNil, Statuses
(***************************************************************************)
(* Sessions                                                                *)
(***************************************************************************)

(* What a step of session x leaves alone, until it ends its transaction:   *)
(* the committed rows, the other sessions, and the locks others own.       *)
LocalTo(x) ==
  /\ UNCHANGED <<now, seat, hist>>
  /\ \A y \in Sessions \ {x} :
       /\ pc'[y] = pc[y]
       /\ req'[y] = req[y]
       /\ loaded'[y] = loaded[y]
       /\ dirty'[y] = dirty[y]
  /\ \A s \in Seats : lock'[s] = lock[s] \/ (lock[s] = Nil /\ lock'[s] = x)

(* Such a step preserves what is known of every other session. *)
LEMMA LocalStep ==
  ASSUME SeatInv, NEW x \in Sessions, LocalTo(x), SeatTypeOK', SessionInv(x)'
  PROVE  SeatInv'
<1>1. RowShape' /\ AuditEndsInStatus'
  BY DEF SeatInv, LocalTo, RowShape, AuditEndsInStatus
<1>2. ASSUME NEW y \in Sessions, y # x
      PROVE  SessionInv(y)'
  <2> SUFFICES ASSUME SessionInv(y), lock \in [Seats -> Sessions \cup {Nil}]
               PROVE  SessionInv(y)'
    BY DEF SeatInv, SeatTypeOK
  <2>1. pc'[y] = pc[y] /\ req'[y] = req[y]
        /\ loaded'[y] = loaded[y] /\ dirty'[y] = dirty[y]
    BY <1>2 DEF LocalTo
  <2>2. seat' = seat /\ now' = now
    BY DEF LocalTo
  <2>3. \A s \in Seats : lock'[s] = y <=> lock[s] = y
    BY <1>2, SessionAssumption DEF LocalTo
  <2>4. OwnsNothing(y) => OwnsNothing(y)'
    BY <2>1, <2>3 DEF OwnsNothing
  <2>5. \A s \in Seats : Decided(y, s) => Decided(y, s)'
    BY <2>1, <2>2
    DEF Decided, HoldDecided, FreeingDecided, ConfirmationDecided, HeldBy
  <2>6. OnlyFreesMany(y) => OnlyFreesMany(y)'
    BY <2>1 DEF OnlyFreesMany
  <2> QED
    BY <2>1, <2>3, <2>4, <2>5, <2>6 DEF SessionInv
<1> QED
  BY <1>1, <1>2 DEF SeatInv

(* The object a session works on is a row, and a well-formed one. *)
LEMMA ReadsAreRows ==
  ASSUME SeatInv, NEW x \in Sessions, NEW s \in Seats
  PROVE  Read(x, s) \in Row /\ WellFormed(Read(x, s))
  BY DEF SeatInv, SeatTypeOK, RowShape, SessionInv, Read

(* req changes for session x alone. *)
RequestOf(x) ==
  /\ req' \in [Sessions -> Request \cup {Nil}]
  /\ \A y \in Sessions \ {x} : req'[y] = req[y]

(* The lock is refused, or the object is left as it is: most often because *)
(* it fails a test and the session raises.                                 *)
LEMMA RejectedStep ==
  ASSUME SeatInv, NEW x \in Sessions, NEW s \in Seats, OwnsNothing(x),
         UNCHANGED <<now, seat, hist>>, RequestOf(x),
         \/ Refused(x, s)
         \/ Acquire(x, s) /\ UNCHANGED dirty /\ (Goto(x, "abort") \/ Goto(x, "commit"))
  PROVE  SeatInv'
<1>1. SeatTypeOK /\ SessionInv(x)
  BY DEF SeatInv
<1>2. Read(x, s) \in Row /\ WellFormed(Read(x, s))
  BY ReadsAreRows
<1>3. /\ \/ pc' = [pc EXCEPT ![x] = "abort"]
         \/ pc' = [pc EXCEPT ![x] = "commit"]
      /\ dirty' = dirty
      /\ \/ lock' = lock /\ loaded' = loaded
         \/ /\ lock[s] = Nil
            /\ lock' = [lock EXCEPT ![s] = x]
            /\ loaded' = [loaded EXCEPT ![x][s] = Read(x, s)]
  BY DEF Refused, Acquire, Goto, Load
<1>4. SeatTypeOK'
  <2>1. CASE lock' = lock /\ loaded' = loaded
    BY <1>1, <1>3, <2>1 DEF SeatTypeOK, RequestOf
  <2>2. CASE /\ lock' = [lock EXCEPT ![s] = x]
             /\ loaded' = [loaded EXCEPT ![x][s] = Read(x, s)]
    BY <1>1, <1>2, <1>3, <2>2 DEF SeatTypeOK, RequestOf
  <2> QED
    BY <1>3, <2>1, <2>2
<1>5. LocalTo(x)
  BY <1>1, <1>3 DEF LocalTo, SeatTypeOK, RequestOf
<1>6. pc'[x] \in {"abort", "commit"}
  BY <1>1, <1>3 DEF SeatTypeOK
<1>7. \A t \in Seats : loaded'[x][t] # Nil => WellFormed(loaded'[x][t])
  <2>1. CASE loaded' = loaded
    BY <1>1, <2>1 DEF SessionInv
  <2>2. CASE loaded' = [loaded EXCEPT ![x][s] = Read(x, s)]
    BY <1>1, <1>2, <2>2 DEF SeatTypeOK, SessionInv
  <2> QED
    BY <1>3, <2>1, <2>2
<1>8. \A t \in Seats : dirty'[x][t] = Nil
  BY <1>3 DEF OwnsNothing
<1>9. SessionInv(x)'
  BY <1>6, <1>7, <1>8 DEF SessionInv, OnlyFreesMany
<1> QED
  BY <1>4, <1>5, <1>9, LocalStep

(* The object is changed to d and flushed, and the session goes on to its  *)
(* commit or, when confirm_seat had its hold expired, to its rollback.     *)
LEMMA ChangingStep ==
  ASSUME SeatInv, NEW x \in Sessions, NEW s \in Seats, OwnsNothing(x),
         UNCHANGED <<now, seat, hist>>, RequestOf(x),
         Acquire(x, s),
         NEW d \in Change, dirty' = [dirty EXCEPT ![x][s] = d],
         NEW l \in {"commit", "abort"}, Goto(x, l),
         l = "commit" => Decided(x, s)'
  PROVE  SeatInv'
<1>1. SeatTypeOK /\ SessionInv(x)
  BY DEF SeatInv
<1>2. Read(x, s) \in Row /\ WellFormed(Read(x, s))
  BY ReadsAreRows
<1>3. /\ pc' = [pc EXCEPT ![x] = l]
      /\ lock[s] = Nil
      /\ lock' = [lock EXCEPT ![s] = x]
      /\ loaded' = [loaded EXCEPT ![x][s] = Read(x, s)]
  BY DEF Acquire, Goto, Load
<1>4. SeatTypeOK'
  BY <1>1, <1>2, <1>3 DEF SeatTypeOK, RequestOf
<1>5. LocalTo(x)
  BY <1>1, <1>3 DEF LocalTo, SeatTypeOK, RequestOf
<1>6. pc'[x] = l /\ lock'[s] = x
  BY <1>1, <1>3 DEF SeatTypeOK
<1>7. \A t \in Seats : loaded'[x][t] # Nil => WellFormed(loaded'[x][t])
  BY <1>1, <1>2, <1>3 DEF SeatTypeOK, SessionInv
<1>8. \A t \in Seats : t # s => dirty'[x][t] = Nil
  BY <1>1 DEF OwnsNothing, SeatTypeOK
<1>9. SessionInv(x)'
  BY <1>6, <1>7, <1>8 DEF SessionInv, OnlyFreesMany
<1> QED
  BY <1>4, <1>5, <1>9, LocalStep

(***************************************************************************)
(* The actions                                                             *)
(***************************************************************************)

(* A request starts with a session that knows and owns nothing, so what it *)
(* first reads is the committed row.                                       *)
LEMMA BeginFacts ==
  ASSUME SeatInv, NEW x \in Sessions, NEW s \in Seats, NEW p \in PassengerOrNil,
         Begin(x, s, p)
  PROVE  /\ OwnsNothing(x)
         /\ RequestOf(x)
         /\ req'[x] = [seat |-> s, passenger |-> p]
         /\ \A t \in Seats : loaded[x][t] = Nil
         /\ Read(x, s) = seat[s]
<1>1. /\ SeatTypeOK
      /\ SessionInv(x)
      /\ pc[x] = "idle"
      /\ req' = [req EXCEPT ![x] = [seat |-> s, passenger |-> p]]
  BY DEF SeatInv, Begin
<1>2. [seat |-> s, passenger |-> p] \in Request
  BY DEF Request
<1>3. RequestOf(x) /\ req'[x] = [seat |-> s, passenger |-> p]
  BY <1>1, <1>2 DEF RequestOf, SeatTypeOK
<1> QED
  BY <1>1, <1>3 DEF SessionInv, Read

(* What a flush makes of a seat is a row version with a history entry.     *)
LEMMA ChangesAreTyped ==
  ASSUME SeatInv, NEW x \in Sessions, NEW s \in Seats, NEW new \in Row,
         NEW by \in PassengerOrNil, NEW reason \in Reasons
  PROVE  ChangeOf(x, s, new, by, reason) \in Change
<1>1. Read(x, s) \in Row /\ seat[s] \in Row
  BY ReadsAreRows DEF SeatInv, SeatTypeOK
<1>2. UpdatedRow(seat[s], Read(x, s), new) \in Row
  BY <1>1, UpdatesAreTyped
<1>3. StateChange(Read(x, s), new, by, reason) \in Entry
  BY <1>1 DEF StateChange, Entry, Row
<1> QED
  BY <1>2, <1>3 DEF ChangeOf, Change

(* A flushed change of an object that is up to date: all the invariant     *)
(* asks of it is that the new row is a hold or an end of hold.             *)
LEMMA FreshChange ==
  ASSUME SeatInv, NEW x \in Sessions, NEW s \in Seats, NEW new \in Row,
         NEW by \in PassengerOrNil, NEW reason \in Reasons,
         UNCHANGED <<now, seat, hist>>,
         Read(x, s) = seat[s], Acquire(x, s), Flush(x, s, new, by, reason),
         \/ HoldDecided(s, ChangeOf(x, s, new, by, reason))
         \/ FreeingDecided(s, ChangeOf(x, s, new, by, reason))
  PROVE  Decided(x, s)'
<1> DEFINE d == ChangeOf(x, s, new, by, reason)
<1>1. SeatTypeOK /\ seat[s] \in Row
  BY DEF SeatInv, SeatTypeOK
<1>2. d = [row |-> new, entry |-> StateChange(seat[s], new, by, reason)]
  BY <1>1, FreshUpdate DEF ChangeOf
<1>3. dirty'[x][s] = d /\ loaded'[x][s] = seat[s]
  BY <1>1 DEF Flush, Acquire, Load, SeatTypeOK
<1>4. /\ dirty'[x][s].row = d.row
      /\ dirty'[x][s].entry = d.entry
  BY <1>3
<1>5. /\ d.entry.previous_status = seat[s].status
      /\ d.entry.new_status = d.row.status
  BY <1>2 DEF StateChange
<1>6. HoldDecided(s, d) => HoldDecided(s, dirty[x][s])'
  BY <1>3 DEF HoldDecided
<1>7. FreeingDecided(s, d) => FreeingDecided(s, dirty[x][s])'
  BY <1>3 DEF FreeingDecided
<1> HIDE DEF d
<1> QED
  BY <1>3, <1>5, <1>6, <1>7 DEF Decided, d

(* hold_seat, refused or not, keeps the invariant: its locked read is its  *)
(* first one, so the hold is decided on the free seat as it is.            *)
LEMMA HoldSeatStep ==
  ASSUME SeatInv, NEW x \in Sessions, NEW s \in Seats, NEW p \in Passengers,
         HoldSeat(x, s, p)
  PROVE  SeatInv'
<1> DEFINE new == HeldRow(seat[s], p, now + HoldDuration)
           d   == ChangeOf(x, s, new, p, "passenger_selected_seat")
<1>1. /\ p \in PassengerOrNil /\ p # Nil
      /\ Begin(x, s, p)
      /\ UNCHANGED <<now, seat, hist>>
  BY NilAssumption DEF HoldSeat, PassengerOrNil
<1>2. OwnsNothing(x) /\ RequestOf(x) /\ Read(x, s) = seat[s]
  BY <1>1, BeginFacts
<1>3. CASE Refused(x, s) \/ (Acquire(x, s) /\ UNCHANGED dirty /\ Goto(x, "abort"))
  BY <1>1, <1>2, <1>3, RejectedStep
<1>4. CASE /\ Acquire(x, s)
           /\ seat[s].status = "AVAILABLE"
           /\ Flush(x, s, new, p, "passenger_selected_seat")
           /\ Goto(x, "commit")
  <2>1. seat[s] \in Row /\ now + HoldDuration \in Nat
    BY TimeAssumption DEF SeatInv, SeatTypeOK
  <2>2. new \in Row
    BY <2>1, RowsAreTyped
  <2>3. d \in Change
    BY <1>1, <2>2, ChangesAreTyped DEF Reasons
  <2>4. d.row = new /\ d.entry.changed_by = p
    BY <1>2, <2>1, <2>2, FreshUpdate DEF ChangeOf, StateChange
  <2>5. HoldDecided(s, d)
    BY <1>1, <1>4, <2>1, <2>4, NilAssumption DEF HoldDecided, HeldRow
  <2>6. Decided(x, s)'
    BY <1>1, <1>2, <1>4, <2>2, <2>5, FreshChange DEF Reasons
  <2> QED
    BY <1>1, <1>2, <1>4, <2>3, <2>6, ChangingStep DEF Flush
<1> QED
  BY <1>2, <1>3, <1>4 DEF HoldSeat, RepositoryHold, LockedChange

(* release_seat keeps the invariant: the holder it compares with is the    *)
(* present one, because its locked read is its first one.                  *)
LEMMA ReleaseSeatStep ==
  ASSUME SeatInv, NEW x \in Sessions, NEW s \in Seats, NEW p \in Passengers,
         ReleaseSeat(x, s, p)
  PROVE  SeatInv'
<1> DEFINE new == FreedRow(seat[s])
           d   == ChangeOf(x, s, new, p, "passenger_released_seat")
<1>1. /\ p \in PassengerOrNil /\ p # Nil
      /\ Begin(x, s, p)
      /\ UNCHANGED <<now, seat, hist>>
  BY NilAssumption DEF ReleaseSeat, PassengerOrNil
<1>2. OwnsNothing(x) /\ RequestOf(x) /\ Read(x, s) = seat[s]
  BY <1>1, BeginFacts
<1>3. CASE Refused(x, s) \/ (Acquire(x, s) /\ UNCHANGED dirty /\ Goto(x, "abort"))
  BY <1>1, <1>2, <1>3, RejectedStep
<1>4. CASE /\ Acquire(x, s)
           /\ HeldBy(seat[s], p)
           /\ Flush(x, s, new, p, "passenger_released_seat")
           /\ Goto(x, "commit")
  <2>1. seat[s] \in Row
    BY DEF SeatInv, SeatTypeOK
  <2>2. new \in Row
    BY <2>1, RowsAreTyped
  <2>3. d \in Change
    BY <1>1, <2>2, ChangesAreTyped DEF Reasons
  <2>4. d.row = new /\ d.entry.changed_by = p
    BY <1>2, <2>1, <2>2, FreshUpdate DEF ChangeOf, StateChange
  <2>5. FreeingDecided(s, d)
    BY <1>4, <2>4 DEF FreeingDecided, HeldBy
  <2>6. Decided(x, s)'
    BY <1>1, <1>2, <1>4, <2>2, <2>5, FreshChange DEF Reasons
  <2> QED
    BY <1>1, <1>2, <1>4, <2>3, <2>6, ChangingStep DEF Flush
<1> QED
  BY <1>2, <1>3, <1>4 DEF ReleaseSeat, RepositoryRelease, LockedChange

(* The unlocked read of confirm_seat keeps the invariant: it learns a      *)
(* well-formed row and owns nothing.                                       *)
LEMMA ConfirmReadStep ==
  ASSUME SeatInv, NEW x \in Sessions, NEW s \in Seats, NEW p \in Passengers,
         ConfirmRead(x, s, p)
  PROVE  SeatInv'
<1>1. /\ p \in PassengerOrNil /\ p # Nil
      /\ Begin(x, s, p)
      /\ UNCHANGED <<now, seat, hist, lock, dirty>>
      /\ loaded' = [loaded EXCEPT ![x][s] = Read(x, s)]
      /\ pc' = [pc EXCEPT ![x] = AfterUnlockedRead(Read(x, s), p)]
  BY NilAssumption DEF ConfirmRead, PassengerOrNil, Load, Goto
<1>2. /\ OwnsNothing(x) /\ RequestOf(x) /\ Read(x, s) = seat[s]
      /\ req'[x] = [seat |-> s, passenger |-> p]
  BY <1>1, BeginFacts
<1>3. SeatTypeOK /\ SessionInv(x) /\ seat[s] \in Row /\ WellFormed(seat[s])
  BY DEF SeatInv, SeatTypeOK, RowShape
<1>4. AfterUnlockedRead(Read(x, s), p) \in {"confirm", "expire", "abort"}
  BY DEF AfterUnlockedRead
<1>5. SeatTypeOK'
  BY <1>1, <1>2, <1>3, <1>4 DEF SeatTypeOK, RequestOf
<1>6. LocalTo(x)
  BY <1>1, <1>2, <1>3 DEF LocalTo, RequestOf, SeatTypeOK
<1>7. pc'[x] \in {"confirm", "expire", "abort"}
  BY <1>1, <1>3, <1>4 DEF SeatTypeOK
<1>8. req'[x] \in Request /\ req'[x].passenger # Nil
  BY <1>1, <1>2 DEF Request
<1>9. \A t \in Seats : loaded'[x][t] # Nil => WellFormed(loaded'[x][t])
  BY <1>1, <1>2, <1>3 DEF SeatTypeOK, SessionInv
<1>10. OwnsNothing(x)'
  BY <1>1, <1>2 DEF OwnsNothing
<1>11. SessionInv(x)'
  BY <1>7, <1>8, <1>9, <1>10 DEF SessionInv, OwnsNothing, OnlyFreesMany
<1> QED
  BY <1>5, <1>6, <1>11, LocalStep

(* The object may be out of date, but it is that of a held seat, so the    *)
(* confirmation overwrites all of the row.                                 *)
LEMMA ConfirmSeatStep ==
  ASSUME SeatInv, NEW x \in Sessions, ConfirmSeat(x)
  PROVE  SeatInv'
<1>1. SeatTypeOK /\ SessionInv(x)
  BY DEF SeatInv
<1> PICK s \in Seats, p \in Passengers : s = req[x].seat /\ p = req[x].passenger
  BY <1>1 DEF ConfirmSeat, SessionInv, Request, PassengerOrNil
<1> DEFINE d == ChangeOf(x, s, ConfirmedRow(p), p, "passenger_confirmed_seat")
<1>2. /\ OwnsNothing(x)
      /\ p \in PassengerOrNil /\ p # Nil
      /\ UNCHANGED <<now, seat, hist, req>>
  BY <1>1, NilAssumption DEF ConfirmSeat, SessionInv, PassengerOrNil
<1>3. RequestOf(x)
  BY <1>1, <1>2 DEF SeatTypeOK, RequestOf
<1>4. Read(x, s) \in Row /\ WellFormed(Read(x, s)) /\ seat[s] \in Row
  BY <1>1, <1>2, ReadsAreRows DEF SeatTypeOK
<1>5. CASE Refused(x, s) \/ (Acquire(x, s) /\ UNCHANGED dirty /\ Goto(x, "abort"))
  BY <1>2, <1>3, <1>5, RejectedStep
<1>6. CASE /\ Acquire(x, s)
           /\ HeldBy(Read(x, s), p)
           /\ Flush(x, s, ConfirmedRow(p), p, "passenger_confirmed_seat")
           /\ Goto(x, "commit")
  <2>1. ConfirmedRow(p) \in Row
    BY <1>2, <1>4, RowsAreTyped, 0 \in Nat
  <2>2. d \in Change
    BY <1>2, <2>1, ChangesAreTyped DEF Reasons
  <2>3. d.row = ConfirmedRow(p)
    BY <1>2, <1>4, <1>6, ConfirmationReplaces DEF ChangeOf
  <2>4. /\ d.entry.changed_by = p
        /\ d.entry.change_reason = "passenger_confirmed_seat"
        /\ d.entry.previous_status = Read(x, s).status
        /\ d.entry.new_status = "CONFIRMED"
    BY DEF ChangeOf, StateChange, ConfirmedRow
  <2>5. dirty'[x][s] = d /\ loaded'[x][s] = Read(x, s)
    BY <1>1, <1>2, <1>6 DEF Flush, Acquire, Load, SeatTypeOK
  <2>6. ConfirmationDecided(d)
    BY <1>2, <2>3, <2>4 DEF ConfirmationDecided
  <2> HIDE DEF d
  <2>7. ConfirmationDecided(dirty[x][s])'
    BY <2>5, <2>6 DEF ConfirmationDecided
  <2>8. HeldBy(loaded[x][s], dirty[x][s].entry.changed_by)'
    BY <1>6, <2>4, <2>5 DEF HeldBy
  <2>9. dirty' = [dirty EXCEPT ![x][s] = d]
    BY <1>6 DEF Flush, d
  <2>10. Decided(x, s)'
    BY <2>3, <2>4, <2>5, <2>7, <2>8 DEF Decided, ConfirmedRow
  <2> QED
    BY <1>2, <1>3, <1>6, <2>2, <2>9, <2>10, ChangingStep
<1> QED
  BY <1>5, <1>6 DEF ConfirmSeat, RepositoryConfirm, LockedChange

(* The expire task begins without knowing, owning or writing anything.     *)
LEMMA ExpireTaskStep ==
  ASSUME SeatInv, NEW x \in Sessions, NEW s \in Seats, ExpireTask(x, s)
  PROVE  SeatInv'
<1>1. /\ Nil \in PassengerOrNil
      /\ Begin(x, s, Nil)
      /\ UNCHANGED <<now, seat, hist, lock, loaded, dirty>>
      /\ pc' = [pc EXCEPT ![x] = "expire"]
  BY DEF ExpireTask, PassengerOrNil, Goto
<1>2. /\ OwnsNothing(x) /\ RequestOf(x)
      /\ req'[x] = [seat |-> s, passenger |-> Nil]
      /\ \A t \in Seats : loaded[x][t] = Nil
  BY <1>1, BeginFacts
<1>3. SeatTypeOK /\ SessionInv(x)
  BY DEF SeatInv
<1>4. SeatTypeOK'
  BY <1>1, <1>2, <1>3 DEF SeatTypeOK, RequestOf
<1>5. LocalTo(x)
  BY <1>1, <1>2, <1>3 DEF LocalTo, RequestOf, SeatTypeOK
<1>6. pc'[x] = "expire"
  BY <1>1, <1>3 DEF SeatTypeOK
<1>7. req'[x] \in Request
  BY <1>1, <1>2 DEF Request
<1>8. OwnsNothing(x)'
  BY <1>1, <1>2 DEF OwnsNothing
<1>9. SessionInv(x)'
  BY <1>1, <1>2, <1>6, <1>7, <1>8 DEF SessionInv, OwnsNothing, OnlyFreesMany
<1> QED
  BY <1>4, <1>5, <1>9, LocalStep

(* expire_hold keeps the invariant: called by the task it decides on the   *)
(* row as it is; called by confirm_seat what it writes is rolled back.     *)
LEMMA ExpireHoldStep ==
  ASSUME SeatInv, NEW x \in Sessions, ExpireHold(x)
  PROVE  SeatInv'
<1>1. SeatTypeOK /\ SessionInv(x) /\ pc[x] = "expire"
  BY DEF SeatInv, ExpireHold
<1> PICK s \in Seats : s = req[x].seat
  BY <1>1 DEF SessionInv, Request
<1> DEFINE row == Read(x, s)
           new == FreedRow(row)
           d   == ChangeOf(x, s, new, Nil, "hold_expired_automatically")
           l   == IF req[x].passenger = Nil THEN "commit" ELSE "abort"
<1>2. /\ OwnsNothing(x)
      /\ Nil \in PassengerOrNil
      /\ UNCHANGED <<now, seat, hist, req>>
      /\ Acquire(x, s)
      /\ Goto(x, l)
  BY <1>1 DEF ExpireHold, SessionInv, PassengerOrNil
<1>3. RequestOf(x)
  BY <1>1, <1>2 DEF SeatTypeOK, RequestOf
<1>4. row \in Row
  BY ReadsAreRows
<1>5. new \in Row
  BY <1>4, RowsAreTyped DEF FreedRow, Row, PassengerOrNil, Statuses
<1>6. CASE UNCHANGED dirty
  <2>1. Goto(x, "abort") \/ Goto(x, "commit")
    BY <1>2
  <2> QED
    BY <1>2, <1>3, <1>6, <2>1, RejectedStep
<1>7. CASE /\ row.status = "HELD" /\ Due(row, now)
           /\ Flush(x, s, new, Nil, "hold_expired_automatically")
  <2>1. d \in Change
    BY <1>2, <1>5, ChangesAreTyped DEF Reasons
  <2>2. dirty' = [dirty EXCEPT ![x][s] = d]
    BY <1>7 DEF Flush
  <2>3. CASE req[x].passenger = Nil
    <3>1. row = seat[s]
      BY <1>1, <2>3 DEF SessionInv, Read
    <3>2. seat[s] \in Row
      BY <1>1 DEF SeatTypeOK
    <3>3. d.row = new /\ d.entry.changed_by = Nil
      BY <1>5, <3>1, <3>2, FreshUpdate DEF ChangeOf, StateChange
    <3>4. FreeingDecided(s, d)
      BY <1>7, <3>1, <3>3 DEF FreeingDecided
    <3>5. Decided(x, s)'
      BY <1>2, <1>5, <1>7, <3>1, <3>4, FreshChange DEF Reasons
    <3>6. Goto(x, "commit")
      BY <1>2, <2>3
    <3> QED
      BY <1>2, <1>3, <2>1, <2>2, <3>5, <3>6, ChangingStep
  <2>4. CASE req[x].passenger # Nil
    <3>1. Goto(x, "abort")
      BY <1>2, <2>4
    <3> QED
      BY <1>2, <1>3, <2>1, <2>2, <3>1, ChangingStep
  <2> QED
    BY <2>3, <2>4
<1> QED
  BY <1>6, <1>7 DEF ExpireHold

(* cleanup_expired_holds keeps the invariant: it locks and frees a batch   *)
(* of seats, all of them overdue and locked by nobody else.                *)
LEMMA CleanupStep ==
  ASSUME SeatInv, NEW x \in Sessions, CleanupExpiredHolds(x)
  PROVE  SeatInv'
<1> DEFINE batch == {s \in Seats : Unattended(s)}
           d(s)  == ChangeOf(x, s, FreedRow(seat[s]), Nil, "hold_expired_cleanup")
<1>1. SeatTypeOK /\ SessionInv(x) /\ OwnsNothing(x) /\ RowShape
  BY DEF SeatInv, CleanupExpiredHolds, SessionInv
<1>2. /\ UNCHANGED <<now, seat, hist, req>>
      /\ pc' = [pc EXCEPT ![x] = "commit"]
  BY DEF CleanupExpiredHolds, Goto
<1>3. \A s \in Seats : loaded[x][s] = Nil
  BY <1>1 DEF CleanupExpiredHolds, SessionInv
<1>4. ASSUME NEW s \in Seats
      PROVE  /\ d(s) \in Change
             /\ d(s).row = FreedRow(seat[s])
             /\ d(s).row.status = "AVAILABLE"
             /\ d(s).entry.changed_by = Nil
             /\ d(s).entry.previous_status = seat[s].status
             /\ d(s).entry.new_status = "AVAILABLE"
  <2>1. Read(x, s) = seat[s]
    BY <1>3 DEF Read
  <2>2. seat[s] \in Row /\ FreedRow(seat[s]) \in Row
    BY <1>1 DEF SeatTypeOK, Row, FreedRow, PassengerOrNil, Statuses
  <2>3. d(s) \in Change
    BY <2>2, ChangesAreTyped DEF Reasons, PassengerOrNil
  <2> QED
    BY <2>1, <2>2, <2>3, FreshUpdate DEF ChangeOf, StateChange, FreedRow
<1>5. \A s \in Seats :
        /\ lock'[s] = IF s \in batch THEN x ELSE lock[s]
        /\ loaded'[x][s] = IF s \in batch THEN seat[s] ELSE loaded[x][s]
        /\ dirty'[x][s] = IF s \in batch THEN d(s) ELSE dirty[x][s]
  BY <1>1 DEF CleanupExpiredHolds, SeatTypeOK
<1> HIDE DEF d
<1>6. SeatTypeOK'
  BY <1>1, <1>2, <1>4 DEF CleanupExpiredHolds, SeatTypeOK, d
<1>7. LocalTo(x)
  BY <1>1, <1>2, <1>5 DEF CleanupExpiredHolds, LocalTo, Unattended, SeatTypeOK
<1>8. pc'[x] = "commit"
  BY <1>1, <1>2 DEF SeatTypeOK
<1>9. ASSUME NEW s \in Seats, dirty'[x][s] # Nil
      PROVE  Decided(x, s)' /\ lock'[s] = x /\ dirty'[x][s].row.status = "AVAILABLE"
  <2>1. s \in batch
    BY <1>1, <1>5, <1>9 DEF OwnsNothing
  <2>2. dirty'[x][s] = d(s) /\ loaded'[x][s] = seat[s] /\ lock'[s] = x
    BY <1>5, <2>1
  <2>3. seat[s].status = "HELD" /\ Due(seat[s], now)
    BY <1>1, <2>1 DEF Unattended, Overdue, Due, SeatTypeOK, Row
  <2>4. FreeingDecided(s, dirty[x][s])'
    BY <1>2, <1>4, <2>2, <2>3 DEF FreeingDecided
  <2>5. /\ dirty'[x][s].row.status = "AVAILABLE"
        /\ dirty'[x][s].entry.new_status = "AVAILABLE"
        /\ dirty'[x][s].entry.previous_status = loaded'[x][s].status
        /\ loaded'[x][s] = seat'[s]
    BY <1>2, <1>4, <2>2
  <2>6. Decided(x, s)'
    BY <2>4, <2>5 DEF Decided
  <2> QED
    BY <2>2, <2>5, <2>6
<1>10. \A s \in Seats : loaded'[x][s] # Nil => WellFormed(loaded'[x][s])
  BY <1>1, <1>3, <1>5 DEF RowShape
<1>11. SessionInv(x)'
  BY <1>8, <1>9, <1>10 DEF SessionInv, OnlyFreesMany
<1> QED
  BY <1>6, <1>7, <1>11, LocalStep

(***************************************************************************)
(* The end of a transaction                                                *)
(***************************************************************************)

(* Session x ends; rows change only where it owns the lock. *)
LEMMA SessionEnd ==
  ASSUME SeatInv, NEW x \in Sessions, EndSession(x),
         SeatTypeOK', RowShape', AuditEndsInStatus',
         \A s \in Seats : seat'[s] = seat[s] \/ lock[s] = x
  PROVE  SeatInv'
<1>1. SeatTypeOK
  BY DEF SeatInv
<1>2. /\ pc' = [pc EXCEPT ![x] = "idle"]
      /\ req' = [req EXCEPT ![x] = Nil]
      /\ lock' = [s \in Seats |-> IF lock[s] = x THEN Nil ELSE lock[s]]
      /\ loaded' = [loaded EXCEPT ![x] = Nothing]
      /\ dirty' = [dirty EXCEPT ![x] = Nothing]
      /\ now' = now
  BY DEF EndSession, Goto
<1>3. SessionInv(x)'
  <2>1. pc'[x] = "idle" /\ loaded'[x] = Nothing /\ dirty'[x] = Nothing
    BY <1>1, <1>2 DEF SeatTypeOK
  <2>2. OwnsNothing(x)'
    BY <1>1, <1>2, <2>1, SessionAssumption DEF OwnsNothing, SeatTypeOK, Nothing
  <2> QED
    BY <2>1, <2>2 DEF SessionInv, Nothing, OwnsNothing, OnlyFreesMany
<1>4. ASSUME NEW y \in Sessions, y # x
      PROVE  SessionInv(y)'
  <2>1. SessionInv(y)
    BY DEF SeatInv
  <2>2. /\ pc'[y] = pc[y] /\ req'[y] = req[y]
        /\ loaded'[y] = loaded[y] /\ dirty'[y] = dirty[y]
    BY <1>1, <1>2, <1>4 DEF SeatTypeOK
  <2>3. \A s \in Seats : lock'[s] = y <=> lock[s] = y
    BY <1>2, <1>4, SessionAssumption
  <2>4. OwnsNothing(y) => OwnsNothing(y)'
    BY <2>2, <2>3 DEF OwnsNothing
  <2>5. ASSUME NEW s \in Seats, dirty[y][s] # Nil, Decided(y, s)
        PROVE  Decided(y, s)'
    <3>1. lock[s] = y
      BY <2>1, <2>5 DEF SessionInv
    <3>2. seat'[s] = seat[s]
      BY <3>1, <1>4
    <3> QED
      BY <1>2, <2>2, <2>5, <3>2
      DEF Decided, HoldDecided, FreeingDecided, ConfirmationDecided, HeldBy
  <2>6. OnlyFreesMany(y) => OnlyFreesMany(y)'
    BY <2>2 DEF OnlyFreesMany
  <2> QED
    BY <2>1, <2>2, <2>3, <2>4, <2>5, <2>6 DEF SessionInv
<1> QED
  BY <1>3, <1>4 DEF SeatInv

(* A rollback and a crash keep the invariant: the rows stay as they are    *)
(* and the locks are given back.                                           *)
LEMMA AbandonStep ==
  ASSUME SeatInv, NEW x \in Sessions, Rollback(x) \/ Crash(x)
  PROVE  SeatInv'
<1>1. EndSession(x) /\ seat' = seat /\ hist' = hist
  BY DEF Rollback, Crash
<1>2. SeatTypeOK'
  BY <1>1 DEF SeatInv, SeatTypeOK, EndSession, Goto, Nothing
<1>3. RowShape' /\ AuditEndsInStatus'
  BY <1>1 DEF SeatInv, RowShape, AuditEndsInStatus
<1> QED
  BY <1>1, <1>2, <1>3, SessionEnd

(* What a commit relies on: the part of the invariant that still holds     *)
(* when the session that commits has done more than a seat operation.      *)
CommitInv ==
  /\ seat \in [Seats -> Row]
  /\ dirty \in [Sessions -> [Seats -> Change \cup {Nil}]]
  /\ RowShape
  /\ \A x \in Sessions :
       /\ pc[x] = "commit" => \A s \in Seats : dirty[x][s] # Nil => Decided(x, s)
       /\ OnlyFreesMany(x)

(* The seat operations alone keep that part too.                           *)
LEMMA SeatInvCommits == SeatInv => CommitInv
  BY DEF SeatInv, SeatTypeOK, SessionInv, CommitInv

(* What a commit stores is well-formed, and the entry it adds says so. *)
LEMMA CommittedRow ==
  ASSUME CommitInv, NEW x \in Sessions, NEW s \in Seats,
         dirty[x][s] # Nil, Decided(x, s)
  PROVE  /\ WellFormed(dirty[x][s].row)
         /\ dirty[x][s].entry # Nil
         /\ dirty[x][s].entry.new_status = dirty[x][s].row.status
<1> DEFINE d == dirty[x][s]
<1>1. /\ d \in Change /\ d.row \in Row /\ d.entry \in Entry
      /\ seat[s] \in Row /\ WellFormed(seat[s])
  BY DEF CommitInv, Change, RowShape
<1>2. d.entry.changed_by \in PassengerOrNil
  BY <1>1 DEF Entry
<1>3. CASE HoldDecided(s, d)
  <2>1. d.entry.changed_by \in Passengers /\ d.row.hold_expires_at \in Nat
    BY <1>1, <1>2, <1>3 DEF HoldDecided, PassengerOrNil, Row
  <2> QED
    BY <1>1, <1>3, <2>1, ChangesKeepShape, NullAssumption DEF HoldDecided, Decided
<1>4. CASE FreeingDecided(s, d)
  <2>1. WellFormed(d.row)
    BY <1>1, <1>4 DEF FreeingDecided, FreedRow, WellFormed, Row, Statuses
  <2> QED
    BY <1>1, <2>1, NullAssumption DEF Decided
<1>5. CASE ConfirmationDecided(d)
  <2>1. WellFormed(d.row)
    BY <1>5 DEF ConfirmationDecided, ConfirmedRow, WellFormed
  <2> QED
    BY <1>1, <2>1, NullAssumption DEF Decided
<1> QED
  BY <1>3, <1>4, <1>5 DEF Decided

(* A commit keeps the invariant: what it stores was decided for that row,  *)
(* and the entry it adds ends in the status stored.                        *)
LEMMA CommitStep ==
  ASSUME SeatInv, NEW x \in Sessions, Commit(x)
  PROVE  SeatInv'
<1>1. EndSession(x) /\ SeatTypeOK /\ SessionInv(x) /\ pc[x] = "commit"
  BY DEF Commit, SeatInv
<1>2. ASSUME NEW s \in Seats, dirty[x][s] # Nil
      PROVE  /\ lock[s] = x
             /\ dirty[x][s] \in Change
             /\ WellFormed(dirty[x][s].row)
             /\ dirty[x][s].entry # Nil
             /\ dirty[x][s].entry.new_status = dirty[x][s].row.status
  BY <1>1, <1>2, SeatInvCommits, CommittedRow DEF SessionInv, SeatTypeOK
<1>3. \A s \in Seats :
        /\ seat'[s] = IF dirty[x][s] = Nil THEN seat[s] ELSE dirty[x][s].row
        /\ hist'[s] = IF dirty[x][s] = Nil THEN hist[s] ELSE dirty[x][s].entry
  BY DEF Commit
<1>4. SeatTypeOK'
  <2>1. seat' \in [Seats -> Row]
    BY <1>1, <1>2 DEF Commit, SeatTypeOK, Change
  <2>2. hist' \in [Seats -> Entry \cup {Nil}]
    BY <1>1, <1>2 DEF Commit, SeatTypeOK, Change
  <2> QED
    BY <1>1, <2>1, <2>2 DEF SeatTypeOK, EndSession, Goto, Nothing
<1>5. RowShape'
  BY <1>2, <1>3 DEF RowShape, SeatInv
<1>6. AuditEndsInStatus'
  BY <1>2, <1>3 DEF AuditEndsInStatus, SeatInv
<1> QED
  BY <1>1, <1>2, <1>3, <1>4, <1>5, <1>6, SessionEnd

(***************************************************************************)
(* The invariant                                                           *)
(***************************************************************************)

(* The passing of time keeps the invariant: a hold that was due stays due. *)
LEMMA TickStep ==
  ASSUME SeatInv, Tick
  PROVE  SeatInv'
<1>1. SeatTypeOK /\ now' = now + 1 /\ now < MaxTime
      /\ UNCHANGED <<seat, hist, lock, pc, req, loaded, dirty>>
  BY DEF SeatInv, Tick
<1>2. SeatTypeOK'
  BY <1>1, TimeAssumption DEF SeatTypeOK
<1>3. ASSUME NEW s \in Seats, Due(seat[s], now)
      PROVE  Due(seat[s], now)'
  BY <1>1, <1>3 DEF Due, SeatTypeOK, Row
<1>4. ASSUME NEW x \in Sessions, NEW s \in Seats, Decided(x, s)
      PROVE  Decided(x, s)'
  BY <1>1, <1>3, <1>4
  DEF Decided, HoldDecided, FreeingDecided, ConfirmationDecided, HeldBy
<1>5. ASSUME NEW x \in Sessions
      PROVE  SessionInv(x)'
  BY <1>1, <1>4 DEF SeatInv, SessionInv, OwnsNothing, OnlyFreesMany
<1> QED
  BY <1>1, <1>2, <1>5 DEF SeatInv, RowShape, AuditEndsInStatus

(* The invariant holds of the seeded seats with no session under way.      *)
LEMMA SeatInvHoldsInitially == SeatInit => SeatInv
<1> SUFFICES ASSUME SeatInit PROVE SeatInv
  OBVIOUS
<1>1. SeatTypeOK
  BY TimeAssumption
  DEF SeatInit, SeatTypeOK, NewRow, Row, Statuses, PassengerOrNil, Nothing
<1>2. RowShape /\ AuditEndsInStatus
  BY DEF SeatInit, RowShape, AuditEndsInStatus, WellFormed, NewRow, Nothing
<1>3. \A x \in Sessions : SessionInv(x)
  BY SessionAssumption
  DEF SeatInit, SessionInv, OwnsNothing, OnlyFreesMany, Nothing
<1> QED
  BY <1>1, <1>2, <1>3 DEF SeatInv

(* Every step of the system keeps the invariant.                           *)
LEMMA SeatInvIsKept == SeatInv /\ [SeatNext]_seatVars => SeatInv'
<1> SUFFICES ASSUME SeatInv, [SeatNext]_seatVars PROVE SeatInv'
  OBVIOUS
<1>1. CASE Tick
  BY <1>1, TickStep
<1>2. ASSUME NEW x \in Sessions, Confirming(x)
      PROVE  SeatInv'
  BY <1>2, ConfirmReadStep, ConfirmSeatStep DEF Confirming
<1>3. ASSUME NEW x \in Sessions, NotConfirming(x)
      PROVE  SeatInv'
  BY <1>3, HoldSeatStep, ReleaseSeatStep, ExpireTaskStep, ExpireHoldStep,
     CleanupStep, CommitStep, AbandonStep
  DEF NotConfirming
<1>4. CASE UNCHANGED seatVars
  BY <1>4
  DEF seatVars, SeatInv, SeatTypeOK, RowShape, AuditEndsInStatus, SessionInv,
      OwnsNothing, OnlyFreesMany, Decided, HoldDecided, FreeingDecided,
      ConfirmationDecided, HeldBy
<1> QED
  BY <1>1, <1>2, <1>3, <1>4 DEF SeatNext

(* The inductive invariant holds in every reachable state, whatever the    *)
(* number of seats, passengers and sessions.                               *)
THEOREM SeatInvariance == SeatSpec => []SeatInv
  BY SeatInvHoldsInitially, SeatInvIsKept, PTL DEF SeatSpec

(***************************************************************************)
(* The invariants the runs check                                           *)
(***************************************************************************)

(* Every variable keeps its type. *)
THEOREM SeatTypes == SeatSpec => []SeatTypeOK
<1>1. SeatInv => SeatTypeOK
  BY DEF SeatInv
<1> QED
  BY <1>1, SeatInvariance, PTL

(* The columns of every committed row agree with its status, stale writes  *)
(* or not.                                                                 *)
THEOREM RowsKeepTheirShape == SeatSpec => []RowShape
<1>1. SeatInv => RowShape
  BY DEF SeatInv
<1> QED
  BY <1>1, SeatInvariance, PTL

(* The history of every seat ends in the status the seat has.              *)
THEOREM HistoryEndsInStatus == SeatSpec => []AuditEndsInStatus
<1>1. SeatInv => AuditEndsInStatus
  BY DEF SeatInv
<1> QED
  BY <1>1, SeatInvariance, PTL

(* No session waits for a row lock while it owns one.                      *)
THEOREM NoWaitingOwners == SeatSpec => []WaitersOwnNothing
<1>1. SeatInv => WaitersOwnNothing
  BY DEF SeatInv, SessionInv, WaitersOwnNothing, OwnsNothing
<1> QED
  BY <1>1, SeatInvariance, PTL

(* Holds, releases and expiries are decided on the row as it is.           *)
THEOREM FreshDecisions == SeatSpec => []DecidedOnCurrentRow
<1>1. SeatInv => DecidedOnCurrentRow
  BY DEF SeatInv, SessionInv, Decided, ConfirmationDecided, DecidedOnCurrentRow
<1> QED
  BY <1>1, SeatInvariance, PTL

(***************************************************************************)
(* The steps                                                               *)
(***************************************************************************)

(* Session x commits what it decided for seat s. *)
Stores(x, s) ==
  /\ dirty[x][s] # Nil
  /\ Decided(x, s)
  /\ seat'[s] = dirty[x][s].row
  /\ hist'[s] = dirty[x][s].entry

(* Rows change at commits only. *)
LEMMA RowsChangeAtCommit ==
  ASSUME SeatInv, [SeatNext]_seatVars, NEW s \in Seats
  PROVE  \/ seat'[s] = seat[s] /\ hist'[s] = hist[s]
         \/ \E x \in Sessions : Commit(x) /\ Stores(x, s)
<1>1. CASE \E x \in Sessions : Commit(x)
  <2> PICK x \in Sessions : Commit(x)
    BY <1>1
  <2>1. CASE dirty[x][s] = Nil
    BY <2>1 DEF Commit
  <2>2. CASE dirty[x][s] # Nil
    BY <2>2 DEF Commit, Stores, SeatInv, SessionInv
  <2> QED
    BY <2>1, <2>2
<1>2. CASE \A x \in Sessions : ~Commit(x)
  <2>1. UNCHANGED <<seat, hist>>
    BY <1>2
    DEF SeatNext, Confirming, NotConfirming, Tick, ConfirmRead, ConfirmSeat,
        HoldSeat, ReleaseSeat, ExpireTask, ExpireHold, CleanupExpiredHolds,
        Rollback, Crash, seatVars
  <2> QED
    BY <2>1
<1> QED
  BY <1>1, <1>2

(* The three ways a committed row can change. *)
LEMMA RowChanges ==
  ASSUME SeatInv, [SeatNext]_seatVars, NEW s \in Seats, seat'[s] # seat[s]
  PROVE  \/ seat[s].status = "AVAILABLE" /\ seat'[s].status = "HELD"
         \/ /\ seat[s].status = "HELD" /\ seat'[s].status = "AVAILABLE"
            /\ \/ hist'[s].changed_by = seat[s].held_by
               \/ hist'[s].changed_by = Nil /\ Due(seat[s], now)
         \/ seat'[s].status = "CONFIRMED"
<1> PICK x \in Sessions : Stores(x, s)
  BY RowsChangeAtCommit
<1> DEFINE d == dirty[x][s]
<1>1. Decided(x, s) /\ seat'[s] = d.row /\ hist'[s] = d.entry
  BY DEF Stores
<1>2. CASE HoldDecided(s, d)
  <2>1. d.row.status = "HELD" /\ seat[s].status = "AVAILABLE"
    BY <1>2 DEF HoldDecided, HeldRow
  <2> QED
    BY <1>1, <2>1
<1>3. CASE FreeingDecided(s, d)
  <2>1. d.row.status = "AVAILABLE"
    BY <1>3 DEF FreeingDecided, FreedRow
  <2> QED
    BY <1>1, <1>3, <2>1 DEF FreeingDecided
<1>4. CASE ConfirmationDecided(d)
  <2>1. d.row.status = "CONFIRMED"
    BY <1>4 DEF ConfirmationDecided, ConfirmedRow
  <2> QED
    BY <1>1, <2>1
<1> QED
  BY <1>1, <1>2, <1>3, <1>4 DEF Decided

(* A seat gets a holder only when it is free: no double hold. *)
THEOREM HoldsAreExclusive == SeatSpec => OneHolder
<1>1. SeatInv /\ [SeatNext]_seatVars => [\A s \in Seats : NewHold(s)]_seatVars
  BY RowChanges DEF NewHold
<1> QED
  BY <1>1, SeatInvariance, PTL DEF SeatSpec, OneHolder

(* A seat goes from one passenger to another, without becoming free, only  *)
(* by the confirmation of a passenger who held it when it was first read.  *)
THEOREM OnlyFormerHoldersTake == SeatSpec => TakenByFormerHolderOnly
<1>1. ASSUME SeatInv, [SeatNext]_seatVars, NEW s \in Seats, ChangesHands(s)
      PROVE  FormerHolderConfirms(s)
  <2> PICK x \in Sessions : Commit(x) /\ Stores(x, s)
    BY <1>1, RowsChangeAtCommit DEF ChangesHands
  <2> DEFINE d == dirty[x][s]
  <2>1. Decided(x, s) /\ seat'[s] = d.row /\ hist'[s] = d.entry
    BY DEF Stores
  <2>2. pc[x] = "commit" /\ pc'[x] = "idle"
    BY <1>1 DEF Commit, EndSession, Goto, SeatInv, SeatTypeOK
  <2>3. ~HoldDecided(s, d)
    BY <1>1 DEF HoldDecided, ChangesHands
  <2>4. ~FreeingDecided(s, d)
    BY <1>1, <2>1 DEF FreeingDecided, FreedRow, ChangesHands
  <2>5. ConfirmationDecided(d) /\ HeldBy(loaded[x][s], d.entry.changed_by)
    BY <2>1, <2>3, <2>4 DEF Decided
  <2>6. /\ hist'[s].change_reason = "passenger_confirmed_seat"
        /\ Owner(seat'[s]) = d.entry.changed_by
    BY <2>1, <2>5 DEF ConfirmationDecided, ConfirmedRow, Owner
  <2> QED
    BY <2>2, <2>5, <2>6 DEF FormerHolderConfirms
<1>2. SeatInv /\ [SeatNext]_seatVars
        => [\A s \in Seats : ChangesHands(s) => FormerHolderConfirms(s)]_seatVars
  BY <1>1
<1> QED
  BY <1>2, SeatInvariance, PTL DEF SeatSpec, TakenByFormerHolderOnly

(* Only the entry of a confirmation made on an outdated object tells the   *)
(* status of before wrongly.                                               *)
THEOREM SlipsAreConfirmations == SeatSpec => AuditSlipsAtConfirmationsOnly
<1>1. ASSUME SeatInv, [SeatNext]_seatVars, NEW s \in Seats
      PROVE  RecordedTruly(s)
  <2> SUFFICES ASSUME seat'[s] # seat[s]
               PROVE  RecordedTruly(s)
    BY DEF RecordedTruly
  <2> PICK x \in Sessions : Stores(x, s)
    BY <1>1, RowsChangeAtCommit
  <2> DEFINE d == dirty[x][s]
  <2>1. Decided(x, s) /\ seat'[s] = d.row /\ hist'[s] = d.entry
    BY DEF Stores
  <2>2. CASE loaded[x][s] = seat[s]
    BY <2>1, <2>2 DEF Decided, RecordedTruly
  <2>3. CASE ConfirmationDecided(d) /\ HeldBy(loaded[x][s], d.entry.changed_by)
    BY <2>1, <2>3 DEF Decided, ConfirmationDecided, HeldBy, RecordedTruly
  <2> QED
    BY <2>1, <2>2, <2>3 DEF Decided
<1>2. SeatInv /\ [SeatNext]_seatVars
        => [\A s \in Seats : RecordedTruly(s)]_seatVars
  BY <1>1
<1> QED
  BY <1>2, SeatInvariance, PTL DEF SeatSpec, AuditSlipsAtConfirmationsOnly

(* No release, expiry, cleanup or hold undoes a confirmation. *)
THEOREM ConfirmationsLast == SeatSpec => ConfirmedIsFinal
<1>1. SeatInv /\ [SeatNext]_seatVars
        => [\A s \in Seats : StaysConfirmed(s)]_seatVars
  BY RowChanges DEF StaysConfirmed
<1> QED
  BY <1>1, SeatInvariance, PTL DEF SeatSpec, ConfirmedIsFinal

(* A hold ends by its holder's release, its confirmation or its expiry. *)
THEOREM HoldsEndLawfully == SeatSpec => HoldsAreHonoured
<1>1. SeatInv /\ [SeatNext]_seatVars
        => [\A s \in Seats : FreedLawfully(s)]_seatVars
  BY RowChanges DEF FreedLawfully
<1> QED
  BY <1>1, SeatInvariance, PTL DEF SeatSpec, HoldsAreHonoured
===============================================================================
