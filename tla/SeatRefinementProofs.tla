------------------------- MODULE SeatRefinementProofs -------------------------
(***************************************************************************)
(* SeatBooking implements SeatLifecycle wherever no session commits a      *)
(* decision it made on an object that is out of date.  That is so in two   *)
(* cases: when nobody confirms, and when one session runs at a time.       *)
(***************************************************************************)
EXTENDS SeatBookingProofs

(* What every session is about to commit was decided on the present row. *)
DecidedOnPresentRow(x, s) ==
  pc[x] = "commit" /\ dirty[x][s] # Nil =>
    /\ loaded[x][s] = seat[s]
    /\ ConfirmationDecided(dirty[x][s])
         => HeldBy(seat[s], dirty[x][s].entry.changed_by)

NothingStale ==
  \A x \in Sessions, s \in Seats : DecidedOnPresentRow(x, s)

(***************************************************************************)
(* A commit of such decisions is a step of the lifecycle                   *)
(***************************************************************************)

(* How a well-formed row looks to the lifecycle.                           *)
LEMMA BookingsOf ==
  ASSUME CommitInv, NEW s \in Seats
  PROVE  /\ Booking[s] = [status |-> seat[s].status, owner |-> Owner(seat[s])]
         /\ seat[s].status = "AVAILABLE" => Booking[s] = Lifecycle!Free
         /\ \A p : HeldBy(seat[s], p) => Booking[s] = Lifecycle!Held(p)
<1>1. WellFormed(seat[s]) /\ Booking[s] =
        [status |-> seat[s].status, owner |-> Owner(seat[s])]
  BY DEF CommitInv, RowShape, Booking
<1> QED
  BY <1>1 DEF Owner, WellFormed, HeldBy, Lifecycle!Free, Lifecycle!Held

(* A stored hold is a Hold of the lifecycle.                               *)
LEMMA StoredHold ==
  ASSUME CommitInv, NEW x \in Sessions, NEW s \in Seats, Stores(x, s),
         HoldDecided(s, dirty[x][s])
  PROVE  \E p \in Passengers :
           Booking[s] = Lifecycle!Free /\ Booking'[s] = Lifecycle!Held(p)
<1> DEFINE d == dirty[x][s]
           p == d.entry.changed_by
<1>1. d \in Change /\ p \in PassengerOrNil /\ p # Nil
  BY DEF CommitInv, Stores, HoldDecided, Change, Entry
<1>2. p \in Passengers
  BY <1>1 DEF PassengerOrNil
<1>3. seat'[s].status = "HELD" /\ seat'[s].held_by = p
  BY DEF Stores, HoldDecided, HeldRow
<1>4. Booking'[s] = Lifecycle!Held(p)
  BY <1>3 DEF Booking, Owner, Lifecycle!Held
<1>5. Booking[s] = Lifecycle!Free
  BY BookingsOf DEF HoldDecided
<1> QED
  BY <1>2, <1>4, <1>5

(* A stored confirmation is a Confirm of the lifecycle, if the seat is     *)
(* still held by the passenger when it is stored.                          *)
LEMMA StoredConfirmation ==
  ASSUME CommitInv, NEW x \in Sessions, NEW s \in Seats, Stores(x, s),
         ConfirmationDecided(dirty[x][s]),
         HeldBy(seat[s], dirty[x][s].entry.changed_by)
  PROVE  \E p \in Passengers :
           Booking[s] = Lifecycle!Held(p) /\ Booking'[s] = Lifecycle!Confirmed(p)
<1> DEFINE d == dirty[x][s]
           p == d.entry.changed_by
<1>1. d \in Change /\ p \in PassengerOrNil /\ p # Nil
  BY DEF CommitInv, Stores, ConfirmationDecided, Change, Entry
<1>2. p \in Passengers
  BY <1>1 DEF PassengerOrNil
<1>3. seat'[s].status = "CONFIRMED" /\ seat'[s].confirmed_by = p
  BY DEF Stores, ConfirmationDecided, ConfirmedRow
<1>4. Booking'[s] = Lifecycle!Confirmed(p)
  BY <1>3 DEF Booking, Owner, Lifecycle!Confirmed
<1>5. Booking[s] = Lifecycle!Held(p)
  BY BookingsOf
<1> QED
  BY <1>2, <1>4, <1>5

(* A stored release or expiry frees a held seat of the lifecycle.          *)
LEMMA StoredFreeing ==
  ASSUME CommitInv, NEW x \in Sessions, NEW s \in Seats, Stores(x, s),
         FreeingDecided(s, dirty[x][s])
  PROVE  Booking[s].status = "HELD" /\ Booking'[s] = Lifecycle!Free
<1>1. /\ seat[s].status = "HELD"
      /\ seat'[s] = FreedRow(seat[s])
      /\ seat[s] \in Row /\ WellFormed(seat[s])
  BY DEF Stores, FreeingDecided, CommitInv, RowShape
<1>2. seat'[s].status = "AVAILABLE" /\ seat'[s].confirmed_by = Nil
  BY <1>1 DEF FreedRow, WellFormed
<1> QED
  BY <1>1, <1>2 DEF Booking, Owner, Lifecycle!Free

(* A commit holds one seat, confirms one seat, or frees a set of seats. *)
LEMMA CommitImplements ==
  ASSUME CommitInv, NothingStale, NEW x \in Sessions, Commit(x)
  PROVE  Lifecycle!LifecycleNext
<1> DEFINE batch == {s \in Seats : dirty[x][s] # Nil}
<1>1. ASSUME NEW s \in batch
      PROVE  Stores(x, s) /\ Decided(x, s) /\ DecidedOnPresentRow(x, s)
  BY DEF Commit, Stores, CommitInv, NothingStale
<1>2. ASSUME NEW s \in Seats, s \notin batch
      PROVE  Booking'[s] = Booking[s]
  BY <1>2 DEF Commit, Booking
<1>3. ASSUME NEW s \in batch, dirty[x][s].row.status # "AVAILABLE",
             NEW t \in Seats, t # s
      PROVE  Booking'[t] = Booking[t]
  BY <1>2, <1>3 DEF CommitInv, OnlyFreesMany
<1>4. Booking = [s \in Seats |-> Booking[s]] /\ Booking' = [s \in Seats |-> Booking'[s]]
  BY DEF Booking
<1>5. ASSUME NEW s \in batch, HoldDecided(s, dirty[x][s])
      PROVE  Lifecycle!LifecycleNext
  <2>1. PICK p \in Passengers :
          Booking[s] = Lifecycle!Free /\ Booking'[s] = Lifecycle!Held(p)
    BY <1>1, <1>5, StoredHold
  <2>2. dirty[x][s].row.status = "HELD"
    BY <1>5 DEF HoldDecided, HeldRow
  <2>3. Booking' = [Booking EXCEPT ![s] = Lifecycle!Held(p)]
    BY <1>3, <1>4, <2>1, <2>2
  <2> QED
    BY <2>1, <2>3 DEF Lifecycle!LifecycleNext, Lifecycle!Hold
<1>6. ASSUME NEW s \in batch, ConfirmationDecided(dirty[x][s])
      PROVE  Lifecycle!LifecycleNext
  <2>1. HeldBy(seat[s], dirty[x][s].entry.changed_by)
    BY <1>1, <1>6 DEF DecidedOnPresentRow, Commit
  <2>2. PICK p \in Passengers :
          Booking[s] = Lifecycle!Held(p) /\ Booking'[s] = Lifecycle!Confirmed(p)
    BY <1>1, <1>6, <2>1, StoredConfirmation
  <2>3. dirty[x][s].row.status = "CONFIRMED"
    BY <1>6 DEF ConfirmationDecided, ConfirmedRow
  <2>4. Booking' = [Booking EXCEPT ![s] = Lifecycle!Confirmed(p)]
    BY <1>3, <1>4, <2>2, <2>3
  <2> QED
    BY <2>2, <2>4 DEF Lifecycle!LifecycleNext, Lifecycle!Confirm
<1>7. CASE \A s \in batch : FreeingDecided(s, dirty[x][s])
  <2>1. \A s \in batch : Booking[s].status = "HELD" /\ Booking'[s] = Lifecycle!Free
    BY <1>1, <1>7, StoredFreeing
  <2>2. Booking' =
          [s \in Seats |-> IF s \in batch THEN Lifecycle!Free ELSE Booking[s]]
    BY <1>2, <1>4, <2>1
  <2> QED
    BY <2>1, <2>2 DEF Lifecycle!LifecycleNext, Lifecycle!FreeSeats
<1> QED
  BY <1>1, <1>5, <1>6, <1>7 DEF Decided

(* As long as nothing uncommitted is stale, every step is one of the       *)
(* lifecycle or leaves the bookings alone.                                 *)
LEMMA StepImplements ==
  ASSUME SeatInv, NothingStale, [SeatNext]_seatVars
  PROVE  [Lifecycle!LifecycleNext]_Booking
<1>1. CASE \E x \in Sessions : Commit(x)
  BY <1>1, SeatInvCommits, CommitImplements
<1>2. CASE \A x \in Sessions : ~Commit(x)
  BY <1>2
  DEF SeatNext, Confirming, NotConfirming, Tick, ConfirmRead, ConfirmSeat,
      HoldSeat, ReleaseSeat, ExpireTask, ExpireHold, CleanupExpiredHolds,
      Rollback, Crash, seatVars, Booking
<1> QED
  BY <1>1, <1>2

(* As long as nothing uncommitted is stale, the history entry of a change  *)
(* starts from the status the seat had.                                    *)
LEMMA StepIsChained ==
  ASSUME SeatInv, NothingStale, [SeatNext]_seatVars, NEW s \in Seats
  PROVE  Chained(s)
<1>1. ASSUME NEW x \in Sessions, Commit(x), Stores(x, s)
      PROVE  Chained(s)
  BY <1>1 DEF Stores, Decided, Chained, NothingStale, DecidedOnPresentRow, Commit
<1> QED
  BY <1>1, RowsChangeAtCommit DEF Chained

(* The seeded seats are the free seats of the lifecycle.                   *)
LEMMA InitImplements == SeatInit => Lifecycle!LifecycleInit
  BY DEF SeatInit, Lifecycle!LifecycleInit, Lifecycle!Free, Booking, Owner, NewRow

(***************************************************************************)
(* Nobody confirms                                                         *)
(***************************************************************************)

NoConfirmation(change) ==
  change # Nil => change.entry.change_reason # "passenger_confirmed_seat"

NobodyConfirms ==
  \A x \in Sessions :
    /\ pc[x] # "confirm"
    /\ \A s \in Seats : NoConfirmation(dirty[x][s])

(* A flush for another reason leaves no confirmation behind. *)
LEMMA OtherFlush ==
  ASSUME NobodyConfirms, SeatTypeOK, NEW x \in Sessions, NEW s \in Seats,
         NEW new, NEW by, NEW reason, reason # "passenger_confirmed_seat",
         Flush(x, s, new, by, reason), NEW y \in Sessions, NEW r \in Seats
  PROVE  NoConfirmation(dirty'[y][r])
<1>1. dirty' = [dirty EXCEPT ![x][s] = ChangeOf(x, s, new, by, reason)]
  BY DEF Flush
<1>2. NoConfirmation(ChangeOf(x, s, new, by, reason))
  BY DEF NoConfirmation, ChangeOf, StateChange
<1>3. NoConfirmation(dirty[y][r])
  BY DEF NobodyConfirms
<1>4. dirty'[y][r] = dirty[y][r] \/ dirty'[y][r] = ChangeOf(x, s, new, by, reason)
  BY <1>1 DEF SeatTypeOK
<1> QED
  BY <1>2, <1>3, <1>4

(* Without requests to confirm no session comes to write a confirmation.   *)
LEMMA NobodyConfirmsIsKept ==
  ASSUME SeatInv, NobodyConfirms, [SeatNextNoConfirm]_seatVars
  PROVE  NobodyConfirms'
<1>1. SeatTypeOK
  BY DEF SeatInv
<1>2. ASSUME NEW y \in Sessions
      PROVE  pc'[y] # "confirm"
  BY <1>1
  DEF NobodyConfirms, SeatNextNoConfirm, NotConfirming, Tick, HoldSeat,
      ReleaseSeat, RepositoryHold, RepositoryRelease, LockedChange, Refused,
      ExpireTask, ExpireHold, CleanupExpiredHolds, Commit, Rollback, Crash,
      EndSession, Goto, SeatTypeOK, seatVars
<1>3. ASSUME NEW y \in Sessions, NEW r \in Seats
      PROVE  NoConfirmation(dirty'[y][r])
  <2>1. NoConfirmation(dirty[y][r])
    BY DEF NobodyConfirms
  <2>2. CASE UNCHANGED dirty
    BY <2>1, <2>2
  <2>3. ASSUME NEW x \in Sessions, NEW s \in Seats, NEW p \in Passengers,
               HoldSeat(x, s, p) \/ ReleaseSeat(x, s, p), ~UNCHANGED dirty
        PROVE  NoConfirmation(dirty'[y][r])
    BY <1>1, <2>3, OtherFlush
    DEF HoldSeat, ReleaseSeat, RepositoryHold, RepositoryRelease, LockedChange,
        Refused
  <2>4. ASSUME NEW x \in Sessions, ExpireHold(x), ~UNCHANGED dirty
        PROVE  NoConfirmation(dirty'[y][r])
    <3>1. PICK s \in Seats : s = req[x].seat
      BY <2>4 DEF ExpireHold, SeatInv, SessionInv, Request
    <3> QED
      BY <1>1, <2>4, <3>1, OtherFlush DEF ExpireHold
  <2>5. ASSUME NEW x \in Sessions, CleanupExpiredHolds(x)
        PROVE  NoConfirmation(dirty'[y][r])
    <3>1. dirty'[y][r] = dirty[y][r] \/ dirty'[y][r] =
            ChangeOf(x, r, FreedRow(seat[r]), Nil, "hold_expired_cleanup")
      BY <1>1, <2>5 DEF CleanupExpiredHolds, SeatTypeOK
    <3> QED
      BY <2>1, <3>1 DEF NoConfirmation, ChangeOf, StateChange
  <2>6. ASSUME NEW x \in Sessions, EndSession(x)
        PROVE  NoConfirmation(dirty'[y][r])
    <3>1. dirty'[y][r] = dirty[y][r] \/ dirty'[y][r] = Nil
      BY <1>1, <2>6 DEF EndSession, SeatTypeOK, Nothing
    <3> QED
      BY <2>1, <3>1 DEF NoConfirmation
  <2> QED
    BY <2>2, <2>3, <2>4, <2>5, <2>6
    DEF SeatNextNoConfirm, NotConfirming, Tick, ExpireTask, Commit, Rollback,
        Crash, seatVars
<1> QED
  BY <1>2, <1>3 DEF NobodyConfirms

(* With no confirmation about, what SeatInv says of the others is enough. *)
LEMMA NobodyConfirmsIsFresh == SeatInv /\ NobodyConfirms => NothingStale
  BY DEF SeatInv, SessionInv, Decided, ConfirmationDecided, NobodyConfirms,
         NoConfirmation, NothingStale, DecidedOnPresentRow

(* Without requests to confirm nothing uncommitted is ever stale.          *)
LEMMA NobodyConfirmsInvariance ==
  SeatSpecNoConfirm => [](SeatInv /\ NobodyConfirms /\ NothingStale)
<1>1. SeatInit => SeatInv /\ NobodyConfirms
  BY SeatInvHoldsInitially DEF SeatInit, NobodyConfirms, NoConfirmation, Nothing
<1>2. SeatInv /\ NobodyConfirms /\ [SeatNextNoConfirm]_seatVars
        => (SeatInv /\ NobodyConfirms)'
  BY NobodyConfirmsIsKept, SeatInvIsKept DEF SeatNextNoConfirm, SeatNext
<1> QED
  BY <1>1, <1>2, NobodyConfirmsIsFresh, PTL DEF SeatSpecNoConfirm

(* Any number of sessions that hold, release, expire and clean up, and     *)
(* crash, behave as the lifecycle says.                                    *)
THEOREM NoConfirmRefinement == SeatSpecNoConfirm => ImplementsLifecycle
<1>1. SeatInv /\ NothingStale /\ [SeatNextNoConfirm]_seatVars
        => [Lifecycle!LifecycleNext]_Booking
  BY StepImplements DEF SeatNextNoConfirm, SeatNext
<1> QED
  BY <1>1, InitImplements, NobodyConfirmsInvariance, PTL
  DEF SeatSpecNoConfirm, ImplementsLifecycle, Lifecycle!LifecycleSpec

(* ... and their history is a chain. *)
THEOREM NoConfirmAudit == SeatSpecNoConfirm => AuditIsAChain
<1>1. SeatInv /\ NothingStale /\ [SeatNextNoConfirm]_seatVars
        => [\A s \in Seats : Chained(s)]_seatVars
  BY StepIsChained DEF SeatNextNoConfirm, SeatNext
<1> QED
  BY <1>1, NobodyConfirmsInvariance, PTL DEF SeatSpecNoConfirm, AuditIsAChain

(***************************************************************************)
(* One session at a time                                                   *)
(***************************************************************************)

OneSession == \A x, y \in Sessions : x = y

(* What the only session has loaded is what the table has. *)
LoadedIsPresent ==
  \A x \in Sessions, s \in Seats :
    loaded[x][s] # Nil => loaded[x][s] = seat[s]

(* A session writes only objects it loaded. *)
DirtyIsPresent ==
  \A x \in Sessions, s \in Seats :
    dirty[x][s] # Nil =>
      /\ loaded[x][s] = seat[s]
      /\ ConfirmationDecided(dirty[x][s])
           => HeldBy(seat[s], dirty[x][s].entry.changed_by)

SerialInv == LoadedIsPresent /\ DirtyIsPresent

(* A session that runs alone keeps finding the rows as it has loaded them: *)
(* only its own commit changes them.                                       *)
LEMMA SerialInvIsKept ==
  ASSUME SeatInv, SerialInv, [SeatNext]_seatVars, OneSession
  PROVE  SerialInv'
<1>1. SeatTypeOK
  BY DEF SeatInv
<1>2. ASSUME NEW x \in Sessions, EndSession(x)
      PROVE  SerialInv'
  <2>1. \A y \in Sessions, s \in Seats :
          loaded'[y][s] = Nil /\ dirty'[y][s] = Nil
    BY <1>1, <1>2 DEF OneSession, EndSession, SeatTypeOK, Nothing
  <2> QED
    BY <2>1 DEF SerialInv, LoadedIsPresent, DirtyIsPresent
<1>3. ASSUME NEW x \in Sessions, NEW s \in Seats
      PROVE  Read(x, s) = seat[s]
  BY DEF SerialInv, LoadedIsPresent, Read
<1>4. ASSUME NEW x \in Sessions, NEW s \in Seats, UNCHANGED <<now, seat, hist>>,
             OwnsNothing(x),
             Refused(x, s) \/ ((Acquire(x, s) \/ Load(x, s)) /\ UNCHANGED dirty)
      PROVE  SerialInv'
  <2>1. \A r \in Seats :
          loaded'[x][r] # Nil => loaded'[x][r] = loaded[x][r] \/ loaded'[x][r] = seat[r]
    BY <1>1, <1>3, <1>4 DEF Refused, Acquire, Load, SeatTypeOK
  <2>2. \A r \in Seats : dirty'[x][r] = Nil
    BY <1>4 DEF Refused, OwnsNothing
  <2> QED
    BY <1>4, <2>1, <2>2
    DEF OneSession, SerialInv, LoadedIsPresent, DirtyIsPresent
<1>5. ASSUME NEW x \in Sessions, NEW s \in Seats, NEW new, NEW by, NEW reason,
             UNCHANGED <<now, seat, hist>>, OwnsNothing(x),
             Acquire(x, s), Flush(x, s, new, by, reason),
             reason = "passenger_confirmed_seat" => HeldBy(Read(x, s), by)
      PROVE  SerialInv'
  <2>1. \A r \in Seats :
          loaded'[x][r] # Nil => loaded'[x][r] = loaded[x][r] \/ loaded'[x][r] = seat[r]
    BY <1>1, <1>3, <1>5 DEF Acquire, Load, SeatTypeOK
  <2>2. \A r \in Seats : r # s => dirty'[x][r] = Nil
    BY <1>1, <1>5 DEF Flush, OwnsNothing, SeatTypeOK
  <2>3. /\ loaded'[x][s] = seat[s]
        /\ dirty'[x][s] = ChangeOf(x, s, new, by, reason)
    BY <1>1, <1>3, <1>5 DEF Acquire, Load, Flush, SeatTypeOK
  <2>4. /\ dirty'[x][s].entry.change_reason = reason
        /\ dirty'[x][s].entry.changed_by = by
    BY <2>3 DEF ChangeOf, StateChange
  <2>5. ConfirmationDecided(dirty[x][s])' =>
          HeldBy(seat'[s], dirty'[x][s].entry.changed_by)
    BY <1>3, <1>5, <2>4 DEF ConfirmationDecided
  <2> QED
    BY <1>5, <2>1, <2>2, <2>3, <2>5
    DEF OneSession, SerialInv, LoadedIsPresent, DirtyIsPresent
<1>6. ASSUME NEW x \in Sessions, CleanupExpiredHolds(x)
      PROVE  SerialInv'
  <2>1. /\ OwnsNothing(x) /\ UNCHANGED <<now, seat, hist>>
        /\ \A s \in Seats : loaded[x][s] = Nil
    BY <1>6 DEF CleanupExpiredHolds, SeatInv, SessionInv
  <2>2. ASSUME NEW s \in Seats
        PROVE  /\ loaded'[x][s] \in {Nil, seat[s]}
               /\ dirty'[x][s] # Nil =>
                    /\ loaded'[x][s] = seat[s]
                    /\ dirty'[x][s].entry.change_reason = "hold_expired_cleanup"
    BY <1>1, <1>6, <2>1
    DEF CleanupExpiredHolds, SeatTypeOK, OwnsNothing, ChangeOf, StateChange
  <2> QED
    BY <2>1, <2>2
    DEF OneSession, SerialInv, LoadedIsPresent, DirtyIsPresent, ConfirmationDecided
<1>7. CASE UNCHANGED <<seat, loaded, dirty>>
  BY <1>7 DEF SerialInv, LoadedIsPresent, DirtyIsPresent, ConfirmationDecided
<1>8. ASSUME NEW x \in Sessions, NEW s \in Seats, NEW p \in Passengers,
             HoldSeat(x, s, p) \/ ReleaseSeat(x, s, p) \/ ConfirmRead(x, s, p)
      PROVE  SerialInv'
  <2>1. /\ OwnsNothing(x)
        /\ UNCHANGED <<now, seat, hist>>
    BY <1>8
    DEF HoldSeat, ReleaseSeat, ConfirmRead, Begin, SeatInv, SessionInv
  <2>2. CASE HoldSeat(x, s, p) \/ ReleaseSeat(x, s, p)
    BY <1>4, <1>5, <2>1, <2>2
    DEF HoldSeat, ReleaseSeat, RepositoryHold, RepositoryRelease, LockedChange
  <2>3. CASE ConfirmRead(x, s, p)
    BY <1>4, <2>1, <2>3 DEF ConfirmRead
  <2> QED
    BY <1>8, <2>2, <2>3
<1>9. ASSUME NEW x \in Sessions, ConfirmSeat(x) \/ ExpireHold(x)
      PROVE  SerialInv'
  <2>1. PICK s \in Seats : s = req[x].seat
    BY <1>9 DEF ConfirmSeat, ExpireHold, SeatInv, SessionInv, Request
  <2>2. OwnsNothing(x) /\ UNCHANGED <<now, seat, hist>>
    BY <1>9 DEF ConfirmSeat, ExpireHold, SeatInv, SessionInv
  <2>3. CASE ConfirmSeat(x)
    BY <1>4, <1>5, <2>1, <2>2, <2>3
    DEF ConfirmSeat, RepositoryConfirm, LockedChange
  <2>4. CASE ExpireHold(x)
    BY <1>4, <1>5, <2>1, <2>2, <2>4 DEF ExpireHold
  <2> QED
    BY <1>9, <2>3, <2>4
<1> QED
  BY <1>2, <1>6, <1>7, <1>8, <1>9
  DEF SeatNext, Confirming, NotConfirming, Tick, ExpireTask, Commit, Rollback,
      Crash, seatVars

(* What a session that runs alone writes is decided on the present rows.   *)
LEMMA SerialIsFresh == SerialInv => NothingStale
  BY DEF SerialInv, DirtyIsPresent, NothingStale, DecidedOnPresentRow

(* With one session at a time nothing uncommitted is ever stale.           *)
LEMMA SerialInvariance ==
  ASSUME OneSession
  PROVE  SeatSpec => [](SeatInv /\ NothingStale)
<1>1. SeatInit => SeatInv /\ SerialInv
  BY SeatInvHoldsInitially
  DEF SeatInit, SerialInv, LoadedIsPresent, DirtyIsPresent, Nothing
<1>2. SeatInv /\ SerialInv /\ [SeatNext]_seatVars => (SeatInv /\ SerialInv)'
  BY SerialInvIsKept, SeatInvIsKept
<1> QED
  BY <1>1, <1>2, SerialIsFresh, PTL DEF SeatSpec

(* When sessions do not overlap, confirmations included, the system is the *)
(* lifecycle.                                                              *)
THEOREM SerialRefinement ==
  ASSUME OneSession
  PROVE  SeatSpec => ImplementsLifecycle
<1>1. SeatInv /\ NothingStale /\ [SeatNext]_seatVars
        => [Lifecycle!LifecycleNext]_Booking
  BY StepImplements
<1> QED
  BY <1>1, InitImplements, SerialInvariance, PTL
  DEF SeatSpec, ImplementsLifecycle, Lifecycle!LifecycleSpec

(* ... and its history is a chain. *)
THEOREM SerialAudit ==
  ASSUME OneSession
  PROVE  SeatSpec => AuditIsAChain
<1>1. SeatInv /\ NothingStale /\ [SeatNext]_seatVars
        => [\A s \in Seats : Chained(s)]_seatVars
  BY StepIsChained
<1> QED
  BY <1>1, SerialInvariance, PTL DEF SeatSpec, AuditIsAChain
===============================================================================
