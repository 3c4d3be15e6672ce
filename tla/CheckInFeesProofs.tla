-------------------------- MODULE CheckInFeesProofs ---------------------------
(***************************************************************************)
(* Proofs about CheckInFees, for any sessions, bags, weights, limit and    *)
(* fee.  What seats and row versions look like does not matter here: the   *)
(* invariant says which session may own a lock, what has become of the     *)
(* check-in it has open, and who may have written one.                     *)
(***************************************************************************)
EXTENDS CheckInFees, SumTheorems

(* What is known of the fees by themselves.                                *)
Money == INSTANCE BaggageProofs WITH
  status <- FeesStatus, pc <- FeesAt, opened <- FeesOpened, seen <- FeesSeen,
  request <- FeesRequest, unsaved <- FeesWritten, overlapped <- FALSE

Rows == [Bags -> Fees!Bag \cup {Nil}]

FeeLabels == Labels \cup {"add", "pay", "gateway", "update"}

FeesTypes ==
  /\ lock \in [Seats -> Sessions \cup {Nil}]
  /\ pc \in [Sessions -> FeeLabels]
  /\ req \in [Sessions -> Request \cup {Nil}]
  /\ checkin \in [Passengers -> CheckInRow \cup {Nil}]
  /\ opened \in [Sessions -> CheckInRow \cup {Nil}]
  /\ filed \in [Sessions -> CheckInRow \cup {Nil}]
  /\ bags \in Rows
  /\ collected \in Nat
  /\ weight \in [Sessions -> Weights \cup {0}]
  /\ seen \in [Sessions -> Rows]
  /\ written \in [Sessions -> [bags : Rows, amount : Nat]]

ForTraveller(x) == req[x] \in Request /\ req[x].passenger = Traveller

(* Labels before the one row lock of a session. *)
Unlocked == {"idle", "seat", "recheck", "expire"}

(* Labels of requests that have not opened a check-in, and that have. *)
Starting == {"idle", "hold", "file"}

Working ==
  {"seat", "recheck", "complete", "add", "pay", "gateway", "update"}

(* What a session has opened and written at each label. *)
Position(x) ==
  /\ pc[x] \in Starting => opened[x] = Nil
  /\ pc[x] \in Working => opened[x] # Nil
  /\ pc[x] \in {"hold", "file"} => ForTraveller(x)
  /\ pc[x] \in {"confirm", "expire"} => req[x] \in Request
  /\ pc[x] \in Unlocked => \A s \in Seats : lock[s] # x
  /\ opened[x] # Nil =>
       /\ ForTraveller(x)
       /\ checkin[Traveller] # Nil
       /\ pc[x] \in {"add", "pay"} => written[x] = NothingWritten
       /\ pc[x] = "add" => weight[x] \in Weights
       /\ pc[x] \in {"add", "pay", "gateway", "update"} =>
            opened[x].status # "COMPLETED"
       /\ pc[x] = "gateway" => written[x].amount > 0
       /\ pc[x] = "update" => written[x] # NothingWritten
  /\ opened[x] = Nil =>
       /\ weight[x] = 0
       /\ seen[x] = NoBags
       /\ written[x] = NothingWritten

(* A check-in filed: a new one, a completed one, or one whose status is    *)
(* changed by a request that was about its fees from the beginning.        *)
FiledRow(x) ==
  filed[x] # Nil =>
    /\ pc[x] = "commit"
    /\ ForTraveller(x)
    /\ \/ /\ opened[x] = Nil
          /\ checkin[Traveller] = Nil
          /\ filed[x].status = "IN_PROGRESS"
       \/ /\ opened[x] # Nil
          /\ filed[x].seat = checkin[Traveller].seat
          /\ \/ filed[x].status = "COMPLETED"
             \/ opened[x].status # "COMPLETED" /\ written[x] # NothingWritten

OneFiler ==
  \A x, y \in Sessions : filed[x] # Nil /\ filed[y] # Nil => x = y

FeesInv ==
  /\ FeesTypes
  /\ \A x \in Sessions : Position(x) /\ FiledRow(x)
  /\ OneFiler

(***************************************************************************)
(* Steps within a transaction                                              *)
(***************************************************************************)
LEMMA Names ==
  /\ Nil \notin Passengers /\ Nil \notin Sessions /\ Traveller \in Passengers
  /\ Nil \notin CheckInRow
BY NilAssumption, SessionAssumption, TravellerAssumption, CheckInRowAssumption

(* What a step of session x leaves alone, until it ends its transaction.   *)
LeavesRest(x) ==
  /\ UNCHANGED <<checkin, bags, collected>>
  /\ \A y \in Sessions \ {x} :
       /\ pc'[y] = pc[y] /\ req'[y] = req[y]
       /\ opened'[y] = opened[y] /\ filed'[y] = filed[y]
       /\ weight'[y] = weight[y] /\ seen'[y] = seen[y] /\ written'[y] = written[y]
  /\ \A s \in Seats : lock'[s] = lock[s] \/ (lock[s] = Nil /\ lock'[s] = x)

LEMMA OwnStep ==
  ASSUME FeesInv, NEW x \in Sessions, LeavesRest(x), FeesTypes',
         Position(x)', FiledRow(x)',
         filed'[x] # Nil => \A y \in Sessions \ {x} : filed[y] = Nil
  PROVE  FeesInv'
<1>1. ASSUME NEW y \in Sessions, y # x
      PROVE  Position(y)' /\ FiledRow(y)'
  <2>1. /\ pc'[y] = pc[y] /\ req'[y] = req[y]
        /\ opened'[y] = opened[y] /\ filed'[y] = filed[y]
        /\ weight'[y] = weight[y] /\ seen'[y] = seen[y] /\ written'[y] = written[y]
        /\ checkin' = checkin
    BY <1>1 DEF LeavesRest
  <2>2. ForTraveller(y)' <=> ForTraveller(y)
    BY <2>1 DEF ForTraveller
  <2>3. (\A s \in Seats : lock[s] # y) => \A s \in Seats : lock'[s] # y
    BY <1>1 DEF LeavesRest
  <2>4. Position(y)'
    BY <2>1, <2>2, <2>3 DEF FeesInv, Position
  <2>5. FiledRow(y)'
    BY <2>1, <2>2 DEF FeesInv, FiledRow
  <2> QED
    BY <2>4, <2>5
<1>2. OneFiler'
  BY DEF FeesInv, OneFiler, LeavesRest
<1> QED
  BY <1>1, <1>2 DEF FeesInv

(* All check-ins are filed for the traveller, so only one at a time.       *)
LEMMA FiledAlone ==
  ASSUME FeesInv, NEW x \in Sessions, CheckInRowFree(x), req[x].passenger = Traveller
  PROVE  \A y \in Sessions \ {x} : filed[y] = Nil
  BY DEF FeesInv, FiledRow, ForTraveller, CheckInRowFree

(* Nobody files before it commits.                                         *)
LEMMA NothingFiled ==
  ASSUME FeesInv, NEW x \in Sessions, pc[x] # "commit"
  PROVE  filed[x] = Nil
  BY DEF FeesInv, FiledRow

(***************************************************************************)
(* Steps on seats                                                          *)
(***************************************************************************)

(* A step of session x that changes no check-in and no fee: it goes on,    *)
(* begins, or takes row locks.                                             *)
SeatLabels == Labels \ {"idle"}

InCompletion == {"seat", "recheck", "confirm", "expire", "complete"}

Moves(x) ==
  /\ UNCHANGED <<checkin, opened, filed>>
  /\ UNCHANGED feeVars
  /\ pc[x] \notin {"commit", "abort"}
  /\ \/ req' = req
     \/ pc[x] = "idle" /\ \E r \in Request : req' = [req EXCEPT ![x] = r]
  /\ lock' \in [Seats -> Sessions \cup {Nil}]
  /\ \A s \in Seats : lock'[s] = lock[s] \/ (lock[s] = Nil /\ lock'[s] = x)
  /\ \E label \in SeatLabels :
       /\ pc' = [pc EXCEPT ![x] = label]
       /\ label \in Unlocked => pc[x] \in Unlocked /\ lock' = lock
       /\ label \in {"hold", "file"} => ForTraveller(x)'
       /\ label \in {"confirm", "expire"} => req'[x] \in Request
       /\ opened[x] = Nil => label \notin Working
       /\ opened[x] # Nil =>
            pc[x] \in InCompletion /\ label \in InCompletion \cup {"abort"}

LEMMA MovesLeaveRest ==
  ASSUME FeesInv, NEW x \in Sessions, Moves(x)
  PROVE  LeavesRest(x) /\ UNCHANGED <<checkin, opened, filed>>
<1>1. UNCHANGED <<checkin, opened, filed>> /\ UNCHANGED feeVars
  BY DEF Moves
<1>2. \A y \in Sessions \ {x} : pc'[y] = pc[y] /\ req'[y] = req[y]
  BY DEF Moves, FeesInv, FeesTypes
<1>3. \A s \in Seats : lock'[s] = lock[s] \/ (lock[s] = Nil /\ lock'[s] = x)
  BY DEF Moves
<1> QED
  BY <1>1, <1>2, <1>3 DEF LeavesRest, feeVars

LEMMA MovesKeepInv ==
  ASSUME FeesInv, NEW x \in Sessions, Moves(x)
  PROVE  FeesInv'
<1>1. LeavesRest(x) /\ UNCHANGED <<checkin, opened, filed>> /\ UNCHANGED feeVars
  BY MovesLeaveRest DEF Moves
<1>2. PICK label \in SeatLabels :
       /\ pc' = [pc EXCEPT ![x] = label]
       /\ label \in Unlocked => pc[x] \in Unlocked /\ lock' = lock
       /\ label \in {"hold", "file"} => ForTraveller(x)'
       /\ label \in {"confirm", "expire"} => req'[x] \in Request
       /\ opened[x] = Nil => label \notin Working
       /\ opened[x] # Nil =>
            pc[x] \in InCompletion /\ label \in InCompletion \cup {"abort"}
  BY DEF Moves
<1>3. FeesTypes /\ Position(x) /\ filed[x] = Nil
  BY NothingFiled DEF FeesInv, Moves
<1>4. pc'[x] = label
  BY <1>2, <1>3 DEF FeesTypes
<1>5. pc' \in [Sessions -> FeeLabels]
  BY <1>2, <1>3 DEF FeesTypes, SeatLabels, FeeLabels
<1>6. req' \in [Sessions -> Request \cup {Nil}]
  BY <1>3 DEF Moves, FeesTypes
<1>7. lock' \in [Seats -> Sessions \cup {Nil}]
  BY DEF Moves
<1>8. FeesTypes'
  BY <1>1, <1>3, <1>5, <1>6, <1>7 DEF FeesTypes, feeVars
<1>9. opened[x] # Nil => req' = req
  BY <1>3 DEF Moves, Position, Starting
<1>10. Position(x)'
  <2>1. opened[x] # Nil => ForTraveller(x)'
    BY <1>3, <1>9 DEF Position, ForTraveller
  <2>2. label \in Unlocked => \A s \in Seats : lock'[s] # x
    BY <1>2, <1>3 DEF Position
  <2>3. /\ label \in Working => opened[x] # Nil
        /\ label \in Starting => opened[x] = Nil
        /\ opened[x] # Nil => label \notin {"add", "pay", "gateway", "update"}
    BY <1>2 DEF SeatLabels, InCompletion, Starting, Labels
  <2> QED
    BY <1>1, <1>2, <1>3, <1>4, <2>1, <2>2, <2>3 DEF Position, feeVars
<1>11. FiledRow(x)' /\ filed'[x] = Nil
  BY <1>1, <1>3 DEF FiledRow
<1> QED
  BY <1>1, <1>8, <1>10, <1>11, OwnStep

(* What the repository's operations do to locks and labels.                *)
LEMMA LockedChangeMoves ==
  ASSUME FeesTypes, NEW x \in Sessions, NEW s \in Seats, NEW allowed, NEW new,
         NEW by, NEW reason, NEW next, LockedChange(x, s, allowed, new, by, reason, next)
  PROVE  /\ pc' = [pc EXCEPT ![x] = next] \/ pc' = [pc EXCEPT ![x] = "abort"]
         /\ lock' \in [Seats -> Sessions \cup {Nil}]
         /\ \A t \in Seats : lock'[t] = lock[t] \/ (lock[t] = Nil /\ lock'[t] = x)
  BY DEF LockedChange, Refused, Acquire, Goto, FeesTypes

LEMMA ReadLabels ==
  \A row, p : AfterUnlockedRead(row, p) \in {"confirm", "abort", "expire"}
    /\ AfterSeatRead(row) \in {"abort", "complete", "recheck"}
  BY DEF AfterUnlockedRead, AfterSeatRead

(* A session that works on a seat without having opened a check-in.        *)
LEMMA SeatRequestMoves ==
  ASSUME FeesInv, NEW x \in Sessions, SeatRequest(x), UNCHANGED feeVars
  PROVE  Moves(x)
<1>1. FeesTypes /\ Position(x) /\ UNCHANGED <<checkin, opened, filed>>
  BY DEF FeesInv, SeatRequest, checkInVars
<1>2. pc[x] = "idle" => opened[x] = Nil
  BY <1>1 DEF Position, Starting
<1>3. ASSUME NEW s \in Seats, NEW p \in Passengers,
             HoldSeat(x, s, p) \/ ReleaseSeat(x, s, p)
      PROVE  Moves(x)
  <2>1. pc[x] = "idle" /\ req' = [req EXCEPT ![x] = [seat |-> s, passenger |-> p]]
    BY <1>3 DEF HoldSeat, ReleaseSeat, Begin
  <2>2. [seat |-> s, passenger |-> p] \in Request
    BY DEF Request, PassengerOrNil
  <2>3. /\ pc' = [pc EXCEPT ![x] = "commit"] \/ pc' = [pc EXCEPT ![x] = "abort"]
        /\ lock' \in [Seats -> Sessions \cup {Nil}]
        /\ \A t \in Seats : lock'[t] = lock[t] \/ (lock[t] = Nil /\ lock'[t] = x)
    BY <1>1, <1>3, LockedChangeMoves
    DEF HoldSeat, ReleaseSeat, RepositoryHold, RepositoryRelease
  <2> QED
    BY <1>1, <1>2, <2>1, <2>2, <2>3
    DEF Moves, SeatLabels, Labels, Unlocked, Working
<1>4. ASSUME NEW s \in Seats, NEW p \in Passengers, ConfirmRead(x, s, p)
      PROVE  Moves(x)
  <2>1. pc[x] = "idle" /\ req' = [req EXCEPT ![x] = [seat |-> s, passenger |-> p]]
    BY <1>4 DEF ConfirmRead, Begin
  <2>2. [seat |-> s, passenger |-> p] \in Request
    BY DEF Request, PassengerOrNil
  <2>3. PICK label \in {"confirm", "abort", "expire"} :
          pc' = [pc EXCEPT ![x] = label] /\ lock' = lock
    BY <1>4, ReadLabels DEF ConfirmRead, Goto
  <2> QED
    BY <1>1, <1>2, <2>1, <2>2, <2>3
    DEF Moves, SeatLabels, Labels, Unlocked, Working, FeesTypes
<1>5. ASSUME opened[x] = Nil, ConfirmSeat(x)
      PROVE  Moves(x)
  <2>1. /\ pc' = [pc EXCEPT ![x] = "commit"] \/ pc' = [pc EXCEPT ![x] = "abort"]
        /\ lock' \in [Seats -> Sessions \cup {Nil}]
        /\ \A t \in Seats : lock'[t] = lock[t] \/ (lock[t] = Nil /\ lock'[t] = x)
    <3>1. req[x].seat \in Seats
      BY <1>1, <1>5 DEF Request, ConfirmSeat, Position
    <3> QED
      BY <1>1, <1>5, <3>1, LockedChangeMoves DEF ConfirmSeat, RepositoryConfirm
  <2>2. pc[x] = "confirm" /\ req' = req
    BY <1>5 DEF ConfirmSeat
  <2> QED
    BY <1>1, <1>5, <2>1, <2>2 DEF Moves, SeatLabels, Labels, Unlocked, Working
<1> QED
  BY <1>3, <1>4, <1>5 DEF SeatRequest

(* The tasks, and expire_hold called by a request.                         *)
LEMMA SeatTaskMoves ==
  ASSUME FeesInv, NEW x \in Sessions, SeatTask(x), UNCHANGED feeVars
  PROVE  Moves(x)
<1>1. FeesTypes /\ Position(x) /\ UNCHANGED <<checkin, opened, filed>>
  BY DEF FeesInv, SeatTask, checkInVars
<1>2. pc[x] = "idle" => opened[x] = Nil
  BY <1>1 DEF Position, Starting
<1>3. ASSUME NEW s \in Seats, ExpireTask(x, s)
      PROVE  Moves(x)
  <2>1. /\ pc[x] = "idle" /\ pc' = [pc EXCEPT ![x] = "expire"] /\ lock' = lock
        /\ req' = [req EXCEPT ![x] = [seat |-> s, passenger |-> Nil]]
    BY <1>3 DEF ExpireTask, Begin, Goto
  <2>2. [seat |-> s, passenger |-> Nil] \in Request
    BY DEF Request, PassengerOrNil
  <2> QED
    BY <1>1, <1>2, <2>1, <2>2
    DEF Moves, SeatLabels, Labels, Unlocked, Working, FeesTypes
<1>4. ASSUME ExpireHold(x)
      PROVE  Moves(x)
  <2>1. /\ pc[x] = "expire" /\ req' = req
        /\ pc' = [pc EXCEPT ![x] = IF req[x].passenger = Nil THEN "commit" ELSE "abort"]
        /\ Acquire(x, req[x].seat)
    BY <1>4 DEF ExpireHold, Goto
  <2>2. req[x].seat \in Seats
    BY <1>1, <2>1 DEF Position, Request
  <2>3. /\ lock' \in [Seats -> Sessions \cup {Nil}]
        /\ \A t \in Seats : lock'[t] = lock[t] \/ (lock[t] = Nil /\ lock'[t] = x)
    BY <1>1, <2>1, <2>2 DEF Acquire, FeesTypes
  <2>4. opened[x] # Nil => req[x].passenger # Nil
    BY <1>1, Names DEF Position, ForTraveller
  <2>5. PICK label \in {"commit", "abort"} :
          pc' = [pc EXCEPT ![x] = label] /\ (opened[x] # Nil => label = "abort")
    <3>1. CASE req[x].passenger = Nil
      BY <2>1, <2>4, <3>1
    <3>2. CASE req[x].passenger # Nil
      BY <2>1, <3>2
    <3> QED
      BY <3>1, <3>2
  <2> QED
    BY <1>1, <2>1, <2>3, <2>5
    DEF Moves, SeatLabels, Labels, Unlocked, Working, InCompletion
<1>5. ASSUME CleanupExpiredHolds(x)
      PROVE  Moves(x)
  <2>1. /\ pc[x] = "idle" /\ pc' = [pc EXCEPT ![x] = "commit"] /\ req' = req
        /\ lock' = [s \in Seats |-> IF Unattended(s) THEN x ELSE lock[s]]
    BY <1>5 DEF CleanupExpiredHolds, Goto
  <2>2. /\ lock' \in [Seats -> Sessions \cup {Nil}]
        /\ \A t \in Seats : lock'[t] = lock[t] \/ (lock[t] = Nil /\ lock'[t] = x)
    BY <1>1, <2>1 DEF Unattended, FeesTypes
  <2> QED
    BY <1>1, <1>2, <2>1, <2>2 DEF Moves, SeatLabels, Labels, Unlocked, Working
<1> QED
  BY <1>3, <1>4, <1>5 DEF SeatTask

(* The steps of a check-in of the traveller that write no check-in.        *)
LEMMA CheckInMoves ==
  ASSUME FeesInv, NEW x \in Sessions, UNCHANGED feeVars,
         \/ \E s \in Seats : StartCheckIn(x, s, Traveller)
         \/ HoldForCheckIn(x) \/ LookAtSeat(x) \/ RecheckSeat(x) \/ ConfirmForCheckIn(x)
  PROVE  Moves(x)
<1>1. FeesTypes /\ Position(x)
  BY DEF FeesInv
<1>2. ASSUME NEW s \in Seats, StartCheckIn(x, s, Traveller)
      PROVE  Moves(x)
  <2> DEFINE r == [seat |-> s, passenger |-> Traveller]
  <2>1. /\ pc[x] = "idle" /\ lock' = lock /\ UNCHANGED <<checkin, opened, filed>>
        /\ req' = [req EXCEPT ![x] = r]
        /\ pc' = [pc EXCEPT ![x] = "hold"] \/ pc' = [pc EXCEPT ![x] = "abort"]
    BY <1>2 DEF StartCheckIn, Begin, Goto, checkInVars
  <2>2. r \in Request /\ r.passenger = Traveller
    BY Names DEF Request, PassengerOrNil
  <2> HIDE DEF r
  <2>3. req'[x] = r
    BY <1>1, <2>1 DEF FeesTypes
  <2>4. ForTraveller(x)'
    BY <2>2, <2>3 DEF ForTraveller
  <2>5. opened[x] = Nil
    BY <1>1, <2>1 DEF Position, Starting
  <2> QED
    BY <1>1, <2>1, <2>2, <2>4, <2>5
    DEF Moves, SeatLabels, Labels, Unlocked, Working, FeesTypes
<1>3. ASSUME HoldForCheckIn(x)
      PROVE  Moves(x)
  <2>1. /\ pc[x] = "hold" /\ req' = req /\ UNCHANGED <<checkin, opened, filed>>
    BY <1>3 DEF HoldForCheckIn, checkInVars
  <2>2. opened[x] = Nil /\ ForTraveller(x) /\ req[x].seat \in Seats
    BY <1>1, <2>1 DEF Position, Starting, ForTraveller, Request
  <2>3. /\ pc' = [pc EXCEPT ![x] = "file"] \/ pc' = [pc EXCEPT ![x] = "abort"]
        /\ lock' \in [Seats -> Sessions \cup {Nil}]
        /\ \A t \in Seats : lock'[t] = lock[t] \/ (lock[t] = Nil /\ lock'[t] = x)
    <3>1. CASE RepositoryHold(x, req[x].seat, req[x].passenger, "file")
      BY <1>1, <2>2, <3>1, LockedChangeMoves DEF RepositoryHold
    <3>2. CASE pc' = [pc EXCEPT ![x] = "abort"] /\ lock' = lock
      BY <1>1, <3>2 DEF FeesTypes
    <3> QED
      BY <1>3, <3>1, <3>2 DEF HoldForCheckIn, Goto
  <2>4. ForTraveller(x)'
    BY <2>1, <2>2 DEF ForTraveller
  <2> QED
    BY <1>1, <2>1, <2>2, <2>3, <2>4
    DEF Moves, SeatLabels, Labels, Unlocked, Working
<1>4. ASSUME LookAtSeat(x) \/ RecheckSeat(x)
      PROVE  Moves(x)
  <2>1. /\ pc[x] \in {"seat", "recheck"} /\ req' = req /\ lock' = lock
        /\ UNCHANGED <<checkin, opened, filed>>
    BY <1>4 DEF LookAtSeat, RecheckSeat, checkInVars
  <2>2. opened[x] # Nil /\ req[x] \in Request
    BY <1>1, <2>1 DEF Position, Working, ForTraveller
  <2>3. PICK label \in {"abort", "complete", "recheck", "confirm", "expire"} :
          pc' = [pc EXCEPT ![x] = label]
    BY <1>4, ReadLabels DEF LookAtSeat, RecheckSeat, Goto
  <2> QED
    BY <1>1, <2>1, <2>2, <2>3
    DEF Moves, SeatLabels, Labels, Unlocked, Working, InCompletion, FeesTypes
<1>5. ASSUME ConfirmForCheckIn(x)
      PROVE  Moves(x)
  <2>1. /\ pc[x] = "confirm" /\ req' = req /\ opened[x] # Nil
        /\ UNCHANGED <<checkin, opened, filed>>
    BY <1>5 DEF ConfirmForCheckIn, checkInVars
  <2>2. req[x].seat \in Seats
    BY <1>1, <2>1 DEF Position, Request
  <2>3. /\ pc' = [pc EXCEPT ![x] = "complete"] \/ pc' = [pc EXCEPT ![x] = "abort"]
        /\ lock' \in [Seats -> Sessions \cup {Nil}]
        /\ \A t \in Seats : lock'[t] = lock[t] \/ (lock[t] = Nil /\ lock'[t] = x)
    BY <1>1, <1>5, <2>2, LockedChangeMoves DEF ConfirmForCheckIn, RepositoryConfirm
  <2> QED
    BY <1>1, <2>1, <2>3
    DEF Moves, SeatLabels, Labels, Unlocked, Working, InCompletion
<1> QED
  BY <1>2, <1>3, <1>4, <1>5

(***************************************************************************)
(* Requests that open a check-in                                           *)
(***************************************************************************)
Opens(x, label) ==
  /\ pc[x] = "idle" /\ checkin[Traveller] # Nil
  /\ req' = [req EXCEPT ![x] =
       [seat |-> checkin[Traveller].seat, passenger |-> Traveller]]
  /\ opened' = [opened EXCEPT ![x] = checkin[Traveller]]
  /\ pc' = [pc EXCEPT ![x] = label]
  /\ UNCHANGED <<lock, checkin, filed, bags, collected, seen, written>>

LEMMA OpeningsKeepInv ==
  ASSUME FeesInv, NEW x \in Sessions, NEW label \in {"seat", "add", "pay", "abort"},
         Opens(x, label),
         \/ weight' = weight /\ label # "add"
         \/ \E w \in Weights : weight' = [weight EXCEPT ![x] = w],
         label \in {"add", "pay"} => checkin[Traveller].status # "COMPLETED"
  PROVE  FeesInv' /\ LeavesRest(x)
<1> DEFINE r == [seat |-> checkin[Traveller].seat, passenger |-> Traveller]
<1>1. FeesTypes /\ Position(x) /\ filed[x] = Nil /\ opened[x] = Nil
  BY NothingFiled DEF FeesInv, Opens, Position, Starting
<1>2. checkin[Traveller] \in CheckInRow
  BY <1>1, Names DEF Opens, FeesTypes
<1>3. r \in Request /\ r.passenger = Traveller
  BY <1>2, Names DEF CheckInRow, Request, PassengerOrNil
<1>4. req' = [req EXCEPT ![x] = r]
  BY DEF Opens
<1> HIDE DEF r
<1>5. /\ pc'[x] = label /\ req'[x] = r /\ opened'[x] = checkin[Traveller]
      /\ pc' \in [Sessions -> FeeLabels] /\ req' \in [Sessions -> Request \cup {Nil}]
      /\ opened' \in [Sessions -> CheckInRow \cup {Nil}]
  BY <1>1, <1>2, <1>3, <1>4 DEF Opens, FeesTypes, FeeLabels, Labels
<1>6. /\ weight' \in [Sessions -> Weights \cup {0}]
      /\ label = "add" => weight'[x] \in Weights
      /\ \A y \in Sessions \ {x} : weight'[y] = weight[y]
  BY <1>1 DEF FeesTypes
<1>7. FeesTypes'
  BY <1>1, <1>5, <1>6 DEF FeesTypes, Opens
<1>8. LeavesRest(x)
  BY <1>1, <1>4, <1>6 DEF LeavesRest, Opens, FeesTypes
<1>9. Position(x)'
  <2>1. ForTraveller(x)'
    BY <1>3, <1>5 DEF ForTraveller
  <2>2. opened'[x] # Nil /\ checkin'[Traveller] # Nil
    BY <1>5 DEF Opens
  <2>3. \A s \in Seats : lock'[s] # x
    BY <1>1 DEF Position, Opens, Unlocked
  <2>4. written'[x] = NothingWritten
    BY <1>1 DEF Position, Opens
  <2>5. label \notin {"gateway", "update", "confirm", "expire"} \cup Starting
    BY DEF Starting
  <2> QED
    BY <1>5, <1>6, <2>1, <2>2, <2>3, <2>4, <2>5 DEF Position
<1>10. FiledRow(x)' /\ filed'[x] = Nil
  BY <1>1 DEF FiledRow, Opens
<1> QED
  BY <1>7, <1>8, <1>9, <1>10, OwnStep

LEMMA OpenForFeesOpens ==
  ASSUME FeesTypes, NEW x \in Sessions, NEW accepted, NEW label,
         OpenForFees(x, accepted, label), UNCHANGED <<bags, collected, seen, written>>
  PROVE  Opens(x, IF checkin[Traveller].status \in accepted THEN label ELSE "abort")
  BY DEF OpenForFees, Opens, Begin, Goto

LEMMA OpenCheckInOpens ==
  ASSUME FeesTypes, NEW x \in Sessions, OpenCheckIn(x, Traveller), UNCHANGED feeVars
  PROVE  Opens(x, IF checkin[Traveller].status = "IN_PROGRESS" THEN "seat" ELSE "abort")
  BY DEF OpenCheckIn, Opens, Begin, Goto, feeVars

LEMMA RequestsKeepInv ==
  ASSUME FeesInv, NEW x \in Sessions,
         \/ \E w \in Weights : AddBaggage(x, w)
         \/ ProcessPayment(x)
         \/ OpenCheckIn(x, Traveller) /\ UNCHANGED feeVars
  PROVE  FeesInv'
<1>1. FeesTypes
  BY DEF FeesInv
<1>2. ASSUME NEW w \in Weights, AddBaggage(x, w)
      PROVE  FeesInv'
  <2> DEFINE label == IF checkin[Traveller].status \in {"IN_PROGRESS", "WAITING_FOR_PAYMENT"}
                      THEN "add" ELSE "abort"
  <2>1. Opens(x, label) /\ weight' = [weight EXCEPT ![x] = w]
    BY <1>1, <1>2, OpenForFeesOpens DEF AddBaggage
  <2>2. /\ label \in {"seat", "add", "pay", "abort"}
        /\ label \in {"add", "pay"} => checkin[Traveller].status # "COMPLETED"
    OBVIOUS
  <2> HIDE DEF label
  <2> QED
    BY <2>1, <2>2, OpeningsKeepInv
<1>3. ASSUME ProcessPayment(x)
      PROVE  FeesInv'
  <2> DEFINE label == IF checkin[Traveller].status \in {"WAITING_FOR_PAYMENT"}
                      THEN "pay" ELSE "abort"
  <2>1. Opens(x, label) /\ weight' = weight
    BY <1>1, <1>3, OpenForFeesOpens DEF ProcessPayment, feeVars
  <2>2. /\ label \in {"seat", "add", "pay", "abort"} /\ label # "add"
        /\ label \in {"add", "pay"} => checkin[Traveller].status # "COMPLETED"
    OBVIOUS
  <2> HIDE DEF label
  <2> QED
    BY <2>1, <2>2, OpeningsKeepInv
<1>4. ASSUME OpenCheckIn(x, Traveller), UNCHANGED feeVars
      PROVE  FeesInv'
  <2> DEFINE label == IF checkin[Traveller].status = "IN_PROGRESS" THEN "seat" ELSE "abort"
  <2>1. Opens(x, label) /\ weight' = weight
    BY <1>1, <1>4, OpenCheckInOpens DEF feeVars
  <2>2. label \in {"seat", "add", "pay", "abort"} /\ label \notin {"add", "pay"}
    OBVIOUS
  <2> HIDE DEF label
  <2> QED
    BY <2>1, <2>2, OpeningsKeepInv
<1> QED
  BY <1>2, <1>3, <1>4

(***************************************************************************)
(* Steps that file a check-in                                              *)
(***************************************************************************)
Files(x, row) ==
  /\ CheckInRowFree(x)
  /\ filed' = [filed EXCEPT ![x] = row]
  /\ pc' = [pc EXCEPT ![x] = "commit"]
  /\ UNCHANGED <<lock, req, checkin, opened, bags, collected, weight, seen>>
  /\ \A y \in Sessions \ {x} : written'[y] = written[y]
  /\ written' \in [Sessions -> [bags : Rows, amount : Nat]]

LEMMA FilingsKeepInv ==
  ASSUME FeesInv, NEW x \in Sessions, NEW row \in CheckInRow, Files(x, row),
         ForTraveller(x), pc[x] \notin {"idle", "commit"},
         opened[x] = Nil => written'[x] = NothingWritten,
         \/ opened[x] = Nil /\ checkin[Traveller] = Nil /\ row.status = "IN_PROGRESS"
         \/ /\ opened[x] # Nil /\ row.seat = checkin[Traveller].seat
            /\ \/ row.status = "COMPLETED"
               \/ opened[x].status # "COMPLETED" /\ written'[x] # NothingWritten
  PROVE  FeesInv' /\ LeavesRest(x)
<1>1. FeesTypes /\ Position(x)
  BY DEF FeesInv
<1>2. /\ pc'[x] = "commit" /\ pc' \in [Sessions -> FeeLabels]
      /\ filed'[x] = row /\ filed' \in [Sessions -> CheckInRow \cup {Nil}]
      /\ row # Nil
  BY <1>1, Names DEF Files, FeesTypes, FeeLabels, Labels
<1>3. FeesTypes'
  BY <1>1, <1>2 DEF FeesTypes, Files
<1>4. LeavesRest(x)
  BY <1>1 DEF LeavesRest, Files, FeesTypes
<1>5. ForTraveller(x)'
  BY DEF ForTraveller, Files
<1>6. Position(x)'
  BY <1>1, <1>2, <1>5 DEF Position, Files, Starting, Working, Unlocked
<1>7. FiledRow(x)'
  <2>1. checkin' = checkin /\ opened' = opened
    BY DEF Files
  <2> QED
    BY <1>2, <1>5, <2>1 DEF FiledRow
<1>8. \A y \in Sessions \ {x} : filed[y] = Nil
  BY FiledAlone DEF Files, ForTraveller
<1> QED
  BY <1>3, <1>4, <1>6, <1>7, <1>8, OwnStep

(* An UPDATE of the status leaves the seat of the check-in.                *)
LEMMA StatusUpdated ==
  ASSUME FeesTypes, checkin[Traveller] # Nil,
         NEW status \in {"IN_PROGRESS", "WAITING_FOR_PAYMENT", "COMPLETED"}
  PROVE  LET row == [checkin[Traveller] EXCEPT !.status = status]
         IN  row \in CheckInRow /\ row.seat = checkin[Traveller].seat
               /\ row.status = status
<1>1. checkin[Traveller] \in CheckInRow
  BY Names DEF FeesTypes
<1> QED
  BY <1>1 DEF CheckInRow

LEMMA FileCheckInKeepsInv ==
  ASSUME FeesInv, NEW x \in Sessions, FileCheckIn(x), UNCHANGED feeVars
  PROVE  FeesInv'
<1>1. FeesTypes /\ Position(x) /\ pc[x] = "file"
  BY DEF FeesInv, FileCheckIn
<1>2. /\ opened[x] = Nil /\ ForTraveller(x) /\ req[x].passenger = Traveller
      /\ req[x].seat \in Seats /\ written[x] = NothingWritten
  BY <1>1 DEF Position, Starting, ForTraveller, Request
<1>3. CASE pc' = [pc EXCEPT ![x] = "abort"] /\ filed' = filed
  <2>1. Moves(x)
    BY <1>1, <1>2, <1>3
    DEF FileCheckIn, Moves, SeatLabels, Labels, Unlocked, Working, FeesTypes
  <2> QED
    BY <2>1, MovesKeepInv
<1>4. CASE /\ checkin[req[x].passenger] = Nil
           /\ filed' = [filed EXCEPT ![x] =
                [seat |-> req[x].seat, status |-> "IN_PROGRESS"]]
           /\ pc' = [pc EXCEPT ![x] = "commit"]
  <2> DEFINE row == [seat |-> req[x].seat, status |-> "IN_PROGRESS"]
  <2>1. row \in CheckInRow /\ row.status = "IN_PROGRESS"
    BY <1>2 DEF CheckInRow
  <2> HIDE DEF row
  <2>2. Files(x, row)
    BY <1>1, <1>4 DEF Files, FileCheckIn, feeVars, FeesTypes, row
  <2>3. written' = written
    BY DEF feeVars
  <2> QED
    BY <1>1, <1>2, <1>4, <2>1, <2>2, <2>3, FilingsKeepInv
<1> QED
  BY <1>3, <1>4 DEF FileCheckIn, Goto

LEMMA CompleteCheckInKeepsInv ==
  ASSUME FeesInv, NEW x \in Sessions, CompleteCheckIn(x), UNCHANGED feeVars
  PROVE  /\ FeesInv' /\ LeavesRest(x)
         /\ \E row \in CheckInRow : Files(x, row) /\ row.status = "COMPLETED"
<1>1. FeesTypes /\ Position(x) /\ pc[x] = "complete" /\ written' = written
  BY DEF FeesInv, CompleteCheckIn, feeVars
<1>2. opened[x] # Nil /\ ForTraveller(x) /\ req[x].passenger = Traveller
        /\ checkin[Traveller] # Nil
  BY <1>1 DEF Position, Working, ForTraveller
<1> DEFINE row == [checkin[Traveller] EXCEPT !.status = "COMPLETED"]
<1>3. row \in CheckInRow /\ row.seat = checkin[Traveller].seat /\ row.status = "COMPLETED"
  BY <1>1, <1>2, StatusUpdated
<1> HIDE DEF row
<1>4. Files(x, row)
  BY <1>1, <1>2 DEF Files, CompleteCheckIn, Goto, feeVars, FeesTypes, row
<1> QED
  BY <1>1, <1>2, <1>3, <1>4, FilingsKeepInv

LEMMA AskForPaymentKeepsInv ==
  ASSUME FeesInv, NEW x \in Sessions, AskForPayment(x)
  PROVE  /\ FeesInv' /\ LeavesRest(x)
         /\ \E row \in CheckInRow : Files(x, row) /\ row.status = "WAITING_FOR_PAYMENT"
<1>1. FeesTypes /\ Position(x) /\ pc[x] = "update" /\ written' = written
  BY DEF FeesInv, AskForPayment, feeVars
<1>2. /\ opened[x] # Nil /\ ForTraveller(x) /\ checkin[Traveller] # Nil
      /\ opened[x].status # "COMPLETED" /\ written[x] # NothingWritten
  BY <1>1 DEF Position, Working
<1> DEFINE row == [checkin[Traveller] EXCEPT !.status = "WAITING_FOR_PAYMENT"]
<1>3. /\ row \in CheckInRow /\ row.seat = checkin[Traveller].seat
      /\ row.status = "WAITING_FOR_PAYMENT"
  BY <1>1, <1>2, StatusUpdated
<1> HIDE DEF row
<1>4. Files(x, row)
  BY <1>1, <1>2 DEF Files, AskForPayment, WriteStatus, Goto, feeVars, FeesTypes, row
<1> QED
  BY <1>1, <1>2, <1>3, <1>4, FilingsKeepInv

LEMMA SettledAreRows ==
  ASSUME NEW rows \in Rows
  PROVE  Fees!Settled(rows, Fees!Owing(rows)) \in Rows
<1>1. ASSUME NEW b \in Fees!Owing(rows)
      PROVE  [rows[b] EXCEPT !.fee_paid = TRUE] \in Fees!Bag
  <2>1. rows[b] \in Fees!Bag
    BY DEF Rows, Fees!Owing, Fees!Present
  <2> QED
    BY <2>1 DEF Fees!Bag
<1> QED
  BY <1>1 DEF Rows, Fees!Settled

LEMMA RecordPaymentKeepsInv ==
  ASSUME FeesInv, NEW x \in Sessions, RecordPayment(x)
  PROVE  /\ FeesInv' /\ LeavesRest(x)
         /\ \E row \in CheckInRow : Files(x, row) /\ row.status = "IN_PROGRESS"
<1>1. FeesTypes /\ Position(x) /\ pc[x] = "gateway"
  BY DEF FeesInv, RecordPayment
<1>2. /\ opened[x] # Nil /\ ForTraveller(x) /\ checkin[Traveller] # Nil
      /\ opened[x].status # "COMPLETED" /\ written[x].amount > 0
  BY <1>1 DEF Position, Working
<1> DEFINE row == [checkin[Traveller] EXCEPT !.status = "IN_PROGRESS"]
           settled == Fees!Settled(seen[x], Fees!Owing(seen[x]))
           new == [bags |-> settled, amount |-> written[x].amount]
<1>3. /\ row \in CheckInRow /\ row.seat = checkin[Traveller].seat
      /\ row.status = "IN_PROGRESS"
  BY <1>1, <1>2, StatusUpdated
<1>4. settled \in Rows /\ written[x].amount \in Nat
  BY <1>1, SettledAreRows DEF FeesTypes
<1>5. /\ new \in [bags : Rows, amount : Nat] /\ new # NothingWritten
      /\ written' = [written EXCEPT ![x] = new]
  <2> HIDE DEF settled
  <2>1. new \in [bags : Rows, amount : Nat] /\ new.amount > 0
    BY <1>2, <1>4
  <2>2. written' = [written EXCEPT ![x] = new]
    BY DEF RecordPayment, settled
  <2> QED
    BY <2>1, <2>2 DEF NothingWritten
<1> HIDE DEF row, new, settled
<1>6. /\ written'[x] = new /\ \A y \in Sessions \ {x} : written'[y] = written[y]
      /\ written' \in [Sessions -> [bags : Rows, amount : Nat]]
  BY <1>1, <1>5 DEF FeesTypes
<1>7. Files(x, row)
  BY <1>1, <1>2, <1>6 DEF Files, RecordPayment, WriteStatus, Goto, row
<1> QED
  BY <1>1, <1>2, <1>3, <1>5, <1>6, <1>7, FilingsKeepInv

(***************************************************************************)
(* Steps that write bags and payments                                      *)
(***************************************************************************)

(* BaggageProofs asks no more of the constants than is assumed here.       *)
LEMMA MoneyAssumptions ==
  /\ Money!IsFiniteSet(Bags)
  /\ Weights \subseteq 1..50 /\ MaxBaggageWeight \in Nat /\ FeePerKg \in Nat
  /\ Nil \notin Money!CheckInStatuses \cup Money!Bag
BY FeesAssumption
DEF IsFiniteSet, Money!IsFiniteSet, Money!CheckInStatuses, Money!Bag

(* BaggagePayment is the same through both instances.                      *)
LEMMA SameFees ==
  /\ \A rows, some : Money!TotalFee(rows, some) = Fees!TotalFee(rows, some)
  /\ \A rows : Money!Required(rows) = Fees!Required(rows)
  /\ \A rows, w : Money!FeeForBag(rows, w) = Fees!FeeForBag(rows, w)
  /\ \A rows : /\ Money!Owing(rows) = Fees!Owing(rows)
                /\ Money!Present(rows) = Fees!Present(rows)
                /\ Money!TotalWeight(rows) = Fees!TotalWeight(rows)
<1>1. \A rows : /\ Money!Owing(rows) = Fees!Owing(rows)
                /\ Money!Present(rows) = Fees!Present(rows)
  BY DEF Money!Owing, Fees!Owing, Money!Present, Fees!Present
<1>2. \A rows, some : Money!TotalFee(rows, some) = Fees!TotalFee(rows, some)
  BY DEF Money!TotalFee, Fees!TotalFee, Money!MapThenSumSet,
    Fees!MapThenSumSet, Money!MapThenFoldSet, Fees!MapThenFoldSet
<1>3. \A rows : Money!TotalWeight(rows) = Fees!TotalWeight(rows)
  BY <1>1 DEF Money!TotalWeight, Fees!TotalWeight, Money!MapThenSumSet,
    Fees!MapThenSumSet, Money!MapThenFoldSet, Fees!MapThenFoldSet
<1>4. \A n : Money!Excess(n) = Fees!Excess(n)
  BY DEF Money!Excess, Fees!Excess
<1> QED
  BY <1>1, <1>2, <1>3, <1>4 DEF Money!Required, Fees!Required, Money!FeeForBag, Fees!FeeForBag

(* The sums of the model are numbers; BaggageProofs says so of its own.    *)
LEMMA SumsAreNumbers ==
  ASSUME NEW rows \in Rows
  PROVE  /\ Fees!Required(rows) \in Nat
         /\ \A w \in Weights \cup {0} : Fees!FeeForBag(rows, w) \in Nat
<1>1. rows \in Money!Rows
  BY DEF Rows, Money!Rows, Money!Bag, Fees!Bag
<1>2. /\ Money!TotalWeight(rows) \in Nat
      /\ \A some \in SUBSET Money!Present(rows) : Money!TotalFee(rows, some) \in Nat
  BY <1>1, MoneyAssumptions, Money!SumsAreNatural
<1>3. Fees!Required(rows) \in Nat
  BY <1>2, SameFees DEF Fees!Required, Fees!Owing
<1>4. ASSUME NEW w \in Weights \cup {0}
      PROVE  Fees!FeeForBag(rows, w) \in Nat
  <2> DEFINE total == Fees!TotalWeight(rows)
  <2>1. total \in Nat /\ w \in Nat
    BY <1>2, SameFees, FeesAssumption
  <2> HIDE DEF total
  <2>2. Fees!Excess(total + w) - Fees!Excess(total) \in Nat
    BY <2>1, FeesAssumption DEF Fees!Excess
  <2>3. FeePerKg * (Fees!Excess(total + w) - Fees!Excess(total)) \in Nat
    BY <2>2, FeesAssumption
  <2> QED
    BY <2>3 DEF Fees!FeeForBag, total
<1> QED
  BY <1>3, <1>4

LEMMA NoRowIsNil == NoBags \in Rows /\ Nil \notin Fees!Bag
  BY FeesAssumption DEF NoBags, Rows, Fees!Bag

(* The new bag and its fee.                                                *)
NewBag(x) ==
  [weight_kg  |-> weight[x],
   excess_fee |-> Fees!FeeForBag(bags, weight[x]),
   fee_paid   |-> FALSE]

InsertsBag(x, b) ==
  /\ pc[x] = "add"
  /\ Fresh(b)
  /\ seen' = [seen EXCEPT ![x] = bags]
  /\ written' = [written EXCEPT ![x] =
       [bags |-> [NoBags EXCEPT ![b] = NewBag(x)], amount |-> 0]]
  /\ pc' = [pc EXCEPT ![x] =
       IF Fees!FeeForBag(bags, weight[x]) > 0 /\ opened[x].status # "WAITING_FOR_PAYMENT"
       THEN "update" ELSE "commit"]
  /\ UNCHANGED <<lock, req, checkin, opened, filed, bags, collected, weight>>

LEMMA InsertBagInserts ==
  ASSUME NEW x, NEW b, InsertBag(x, b)
  PROVE  InsertsBag(x, b)
  BY DEF InsertBag, InsertsBag, NewBag, Goto, checkInVars

LEMMA InsertBagKeepsInv ==
  ASSUME FeesInv, NEW x \in Sessions, NEW b \in Bags, InsertsBag(x, b)
  PROVE  FeesInv' /\ LeavesRest(x)
<1>1. FeesTypes /\ Position(x) /\ pc[x] = "add" /\ filed[x] = Nil
  BY NothingFiled DEF FeesInv, InsertsBag
<1>2. /\ opened[x] # Nil /\ ForTraveller(x) /\ checkin[Traveller] # Nil
      /\ opened[x].status # "COMPLETED" /\ weight[x] \in Weights
  BY <1>1 DEF Position, Working
<1> DEFINE new == [bags |-> [NoBags EXCEPT ![b] = NewBag(x)], amount |-> 0]
<1>3. new \in [bags : Rows, amount : Nat] /\ new # NothingWritten
  <2>1. weight[x] \in Nat /\ Fees!FeeForBag(bags, weight[x]) \in Nat
    <3> DEFINE w == weight[x]
    <3>1. w \in Weights /\ bags \in Rows /\ Weights \subseteq 1..50
      BY <1>1, <1>2, FeesAssumption DEF FeesTypes
    <3> HIDE DEF w
    <3>2. w \in Nat /\ w \in Weights \cup {0}
      BY <3>1
    <3>3. Fees!FeeForBag(bags, w) \in Nat
      BY <3>1, <3>2, SumsAreNumbers
    <3> QED
      BY <3>2, <3>3 DEF w
  <2>2. NewBag(x) \in Fees!Bag
    BY <2>1 DEF NewBag, Fees!Bag
  <2>3. /\ [NoBags EXCEPT ![b] = NewBag(x)] \in Rows
        /\ [NoBags EXCEPT ![b] = NewBag(x)] # NoBags
    <3>1. NoBags \in [Bags -> Fees!Bag \cup {Nil}] /\ NoBags[b] = Nil /\ NewBag(x) # Nil
      BY <2>2, NoRowIsNil DEF Rows, NoBags
    <3> QED
      BY <2>2, <3>1 DEF Rows
  <2> QED
    BY <2>3 DEF NothingWritten
<1>4. written' = [written EXCEPT ![x] = new]
  BY DEF InsertsBag
<1> HIDE DEF new
<1>5. PICK label \in {"update", "commit"} : pc' = [pc EXCEPT ![x] = label]
  BY DEF InsertsBag
<1>6. /\ pc'[x] = label /\ pc' \in [Sessions -> FeeLabels]
      /\ written'[x] = new /\ written' \in [Sessions -> [bags : Rows, amount : Nat]]
      /\ seen' \in [Sessions -> Rows]
  <2>1. pc'[x] = label /\ pc' \in [Sessions -> FeeLabels]
    BY <1>1, <1>5 DEF FeesTypes, FeeLabels, Labels
  <2>2. written'[x] = new /\ written' \in [Sessions -> [bags : Rows, amount : Nat]]
    BY <1>1, <1>3, <1>4 DEF FeesTypes
  <2>3. seen' = [seen EXCEPT ![x] = bags]
    BY DEF InsertsBag
  <2>4. seen' \in [Sessions -> Rows]
    BY <1>1, <2>3 DEF FeesTypes
  <2> QED
    BY <2>1, <2>2, <2>4
<1>7. FeesTypes'
  BY <1>1, <1>6 DEF FeesTypes, InsertsBag
<1>8. LeavesRest(x)
  BY <1>1, <1>4, <1>5 DEF FeesTypes, LeavesRest, InsertsBag
<1>9. Position(x)'
  <2>1. ForTraveller(x)'
    BY <1>2 DEF ForTraveller, InsertsBag
  <2> QED
    BY <1>2, <1>3, <1>5, <1>6, <2>1 DEF Position, InsertsBag, Starting, Working, Unlocked
<1>10. FiledRow(x)' /\ filed'[x] = Nil
  BY <1>1 DEF FiledRow, InsertsBag
<1> QED
  BY <1>7, <1>8, <1>9, <1>10, OwnStep

LEMMA InsertPaymentKeepsInv ==
  ASSUME FeesInv, NEW x \in Sessions, InsertPayment(x)
  PROVE  FeesInv' /\ LeavesRest(x)
<1>1. FeesTypes /\ Position(x) /\ pc[x] = "pay" /\ filed[x] = Nil
  BY NothingFiled DEF FeesInv, InsertPayment
<1>2. /\ opened[x] # Nil /\ ForTraveller(x) /\ checkin[Traveller] # Nil
      /\ opened[x].status # "COMPLETED" /\ written[x] = NothingWritten
  BY <1>1 DEF Position, Working
<1>3. /\ seen' = [seen EXCEPT ![x] = bags]
      /\ UNCHANGED <<lock, req, checkin, opened, filed, bags, collected, weight>>
  BY DEF InsertPayment, checkInVars
<1>4. PICK label \in {"gateway", "abort"} :
        /\ pc' = [pc EXCEPT ![x] = label]
        /\ written' \in [Sessions -> [bags : Rows, amount : Nat]]
        /\ label = "gateway" => written'[x].amount > 0
        /\ \A y \in Sessions \ {x} : written'[y] = written[y]
  <2>1. CASE pc' = [pc EXCEPT ![x] = "abort"] /\ written' = written
    BY <1>1, <2>1 DEF FeesTypes
  <2>2. CASE /\ Fees!Required(bags) > 0
             /\ written' = [written EXCEPT ![x].amount = Fees!Required(bags)]
             /\ pc' = [pc EXCEPT ![x] = "gateway"]
    <3> DEFINE asked == Fees!Required(bags)
    <3>1. asked \in Nat
      BY <1>1, SumsAreNumbers DEF FeesTypes
    <3> HIDE DEF asked
    <3>2. written' = [written EXCEPT ![x].amount = asked] /\ asked > 0
      BY <2>2 DEF asked
    <3>3. written'[x] = [written[x] EXCEPT !.amount = asked]
      BY <1>1, <3>2 DEF FeesTypes
    <3>4. written[x] \in [bags : Rows, amount : Nat]
      BY <1>1 DEF FeesTypes
    <3>5. /\ [written[x] EXCEPT !.amount = asked] \in [bags : Rows, amount : Nat]
          /\ [written[x] EXCEPT !.amount = asked].amount = asked
      BY <3>1, <3>4
    <3>6. \A y \in Sessions \ {x} : written'[y] = written[y]
      BY <1>1, <3>2 DEF FeesTypes
    <3>7. written' \in [Sessions -> [bags : Rows, amount : Nat]]
      BY <1>1, <3>2, <3>3, <3>5 DEF FeesTypes
    <3> QED
      BY <2>2, <3>2, <3>3, <3>5, <3>6, <3>7
  <2> QED
    BY <2>1, <2>2 DEF InsertPayment, Goto
<1>5. pc'[x] = label /\ pc' \in [Sessions -> FeeLabels] /\ seen' \in [Sessions -> Rows]
  BY <1>1, <1>3, <1>4 DEF FeesTypes, FeeLabels, Labels
<1>6. FeesTypes'
  BY <1>1, <1>3, <1>4, <1>5 DEF FeesTypes
<1>7. LeavesRest(x)
  BY <1>1, <1>3, <1>4 DEF FeesTypes, LeavesRest
<1>8. Position(x)'
  <2>1. ForTraveller(x)'
    BY <1>2, <1>3 DEF ForTraveller
  <2> QED
    BY <1>2, <1>3, <1>4, <1>5, <2>1 DEF Position, Starting, Working, Unlocked
<1>9. FiledRow(x)' /\ filed'[x] = Nil
  BY <1>1, <1>3 DEF FiledRow
<1> QED
  BY <1>6, <1>7, <1>8, <1>9, OwnStep


(***************************************************************************)
(* The end of a transaction                                                *)
(***************************************************************************)
Ends(x) ==
  /\ pc' = [pc EXCEPT ![x] = "idle"]
  /\ req' = [req EXCEPT ![x] = Nil]
  /\ lock' = [s \in Seats |-> IF lock[s] = x THEN Nil ELSE lock[s]]
  /\ opened' = [opened EXCEPT ![x] = Nil]
  /\ filed' = [filed EXCEPT ![x] = Nil]
  /\ ForgetFees(x)

LEMMA EndingsKeepInv ==
  ASSUME FeesInv, NEW x \in Sessions, Ends(x),
         checkin' \in [Passengers -> CheckInRow \cup {Nil}],
         bags' \in Rows, collected' \in Nat,
         checkin[Traveller] # Nil =>
           checkin'[Traveller] # Nil /\ checkin'[Traveller].seat = checkin[Traveller].seat,
         checkin' = checkin \/ \A y \in Sessions \ {x} : filed[y] = Nil
  PROVE  FeesInv'
<1>1. FeesTypes
  BY DEF FeesInv
<1>2. NothingWritten \in [bags : Rows, amount : Nat] /\ NoBags \in Rows
  BY NoRowIsNil DEF NothingWritten
<1>3. /\ pc'[x] = "idle" /\ opened'[x] = Nil /\ filed'[x] = Nil
      /\ pc' \in [Sessions -> FeeLabels]
      /\ req' \in [Sessions -> Request \cup {Nil}]
      /\ opened' \in [Sessions -> CheckInRow \cup {Nil}]
      /\ filed' \in [Sessions -> CheckInRow \cup {Nil}]
      /\ lock' \in [Seats -> Sessions \cup {Nil}]
      /\ \A s \in Seats : lock'[s] # x
  BY <1>1, Names DEF Ends, FeesTypes, FeeLabels, Labels
<1>4. /\ weight'[x] = 0 /\ seen'[x] = NoBags /\ written'[x] = NothingWritten
      /\ weight' \in [Sessions -> Weights \cup {0}]
      /\ seen' \in [Sessions -> Rows]
      /\ written' \in [Sessions -> [bags : Rows, amount : Nat]]
  BY <1>1, <1>2 DEF Ends, ForgetFees, FeesTypes
<1>5. FeesTypes'
  BY <1>3, <1>4 DEF FeesTypes
<1>6. Position(x)' /\ FiledRow(x)'
  BY <1>3, <1>4 DEF Position, FiledRow, Working, Unlocked
<1>7. ASSUME NEW y \in Sessions, y # x
      PROVE  filed'[y] = filed[y] /\ Position(y)' /\ FiledRow(y)'
  <2>1. /\ pc'[y] = pc[y] /\ req'[y] = req[y]
        /\ opened'[y] = opened[y] /\ filed'[y] = filed[y]
        /\ weight'[y] = weight[y] /\ seen'[y] = seen[y] /\ written'[y] = written[y]
    BY <1>1, <1>7 DEF Ends, ForgetFees, FeesTypes
  <2>2. ForTraveller(y)' <=> ForTraveller(y)
    BY <2>1 DEF ForTraveller
  <2>3. (\A s \in Seats : lock[s] # y) => \A s \in Seats : lock'[s] # y
    BY Names DEF Ends
  <2>4. Position(y)'
    BY <2>1, <2>2, <2>3 DEF FeesInv, Position
  <2>5. FiledRow(y)'
    BY <1>7, <2>1, <2>2 DEF FeesInv, FiledRow
  <2> QED
    BY <2>1, <2>4, <2>5
<1>8. OneFiler'
  BY <1>3, <1>7 DEF FeesInv, OneFiler
<1> QED
  BY <1>5, <1>6, <1>7, <1>8 DEF FeesInv

(* What a commit makes of the traveller's check-in.                        *)
LEMMA CommitFiles ==
  ASSUME FeesInv, NEW x \in Sessions, CommitFees(x)
  PROVE  /\ pc[x] = "commit" /\ Ends(x)
         /\ filed[x] = Nil => checkin' = checkin
         /\ filed[x] # Nil => checkin' = [checkin EXCEPT ![Traveller] = filed[x]]
<1>1. pc[x] = "commit" /\ Ends(x)
  BY DEF CommitFees, CommitAll, Commit, EndSession, Goto, ForgetCheckIn, Ends
<1>2. filed[x] # Nil => req[x].passenger = Traveller
  BY DEF FeesInv, FiledRow, ForTraveller
<1> QED
  BY <1>1, <1>2 DEF CommitFees, CommitAll

LEMMA CommitKeepsInv ==
  ASSUME FeesInv, NEW x \in Sessions, CommitFees(x)
  PROVE  FeesInv'
<1>1. FeesTypes /\ FiledRow(x) /\ OneFiler
  BY DEF FeesInv
<1>2. bags' \in Rows
  <2>1. written[x].bags \in Rows /\ bags \in Rows
    BY <1>1 DEF FeesTypes
  <2>2. bags' = [b \in Bags |-> IF written[x].bags[b] = Nil THEN bags[b]
                                ELSE written[x].bags[b]]
    BY DEF CommitFees
  <2> QED
    BY <2>1, <2>2 DEF Rows
<1>3. collected' \in Nat
  <2>1. written[x].amount \in Nat /\ collected \in Nat
    BY <1>1 DEF FeesTypes
  <2>2. collected' = collected + written[x].amount
    BY DEF CommitFees
  <2> QED
    BY <2>1, <2>2
<1>4. CASE filed[x] = Nil
  BY <1>1, <1>2, <1>3, <1>4, CommitFiles, EndingsKeepInv DEF FeesTypes
<1>5. CASE filed[x] # Nil
  <2>1. filed[x] \in CheckInRow /\ filed[x] # Nil
    BY <1>1, <1>5 DEF FeesTypes
  <2>2. checkin' = [checkin EXCEPT ![Traveller] = filed[x]]
    BY <1>5, CommitFiles
  <2>3. checkin' \in [Passengers -> CheckInRow \cup {Nil}] /\ checkin'[Traveller] = filed[x]
    BY <1>1, <2>1, <2>2, Names DEF FeesTypes
  <2>4. checkin[Traveller] # Nil => filed[x].seat = checkin[Traveller].seat
    BY <1>1, <1>5 DEF FiledRow
  <2>5. \A y \in Sessions \ {x} : filed[y] = Nil
    BY <1>1, <1>5 DEF OneFiler
  <2> QED
    BY <1>2, <1>3, <2>1, <2>3, <2>4, <2>5, CommitFiles, EndingsKeepInv
<1> QED
  BY <1>4, <1>5

LEMMA AbandonEnds ==
  ASSUME NEW x \in Sessions, AbandonFees(x)
  PROVE  pc[x] # "idle" /\ Ends(x) /\ UNCHANGED <<checkin, bags, collected>>
  BY DEF AbandonFees, AbandonAll, Rollback, Crash, EndSession, Goto, ForgetCheckIn, Ends

LEMMA AbandonKeepsInv ==
  ASSUME FeesInv, NEW x \in Sessions, AbandonFees(x)
  PROVE  FeesInv'
  BY AbandonEnds, EndingsKeepInv DEF FeesInv, FeesTypes

(***************************************************************************)
(* The invariant                                                           *)
(***************************************************************************)
LEMMA FeesInvInitially == FeesInit => FeesInv
<1> SUFFICES ASSUME FeesInit PROVE FeesInv
  OBVIOUS
<1>1. NothingWritten \in [bags : Rows, amount : Nat] /\ NoBags \in Rows
  BY NoRowIsNil DEF NothingWritten
<1>2. FeesTypes
  BY <1>1 DEF FeesInit, CheckInInit, SeatInit, Nothing, FeesTypes, FeeLabels, Labels
<1>3. \A x \in Sessions : Position(x) /\ FiledRow(x)
  BY Names DEF FeesInit, CheckInInit, SeatInit, Nothing, Position, FiledRow, Starting,
    Working, Unlocked
<1>4. OneFiler
  BY DEF FeesInit, CheckInInit, OneFiler
<1> QED
  BY <1>2, <1>3, <1>4 DEF FeesInv

(* A step of a session that writes no check-in.                            *)
MovesOf(x) ==
  /\ UNCHANGED feeVars
  /\ \/ \E s \in Seats : StartCheckIn(x, s, Traveller)
     \/ HoldForCheckIn(x) \/ LookAtSeat(x) \/ RecheckSeat(x) \/ ConfirmForCheckIn(x)
     \/ SeatRequest(x) \/ SeatTask(x)

LEMMA MovesOfMove ==
  ASSUME FeesInv, NEW x \in Sessions, MovesOf(x)
  PROVE  Moves(x)
  BY CheckInMoves, SeatRequestMoves, SeatTaskMoves DEF MovesOf

LEMMA FeesInvKept == FeesInv /\ [FeesNext]_allVars => FeesInv'
<1> SUFFICES ASSUME FeesInv, [FeesNext]_allVars PROVE FeesInv'
  OBVIOUS
<1>1. ASSUME UNCHANGED <<lock, pc, req, checkin, opened, filed, bags, collected,
                         weight, seen, written>>
      PROVE  FeesInv'
  BY <1>1 DEF FeesInv, FeesTypes, Position, ForTraveller, FiledRow, OneFiler
<1>2. CASE UNCHANGED allVars
  BY <1>1, <1>2 DEF allVars
<1>3. CASE Tick /\ UNCHANGED <<checkInVars, feeVars>>
  BY <1>1, <1>3 DEF Tick, checkInVars, feeVars
<1>4. ASSUME NEW x \in Sessions, FeeStep(x)
      PROVE  FeesInv'
  <2>1. ASSUME NEW b \in Bags, InsertBag(x, b)
        PROVE  FeesInv'
    BY <2>1, InsertBagInserts, InsertBagKeepsInv
  <2> QED
    BY <1>4, <2>1, RequestsKeepInv, AskForPaymentKeepsInv, InsertPaymentKeepsInv,
      RecordPaymentKeepsInv DEF FeeStep
<1>5. ASSUME NEW x \in Sessions, OtherStep(x), UNCHANGED feeVars
      PROVE  FeesInv'
  <2>1. CASE MovesOf(x)
    BY <2>1, MovesOfMove, MovesKeepInv
  <2>2. CASE FileCheckIn(x)
    BY <1>5, <2>2, FileCheckInKeepsInv
  <2>3. CASE OpenCheckIn(x, Traveller)
    BY <1>5, <2>3, RequestsKeepInv
  <2>4. CASE CompleteCheckIn(x)
    BY <1>5, <2>4, CompleteCheckInKeepsInv
  <2> QED
    BY <1>5, <2>1, <2>2, <2>3, <2>4 DEF OtherStep, CheckInOfTraveller, MovesOf
<1> QED
  BY <1>2, <1>3, <1>4, <1>5, CommitKeepsInv, AbandonKeepsInv DEF FeesNext

LEMMA FeesInvariant == FeesSpec => []FeesInv
  BY FeesInvInitially, FeesInvKept, PTL DEF FeesSpec


(***************************************************************************)
(* Nobody waits in a circle                                                *)
(***************************************************************************)

(* Whoever has filed a check-in is past its last wait; whoever owns a row  *)
(* lock no longer waits for one.                                           *)
LEMMA WaitsEnd ==
  ASSUME FeesInv, NEW x \in Sessions, NEW y \in Sessions, WaitsFor(x, y)
  PROVE  \/ pc[y] = "commit"
         \/ pc[x] = "expire" /\ pc[y] # "expire"
<1>1. CASE pc[x] = "expire" /\ lock[req[x].seat] = y
  <2>1. req[x].seat \in Seats
    BY <1>1 DEF FeesInv, Position, Request
  <2> QED
    BY <1>1, <2>1 DEF FeesInv, Position, Unlocked
<1>2. CASE filed[y] # Nil
  BY <1>2 DEF FeesInv, FiledRow
<1> QED
  BY <1>1, <1>2 DEF WaitsFor

(* Among any sessions one waits for none of the others: seats are refused  *)
(* and not waited for except by expire_hold, which comes first in its      *)
(* transaction (seats/service.py), and a check-in is written last.         *)
THEOREM WaitsNeverCycle == FeesSpec => []NoCycleOfWaits
<1>1. FeesInv => NoCycleOfWaits
  <2> SUFFICES ASSUME FeesInv, NEW some \in SUBSET Sessions, some # {}
               PROVE  \E x \in some : \A y \in some : ~ WaitsFor(x, y)
    BY DEF NoCycleOfWaits
  <2>1. ASSUME NEW y \in some, pc[y] = "commit"
        PROVE  \A z \in some : ~ WaitsFor(y, z)
    BY <2>1 DEF WaitsFor, WaitsForRow
  <2>2. ASSUME NEW x \in some, pc[x] # "expire"
        PROVE  \E y \in some : \A z \in some : ~ WaitsFor(y, z)
    <3>1. CASE \E y \in some : WaitsFor(x, y)
      BY <2>1, <2>2, <3>1, WaitsEnd
    <3>2. CASE \A y \in some : ~ WaitsFor(x, y)
      BY <3>2
    <3> QED
      BY <3>1, <3>2
  <2>3. ASSUME \A x \in some : pc[x] = "expire"
        PROVE  \E y \in some : \A z \in some : ~ WaitsFor(y, z)
    BY <2>3, WaitsEnd
  <2> QED
    BY <2>2, <2>3
<1> QED
  BY <1>1, FeesInvariant, PTL

(***************************************************************************)
(* Who may take a completed check-in back                                  *)
(***************************************************************************)
LEMMA OnlyCommitsWriteCheckIns ==
  ASSUME FeesInv, FeesNext, checkin' # checkin
  PROVE  \E x \in Sessions : CommitFees(x) /\ filed[x] # Nil
<1>1. ASSUME NEW x \in Sessions, FeeStep(x)
      PROVE  checkin' = checkin
  BY <1>1 DEF FeeStep, AddBaggage, InsertBag, AskForPayment, ProcessPayment, InsertPayment,
    RecordPayment, OpenForFees, WriteStatus, checkInVars
<1>2. ASSUME NEW x \in Sessions, OtherStep(x), UNCHANGED feeVars
      PROVE  checkin' = checkin
  <2>1. CASE MovesOf(x)
    BY <2>1, MovesOfMove DEF Moves
  <2>2. CASE FileCheckIn(x) \/ OpenCheckIn(x, Traveller) \/ CompleteCheckIn(x)
    BY <2>2 DEF FileCheckIn, OpenCheckIn, CompleteCheckIn
  <2> QED
    BY <1>2, <2>1, <2>2 DEF OtherStep, CheckInOfTraveller, MovesOf
<1>3. ASSUME NEW x \in Sessions, CommitFees(x), filed[x] = Nil
      PROVE  checkin' = checkin
  BY <1>3, CommitFiles
<1> QED
  BY <1>1, <1>2, <1>3, AbandonEnds DEF FeesNext, checkInVars

(* A completed check-in is only ever taken back by the commit of a request *)
(* for fees that opened it before it was completed.                        *)
THEOREM TakenBackByOverlap == FeesSpec => TakenBackByOverlapOnly
<1>1. ASSUME FeesInv, [FeesNext]_allVars,
             Completed(Traveller), checkin'[Traveller] # checkin[Traveller]
      PROVE  \E x \in Sessions : TakenBackBy(x) /\ pc'[x] = "idle"
  <2>1. FeesNext
    BY <1>1 DEF allVars
  <2>2. PICK x \in Sessions : CommitFees(x) /\ filed[x] # Nil
    BY <1>1, <2>1, OnlyCommitsWriteCheckIns
  <2>3. FeesTypes /\ FiledRow(x) /\ checkin[Traveller] # Nil
    BY <1>1, Names DEF FeesInv, Completed
  <2>4. checkin' = [checkin EXCEPT ![Traveller] = filed[x]] /\ pc'[x] = "idle"
    BY <1>1, <2>2, <2>3, CommitFiles DEF Ends, FeesTypes
  <2>5. filed[x] # checkin[Traveller]
    BY <1>1, <2>3, <2>4, Names DEF FeesTypes
  <2>6. filed[x] \in CheckInRow /\ checkin[Traveller] \in CheckInRow
    BY <2>2, <2>3, Names DEF FeesTypes
  <2>7. checkin[Traveller].status = "COMPLETED"
    BY <1>1 DEF Completed
  <2>8. filed[x].seat # checkin[Traveller].seat \/ filed[x].status # "COMPLETED"
    BY <2>5, <2>6, <2>7 DEF CheckInRow
  <2>9. TakenBackBy(x)
    BY <2>2, <2>3, <2>8 DEF FiledRow, TakenBackBy, ForTraveller
  <2> QED
    BY <2>4, <2>9
<1>2. FeesInv /\ [FeesNext]_allVars =>
        [Completed(Traveller) /\ checkin'[Traveller] # checkin[Traveller] =>
           \E x \in Sessions : TakenBackBy(x) /\ pc'[x] = "idle"]_allVars
  BY <1>1
<1> QED
  BY <1>2, FeesInvariant, PTL DEF FeesSpec, TakenBackByOverlapOnly


(***************************************************************************)
(* What BaggagePayment sees                                                *)
(***************************************************************************)
ShownAs(x) ==
  /\ AtWork(x) =>
       /\ FeesAt[x] = FeesPc(x) /\ FeesOpened[x] = opened[x].status
       /\ FeesSeen[x] = seen[x] /\ FeesRequest[x] = weight[x]
       /\ FeesWritten[x] = FeesUnsaved(x)
  /\ ~ AtWork(x) =>
       /\ FeesAt[x] = "idle" /\ FeesOpened[x] = Nil
       /\ FeesSeen[x] = NoBags /\ FeesRequest[x] = 0
       /\ FeesWritten[x] = NothingUnsaved

LEMMA Shown ==
  ASSUME NEW x \in Sessions
  PROVE  ShownAs(x) /\ ShownAs(x)'
  BY DEF ShownAs, FeesAt, FeesOpened, FeesSeen, FeesRequest, FeesWritten

(* A step of one session is seen as a step of that session.                *)
OthersKeep(x) ==
  \A y \in Sessions \ {x} :
    /\ pc'[y] = pc[y] /\ req'[y] = req[y]
    /\ opened'[y] = opened[y] /\ filed'[y] = filed[y]
    /\ weight'[y] = weight[y] /\ seen'[y] = seen[y] /\ written'[y] = written[y]

OnlyShows(x) ==
  /\ FeesAt' = [FeesAt EXCEPT ![x] = FeesAt'[x]]
  /\ FeesOpened' = [FeesOpened EXCEPT ![x] = FeesOpened'[x]]
  /\ FeesSeen' = [FeesSeen EXCEPT ![x] = FeesSeen'[x]]
  /\ FeesRequest' = [FeesRequest EXCEPT ![x] = FeesRequest'[x]]
  /\ FeesWritten' = [FeesWritten EXCEPT ![x] = FeesWritten'[x]]

LEMMA OneShows ==
  ASSUME NEW x \in Sessions, OthersKeep(x)
  PROVE  OnlyShows(x)
<1>1. ASSUME NEW y \in Sessions \ {x}
      PROVE  /\ FeesAt'[y] = FeesAt[y] /\ FeesOpened'[y] = FeesOpened[y]
             /\ FeesSeen'[y] = FeesSeen[y] /\ FeesRequest'[y] = FeesRequest[y]
             /\ FeesWritten'[y] = FeesWritten[y]
  <2>1. /\ AtWork(y)' <=> AtWork(y)
        /\ FeesPc(y)' = FeesPc(y) /\ FeesUnsaved(y)' = FeesUnsaved(y)
        /\ opened'[y] = opened[y] /\ seen'[y] = seen[y] /\ weight'[y] = weight[y]
    BY DEF OthersKeep, AtWork, FeesPc, Completing, FeesUnsaved, StatusWritten
  <2> QED
    BY <2>1, Shown DEF ShownAs
<1>2. /\ FeesAt' = [y \in Sessions |-> FeesAt'[y]]
      /\ FeesAt = [y \in Sessions |-> FeesAt[y]]
  BY DEF FeesAt
<1>3. /\ FeesOpened' = [y \in Sessions |-> FeesOpened'[y]]
      /\ FeesOpened = [y \in Sessions |-> FeesOpened[y]]
  BY DEF FeesOpened
<1>4. /\ FeesSeen' = [y \in Sessions |-> FeesSeen'[y]]
      /\ FeesSeen = [y \in Sessions |-> FeesSeen[y]]
  BY DEF FeesSeen
<1>5. /\ FeesRequest' = [y \in Sessions |-> FeesRequest'[y]]
      /\ FeesRequest = [y \in Sessions |-> FeesRequest[y]]
  BY DEF FeesRequest
<1>6. /\ FeesWritten' = [y \in Sessions |-> FeesWritten'[y]]
      /\ FeesWritten = [y \in Sessions |-> FeesWritten[y]]
  BY DEF FeesWritten
<1> QED
  BY <1>1, <1>2, <1>3, <1>4, <1>5, <1>6 DEF OnlyShows

LEMMA StepShows ==
  ASSUME NEW x \in Sessions, LeavesRest(x)
  PROVE  /\ OnlyShows(x) /\ ShownAs(x) /\ ShownAs(x)'
         /\ FeesStatus' = FeesStatus /\ UNCHANGED <<bags, collected>>
<1>1. OthersKeep(x)
  BY DEF LeavesRest, OthersKeep
<1>2. FeesStatus' = FeesStatus /\ UNCHANGED <<bags, collected>>
  BY DEF LeavesRest, FeesStatus
<1> QED
  BY <1>1, <1>2, OneShows, Shown

(* Where nothing of session x changes, nothing at all is seen.             *)
LEMMA PartsUnchanged ==
  ASSUME NEW x \in Sessions, OnlyShows(x)
  PROVE  /\ FeesAt'[x] = FeesAt[x] => FeesAt' = FeesAt
         /\ FeesOpened'[x] = FeesOpened[x] => FeesOpened' = FeesOpened
         /\ FeesSeen'[x] = FeesSeen[x] => FeesSeen' = FeesSeen
         /\ FeesRequest'[x] = FeesRequest[x] => FeesRequest' = FeesRequest
         /\ FeesWritten'[x] = FeesWritten[x] => FeesWritten' = FeesWritten
<1>1. FeesAt'[x] = FeesAt[x] => FeesAt' = FeesAt
  BY DEF OnlyShows, FeesAt
<1>2. FeesOpened'[x] = FeesOpened[x] => FeesOpened' = FeesOpened
  BY DEF OnlyShows, FeesOpened
<1>3. FeesSeen'[x] = FeesSeen[x] => FeesSeen' = FeesSeen
  BY DEF OnlyShows, FeesSeen
<1>4. FeesRequest'[x] = FeesRequest[x] => FeesRequest' = FeesRequest
  BY DEF OnlyShows, FeesRequest
<1>5. FeesWritten'[x] = FeesWritten[x] => FeesWritten' = FeesWritten
  BY DEF OnlyShows, FeesWritten
<1> QED
  BY <1>1, <1>2, <1>3, <1>4, <1>5

LEMMA SeenUnchanged ==
  ASSUME NEW x \in Sessions, OnlyShows(x),
         UNCHANGED <<FeesStatus, bags, collected>>,
         FeesAt'[x] = FeesAt[x], FeesOpened'[x] = FeesOpened[x],
         FeesSeen'[x] = FeesSeen[x], FeesRequest'[x] = FeesRequest[x],
         FeesWritten'[x] = FeesWritten[x]
  PROVE  UNCHANGED Fees!vars
  BY PartsUnchanged DEF Fees!vars

SeenStep(x) == Fees!Step(x) \/ UNCHANGED Fees!vars

LEMMA SameNothing ==
  NothingUnsaved = Fees!NothingUnsaved /\ NoBags = Fees!NoBags
  BY DEF NothingUnsaved, Fees!NothingUnsaved, NoBags, Fees!NoBags

(* A session that is no longer at work, or never was.                      *)
LEMMA NoLongerAtWork ==
  ASSUME FeesInv, NEW x \in Sessions, OthersKeep(x),
         UNCHANGED <<FeesStatus, bags, collected>>, ~ AtWork(x)'
  PROVE  SeenStep(x)
<1>1. OnlyShows(x) /\ ShownAs(x) /\ ShownAs(x)'
  BY OneShows, Shown
<1>2. CASE ~ AtWork(x)
  BY <1>1, <1>2, SeenUnchanged DEF ShownAs, SeenStep
<1>3. CASE AtWork(x)
  <2>1. FeesAt[x] # "idle"
    BY <1>1, <1>3 DEF ShownAs, AtWork, FeesPc, Completing, FeesInv, Position, Starting
  <2>2. Fees!EndSession(x)
    BY <1>1, SameNothing DEF ShownAs, OnlyShows, Fees!EndSession, Fees!Goto
  <2>3. Fees!Abandon(x)
    BY <2>1, <2>2 DEF Fees!Abandon
  <2> QED
    BY <2>3 DEF SeenStep, Fees!Step
<1> QED
  BY <1>2, <1>3


LEMMA MovesSeen ==
  ASSUME FeesInv, NEW x \in Sessions, Moves(x)
  PROVE  SeenStep(x)
<1>1. /\ LeavesRest(x) /\ UNCHANGED <<opened, filed, weight, seen, written>>
      /\ FeesTypes /\ Position(x)
  BY MovesLeaveRest DEF Moves, feeVars, FeesInv
<1>2. /\ OnlyShows(x) /\ ShownAs(x) /\ ShownAs(x)' /\ OthersKeep(x)
      /\ UNCHANGED <<FeesStatus, bags, collected>>
  BY <1>1, StepShows DEF LeavesRest, OthersKeep
<1>3. CASE ~ AtWork(x)'
  BY <1>2, <1>3, NoLongerAtWork
<1>4. CASE AtWork(x)'
  <2>1. opened[x] # Nil
    BY <1>1, <1>4 DEF AtWork
  <2>2. pc[x] \in InCompletion /\ pc'[x] \in InCompletion /\ req' = req
    <3>1. PICK label \in InCompletion \cup {"abort"} :
            pc' = [pc EXCEPT ![x] = label] /\ pc[x] \in InCompletion
      BY <2>1 DEF Moves
    <3>2. pc'[x] = label
      BY <1>1, <3>1 DEF FeesTypes
    <3>3. label # "abort"
      BY <1>4, <3>2 DEF AtWork
    <3>4. req' = req
      BY <1>1, <2>1 DEF Moves, Position, Starting
    <3> QED
      BY <3>1, <3>2, <3>3, <3>4
  <2>3. AtWork(x) /\ Completing(x) /\ Completing(x)'
    BY <1>1, <1>4, <2>1, <2>2 DEF AtWork, InCompletion, Completing
  <2>4. FeesPc(x)' = FeesPc(x) /\ FeesUnsaved(x)' = FeesUnsaved(x)
    BY <1>1, <2>3 DEF FeesPc, FeesUnsaved, StatusWritten
  <2> QED
    BY <1>1, <1>2, <1>4, <2>3, <2>4, SeenUnchanged DEF ShownAs, SeenStep
<1> QED
  BY <1>3, <1>4

(* The names of statuses and labels on both sides.                         *)
LEMMA StatusSeen ==
  ASSUME FeesTypes, checkin[Traveller] # Nil
  PROVE  FeesStatus = checkin[Traveller].status /\ FeesStatus \in Fees!CheckInStatuses
  BY Names DEF FeesTypes, FeesStatus, CheckInRow, Fees!CheckInStatuses

(* A request that opens the check-in and goes on.                          *)
LEMMA OpeningShows ==
  ASSUME FeesInv, NEW x \in Sessions, NEW label \in {"seat", "add", "pay", "abort"},
         Opens(x, label), LeavesRest(x)
  PROVE  /\ OnlyShows(x) /\ OthersKeep(x) /\ UNCHANGED <<FeesStatus, bags, collected>>
         /\ FeesAt[x] = "idle" /\ FeesSeen[x] = NoBags /\ FeesRequest[x] = 0
         /\ FeesWritten[x] = NothingUnsaved
         /\ label = "abort" => ~ AtWork(x)'
         /\ label # "abort" =>
              /\ FeesAt'[x] = IF label = "seat" THEN "update" ELSE label
              /\ FeesOpened'[x] = FeesStatus /\ FeesSeen'[x] = NoBags
              /\ FeesRequest'[x] = weight'[x]
              /\ FeesWritten'[x] =
                   [status |-> IF label = "seat" THEN "COMPLETED" ELSE Nil,
                    bags |-> NoBags, amount |-> 0]
         /\ weight[x] = 0
<1>1. FeesTypes /\ Position(x) /\ opened[x] = Nil /\ filed[x] = Nil
  BY NothingFiled DEF FeesInv, Opens, Position, Starting
<1>2. /\ OnlyShows(x) /\ ShownAs(x) /\ ShownAs(x)' /\ OthersKeep(x)
      /\ UNCHANGED <<FeesStatus, bags, collected>>
  BY StepShows DEF LeavesRest, OthersKeep
<1>3. seen[x] = NoBags /\ written[x] = NothingWritten /\ weight[x] = 0
  BY <1>1 DEF Position
<1>4. ~ AtWork(x)
  BY <1>1 DEF AtWork
<1>5. pc'[x] = label /\ opened'[x] = checkin[Traveller]
  BY <1>1 DEF Opens, FeesTypes
<1>6. CASE label = "abort"
  BY <1>2, <1>3, <1>4, <1>5, <1>6 DEF ShownAs, AtWork
<1>7. CASE label # "abort"
  <2>1. req'[x].passenger = Traveller
    BY <1>1 DEF Opens, FeesTypes
  <2>2. AtWork(x)'
    BY <1>5, <1>7, <2>1 DEF AtWork, Opens
  <2>3. FeesPc(x)' = IF label = "seat" THEN "update" ELSE label
    BY <1>5, <1>7 DEF FeesPc, Completing
  <2>4. filed'[x] = Nil /\ written'[x] = NothingWritten /\ seen'[x] = NoBags
    BY <1>1, <1>3 DEF Opens
  <2>5. StatusWritten(x)' = IF label = "seat" THEN "COMPLETED" ELSE Nil
    <3>1. pc'[x] # "update"
      BY <1>5
    <3>2. Completing(x)' <=> label = "seat"
      BY <1>5 DEF Completing
    <3> QED
      BY <2>4, <3>1, <3>2 DEF StatusWritten
  <2>6. FeesUnsaved(x)' = [status |-> IF label = "seat" THEN "COMPLETED" ELSE Nil,
                           bags |-> NoBags, amount |-> 0]
    BY <2>4, <2>5 DEF FeesUnsaved, NothingWritten
  <2>7. opened'[x].status = FeesStatus
    BY <1>1, <1>5, StatusSeen DEF Opens
  <2>8. /\ FeesAt[x] = "idle" /\ FeesSeen[x] = NoBags /\ FeesRequest[x] = 0
        /\ FeesWritten[x] = NothingUnsaved
    BY <1>2, <1>4 DEF ShownAs
  <2>9. /\ FeesAt'[x] = FeesPc(x)' /\ FeesOpened'[x] = opened'[x].status
        /\ FeesSeen'[x] = seen'[x] /\ FeesRequest'[x] = weight'[x]
        /\ FeesWritten'[x] = FeesUnsaved(x)'
    BY <1>2, <2>2 DEF ShownAs
  <2> QED
    BY <1>2, <1>3, <1>7, <2>3, <2>4, <2>6, <2>7, <2>8, <2>9
<1> QED
  BY <1>6, <1>7

LEMMA OpeningsSeen ==
  ASSUME FeesInv, NEW x \in Sessions, NEW label \in {"seat", "add", "pay", "abort"},
         Opens(x, label),
         \/ weight' = weight /\ label # "add"
         \/ label \in {"add", "abort"} /\ \E w \in Weights : weight' = [weight EXCEPT ![x] = w],
         label = "seat" => checkin[Traveller].status = "IN_PROGRESS",
         label = "add" => checkin[Traveller].status # "COMPLETED",
         label = "pay" => checkin[Traveller].status = "WAITING_FOR_PAYMENT"
  PROVE  SeenStep(x)
<1>1. FeesTypes /\ LeavesRest(x)
  BY OpeningsKeepInv DEF FeesInv
<1>2. FeesStatus = checkin[Traveller].status /\ FeesStatus \in Fees!CheckInStatuses
  BY <1>1, StatusSeen DEF Opens
<1>3. CASE label = "abort"
  BY <1>1, <1>3, OpeningShows, NoLongerAtWork
<1>4. CASE label = "add"
  <2>1. PICK w \in Weights : weight'[x] = w
    BY <1>1, <1>4 DEF FeesTypes
  <2>2. /\ FeesAt' = [FeesAt EXCEPT ![x] = "add"]
        /\ FeesOpened' = [FeesOpened EXCEPT ![x] = FeesStatus]
        /\ FeesRequest' = [FeesRequest EXCEPT ![x] = w]
        /\ FeesAt[x] = "idle" /\ UNCHANGED <<FeesStatus, bags, collected>>
        /\ FeesSeen' = FeesSeen /\ FeesWritten' = FeesWritten
    <3>1. /\ FeesAt'[x] = "add" /\ FeesOpened'[x] = FeesStatus /\ FeesRequest'[x] = w
          /\ FeesSeen'[x] = FeesSeen[x] /\ FeesWritten'[x] = FeesWritten[x]
      BY <1>1, <1>4, <2>1, OpeningShows DEF NothingUnsaved
    <3>2. OnlyShows(x)
      BY <1>1, OpeningShows
    <3>3. FeesSeen' = FeesSeen /\ FeesWritten' = FeesWritten
      BY <3>1, <3>2, PartsUnchanged
    <3> QED
      BY <1>1, <3>1, <3>2, <3>3, OpeningShows DEF OnlyShows
  <2>3. Fees!AddBaggage(x, w)
    BY <1>2, <1>4, <2>2 DEF Fees!AddBaggage, Fees!Open, Fees!Goto
  <2> QED
    BY <2>3 DEF SeenStep, Fees!Step
<1>5. CASE label = "pay"
  <2>1. /\ FeesAt'[x] = "pay" /\ FeesOpened'[x] = FeesStatus /\ FeesRequest'[x] = FeesRequest[x]
        /\ FeesSeen'[x] = FeesSeen[x] /\ FeesWritten'[x] = FeesWritten[x]
    BY <1>1, <1>5, OpeningShows DEF NothingUnsaved
  <2>2. /\ FeesAt' = [FeesAt EXCEPT ![x] = "pay"]
        /\ FeesOpened' = [FeesOpened EXCEPT ![x] = FeesStatus]
        /\ FeesAt[x] = "idle" /\ UNCHANGED <<FeesStatus, bags, collected>>
    BY <1>1, <2>1, OpeningShows DEF OnlyShows
  <2>3. OnlyShows(x)
    BY <1>1, OpeningShows
  <2>4. UNCHANGED <<FeesSeen, FeesRequest, FeesWritten>>
    BY <2>1, <2>3, PartsUnchanged
  <2>5. Fees!ProcessPayment(x)
    BY <1>2, <1>5, <2>2, <2>4 DEF Fees!ProcessPayment, Fees!Open, Fees!Goto
  <2> QED
    BY <2>5 DEF SeenStep, Fees!Step
<1>6. CASE label = "seat"
  <2>1. /\ FeesAt'[x] = "update" /\ FeesOpened'[x] = FeesStatus
        /\ FeesRequest'[x] = FeesRequest[x] /\ FeesSeen'[x] = FeesSeen[x]
        /\ FeesWritten'[x] = [FeesWritten[x] EXCEPT !.status = "COMPLETED"]
    BY <1>1, <1>6, OpeningShows DEF NothingUnsaved
  <2>2. /\ FeesAt' = [FeesAt EXCEPT ![x] = "update"]
        /\ FeesOpened' = [FeesOpened EXCEPT ![x] = FeesStatus]
        /\ FeesAt[x] = "idle" /\ UNCHANGED <<FeesStatus, bags, collected>>
    BY <1>1, <2>1, OpeningShows DEF OnlyShows
  <2>3. OnlyShows(x)
    BY <1>1, OpeningShows
  <2>4. UNCHANGED <<FeesSeen, FeesRequest>>
    BY <2>1, <2>3, PartsUnchanged
  <2>5. FeesWritten' = [FeesWritten EXCEPT ![x].status = "COMPLETED"]
    BY <2>1, <2>3 DEF OnlyShows
  <2>6. Fees!CompleteCheckIn(x)
    BY <1>2, <1>6, <2>2, <2>4, <2>5 DEF Fees!CompleteCheckIn, Fees!Open, Fees!Goto
  <2> QED
    BY <2>6 DEF SeenStep, Fees!Step
<1> QED
  BY <1>3, <1>4, <1>5, <1>6


(* A session that files while at work.                                     *)
LEMMA FilingShows ==
  ASSUME FeesInv, NEW x \in Sessions, NEW row \in CheckInRow, Files(x, row),
         LeavesRest(x), opened[x] # Nil, pc[x] \in {"complete", "update", "gateway"}
  PROVE  /\ OnlyShows(x) /\ UNCHANGED <<FeesStatus, bags, collected>>
         /\ FeesAt[x] = IF pc[x] = "gateway" THEN "gateway" ELSE "update"
         /\ FeesAt' = [FeesAt EXCEPT ![x] = "commit"]
         /\ UNCHANGED <<FeesOpened, FeesSeen, FeesRequest>>
         /\ FeesSeen[x] = seen[x]
         /\ FeesWritten[x] = FeesUnsaved(x)
         /\ FeesWritten' = [FeesWritten EXCEPT ![x] =
              [status |-> row.status, bags |-> written'[x].bags, amount |-> written'[x].amount]]
         /\ Fees!RowFree(x)
<1>1. FeesTypes /\ Position(x) /\ row # Nil
  BY Names DEF FeesInv
<1>2. /\ OnlyShows(x) /\ ShownAs(x) /\ ShownAs(x)'
      /\ UNCHANGED <<FeesStatus, bags, collected>>
  BY StepShows
<1>3. pc'[x] = "commit" /\ filed'[x] = row /\ opened'[x] = opened[x]
  BY <1>1 DEF Files, FeesTypes
<1>4. AtWork(x) /\ AtWork(x)'
  BY <1>1, <1>3 DEF AtWork, Position, ForTraveller, Files
<1>5. FeesPc(x) = IF pc[x] = "gateway" THEN "gateway" ELSE "update"
  BY DEF FeesPc, Completing
<1>6. /\ FeesPc(x)' = "commit"
      /\ FeesUnsaved(x)' =
           [status |-> row.status, bags |-> written'[x].bags, amount |-> written'[x].amount]
  BY <1>1, <1>3 DEF FeesPc, Completing, FeesUnsaved, StatusWritten
<1>7. UNCHANGED <<FeesOpened, FeesSeen, FeesRequest>>
  <2>1. /\ FeesOpened'[x] = FeesOpened[x] /\ FeesSeen'[x] = FeesSeen[x]
        /\ FeesRequest'[x] = FeesRequest[x]
    BY <1>2, <1>4 DEF ShownAs, Files
  <2> QED
    BY <1>2, <2>1, PartsUnchanged
<1>8. Fees!RowFree(x)
  <2>1. ASSUME NEW y \in Sessions \ {x}, FeesAt[y] = "commit"
        PROVE  FeesWritten[y].status = Nil
    <3>1. AtWork(y) /\ FeesPc(y) = "commit" /\ FeesWritten[y] = FeesUnsaved(y)
      BY <2>1, Shown DEF ShownAs
    <3>2. pc[y] = "commit"
      BY <3>1 DEF FeesPc
    <3>3. filed[y] = Nil
      BY <1>1, FiledAlone DEF Files, Position, ForTraveller
    <3>4. StatusWritten(y) = Nil
      BY <3>2, <3>3 DEF StatusWritten, Completing
    <3> QED
      BY <3>1, <3>4 DEF FeesUnsaved
  <2> QED
    BY <2>1 DEF Fees!RowFree
<1>9. /\ FeesAt[x] = FeesPc(x) /\ FeesSeen[x] = seen[x] /\ FeesWritten[x] = FeesUnsaved(x)
      /\ FeesAt'[x] = FeesPc(x)' /\ FeesWritten'[x] = FeesUnsaved(x)'
  BY <1>2, <1>4 DEF ShownAs
<1> QED
  BY <1>2, <1>5, <1>6, <1>7, <1>8, <1>9 DEF OnlyShows

LEMMA UpdatesSeen ==
  ASSUME FeesInv, NEW x \in Sessions,
         \/ CompleteCheckIn(x) /\ UNCHANGED feeVars
         \/ AskForPayment(x)
  PROVE  SeenStep(x)
<1> DEFINE status == IF pc[x] = "update" THEN "WAITING_FOR_PAYMENT" ELSE "COMPLETED"
<1>1. /\ FeesTypes /\ Position(x) /\ pc[x] \in {"complete", "update"}
      /\ written' = written
  BY DEF FeesInv, CompleteCheckIn, AskForPayment, feeVars
<1>2. LeavesRest(x) /\ opened[x] # Nil
  BY <1>1, CompleteCheckInKeepsInv, AskForPaymentKeepsInv DEF Position, Working
<1>3. PICK row \in CheckInRow : Files(x, row) /\ row.status = status
  <2>1. CASE CompleteCheckIn(x) /\ UNCHANGED feeVars
    BY <2>1, CompleteCheckInKeepsInv DEF CompleteCheckIn
  <2>2. CASE AskForPayment(x)
    BY <2>2, AskForPaymentKeepsInv DEF AskForPayment
  <2> QED
    BY <2>1, <2>2
<1>4. FeesUnsaved(x) =
        [status |-> status, bags |-> written[x].bags, amount |-> written[x].amount]
  <2>1. filed[x] = Nil
    BY <1>1, NothingFiled
  <2>2. StatusWritten(x) = status
    <3>1. CASE pc[x] = "update"
      BY <2>1, <3>1 DEF StatusWritten, Completing
    <3>2. CASE pc[x] = "complete"
      BY <2>1, <3>2 DEF StatusWritten, Completing
    <3> QED
      BY <1>1, <3>1, <3>2
  <2> HIDE DEF status
  <2> QED
    BY <2>2 DEF FeesUnsaved
<1> HIDE DEF status
<1>5. FeesWritten' = [FeesWritten EXCEPT ![x] = FeesWritten[x]]
  BY <1>1, <1>2, <1>3, <1>4, FilingShows
<1>6. FeesWritten' = FeesWritten
  BY <1>5 DEF FeesWritten
<1>7. Fees!UpdateStatus(x)
  BY <1>1, <1>2, <1>3, <1>6, FilingShows DEF Fees!UpdateStatus, Fees!Goto
<1> QED
  BY <1>7 DEF SeenStep, Fees!Step

LEMMA RecordPaymentSeen ==
  ASSUME FeesInv, NEW x \in Sessions, RecordPayment(x)
  PROVE  SeenStep(x)
<1>1. FeesTypes /\ Position(x) /\ pc[x] = "gateway"
  BY DEF FeesInv, RecordPayment
<1>2. LeavesRest(x) /\ opened[x] # Nil
  BY <1>1, RecordPaymentKeepsInv DEF Position, Working
<1>3. PICK row \in CheckInRow : Files(x, row) /\ row.status = "IN_PROGRESS"
  BY RecordPaymentKeepsInv
<1> DEFINE settled == Fees!Settled(seen[x], Fees!Owing(seen[x]))
<1>4. written'[x] = [bags |-> settled, amount |-> written[x].amount]
  <2>1. written' = [written EXCEPT ![x] = [bags |-> settled, amount |-> written[x].amount]]
    BY DEF RecordPayment
  <2> QED
    BY <1>1, <2>1 DEF FeesTypes
<1>5. FeesSeen[x] = seen[x] /\ FeesWritten[x].amount = written[x].amount
  <2>1. FeesSeen[x] = seen[x] /\ FeesWritten[x] = FeesUnsaved(x)
    BY <1>1, <1>2, <1>3, FilingShows
  <2> QED
    BY <2>1 DEF FeesUnsaved
<1> DEFINE new == [status |-> "IN_PROGRESS", bags |-> settled,
                   amount |-> FeesWritten[x].amount]
<1>6. FeesWritten' = [FeesWritten EXCEPT ![x] = new]
  <2> HIDE DEF settled
  <2> QED
    BY <1>1, <1>2, <1>3, <1>4, <1>5, FilingShows
<1>7. /\ FeesAt[x] = "gateway" /\ FeesAt' = [FeesAt EXCEPT ![x] = "commit"]
      /\ UNCHANGED <<FeesStatus, bags, collected, FeesOpened, FeesSeen, FeesRequest>>
      /\ Fees!RowFree(x)
  BY <1>1, <1>2, <1>3, FilingShows
<1>8. new = [status |-> "IN_PROGRESS",
             bags   |-> Fees!Settled(FeesSeen[x], Fees!Owing(FeesSeen[x])),
             amount |-> FeesWritten[x].amount]
  BY <1>5
<1>9. Fees!RecordPayment(x)
  BY <1>6, <1>7, <1>8 DEF Fees!RecordPayment, Fees!Goto
<1> QED
  BY <1>9 DEF SeenStep, Fees!Step

LEMMA FileCheckInSeen ==
  ASSUME FeesInv, NEW x \in Sessions, FileCheckIn(x), UNCHANGED feeVars
  PROVE  SeenStep(x)
<1>1. FeesTypes /\ opened[x] = Nil
  BY DEF FeesInv, FileCheckIn, Position, Starting
<1>2. OthersKeep(x)
  BY <1>1 DEF FileCheckIn, Goto, OthersKeep, FeesTypes, feeVars
<1>3. UNCHANGED <<FeesStatus, bags, collected>> /\ ~ AtWork(x)'
  BY <1>1 DEF FileCheckIn, FeesStatus, AtWork, feeVars
<1> QED
  BY <1>2, <1>3, NoLongerAtWork


(* The new bag: its status is written now or with the UPDATE to come.      *)
LEMMA InsertBagSeen ==
  ASSUME FeesInv, NEW x \in Sessions, NEW b \in Bags, InsertsBag(x, b)
  PROVE  SeenStep(x)
<1>1. /\ FeesTypes /\ Position(x) /\ pc[x] = "add" /\ filed[x] = Nil /\ LeavesRest(x)
  BY NothingFiled, InsertBagKeepsInv DEF FeesInv, InsertsBag
<1>2. /\ opened[x] # Nil /\ ForTraveller(x) /\ written[x] = NothingWritten
  BY <1>1 DEF Position, Working
<1>3. /\ OnlyShows(x) /\ ShownAs(x) /\ ShownAs(x)'
      /\ UNCHANGED <<FeesStatus, bags, collected>>
  BY <1>1, StepShows
<1> DEFINE sent == Fees!FeeForBag(bags, weight[x]) > 0
                     /\ opened[x].status # "WAITING_FOR_PAYMENT"
           label == IF sent THEN "update" ELSE "commit"
           status == IF sent THEN "WAITING_FOR_PAYMENT" ELSE Nil
           new == [NoBags EXCEPT ![b] = NewBag(x)]
<1>4. label \in {"update", "commit"} /\ status = IF label = "update" THEN "WAITING_FOR_PAYMENT" ELSE Nil
  OBVIOUS
<1>5. pc' = [pc EXCEPT ![x] = label] /\ written' = [written EXCEPT ![x] = [bags |-> new, amount |-> 0]]
  BY DEF InsertsBag
<1> HIDE DEF sent, label, status, new
<1>6. /\ pc'[x] = label /\ written'[x] = [bags |-> new, amount |-> 0]
      /\ seen'[x] = bags /\ filed'[x] = Nil /\ opened'[x] = opened[x] /\ req'[x] = req[x]
      /\ weight'[x] = weight[x]
  BY <1>1, <1>5 DEF FeesTypes, InsertsBag
<1>7. AtWork(x) /\ AtWork(x)' /\ FeesPc(x) = "add" /\ FeesPc(x)' = label
  BY <1>1, <1>2, <1>4, <1>6 DEF AtWork, ForTraveller, FeesPc, Completing
<1>8. FeesUnsaved(x)' = [status |-> status, bags |-> new, amount |-> 0]
  <2>1. StatusWritten(x)' = status
    BY <1>4, <1>6 DEF StatusWritten, Completing
  <2> QED
    BY <1>6, <2>1 DEF FeesUnsaved
<1>9. /\ FeesAt[x] = "add" /\ FeesOpened[x] = opened[x].status /\ FeesRequest[x] = weight[x]
      /\ FeesAt' = [FeesAt EXCEPT ![x] = label]
      /\ UNCHANGED <<FeesOpened, FeesRequest>>
      /\ FeesSeen' = [FeesSeen EXCEPT ![x] = bags]
      /\ FeesWritten' = [FeesWritten EXCEPT ![x] =
           [status |-> status, bags |-> new, amount |-> 0]]
  <2>1. /\ FeesAt[x] = "add" /\ FeesOpened[x] = opened[x].status /\ FeesRequest[x] = weight[x]
        /\ FeesOpened'[x] = FeesOpened[x] /\ FeesRequest'[x] = FeesRequest[x]
        /\ FeesAt'[x] = label /\ FeesSeen'[x] = bags
        /\ FeesWritten'[x] = [status |-> status, bags |-> new, amount |-> 0]
    BY <1>3, <1>6, <1>7, <1>8 DEF ShownAs
  <2>2. UNCHANGED <<FeesOpened, FeesRequest>>
    BY <1>3, <2>1, PartsUnchanged
  <2> QED
    BY <1>3, <2>1, <2>2 DEF OnlyShows
<1>10. Fees!Fresh(b)
  <2>1. bags[b] = Nil /\ \A y \in Sessions : written[y].bags[b] = Nil
    BY DEF InsertsBag, Fresh
  <2>2. NoBags[b] = Nil
    BY DEF NoBags
  <2>3. ASSUME NEW y \in Sessions
        PROVE  FeesWritten[y].bags[b] = Nil
    <3>1. CASE AtWork(y)
      <4>1. FeesWritten[y] = FeesUnsaved(y)
        BY <3>1, Shown DEF ShownAs
      <4> QED
        BY <2>1, <4>1 DEF FeesUnsaved
    <3>2. CASE ~ AtWork(y)
      BY <2>2, <3>2, Shown DEF ShownAs, NothingUnsaved
    <3> QED
      BY <3>1, <3>2
  <2> QED
    BY <2>1, <2>3 DEF Fees!Fresh
<1>11. Fees!InsertBag(x, b)
  <2>1. new = [Fees!NoBags EXCEPT ![b] =
                 [weight_kg  |-> FeesRequest[x],
                  excess_fee |-> Fees!FeeForBag(bags, FeesRequest[x]),
                  fee_paid   |-> FALSE]]
    BY <1>9, SameNothing DEF new, NewBag
  <2>2. /\ label = IF Fees!FeeForBag(bags, FeesRequest[x]) > 0
                        /\ FeesOpened[x] # "WAITING_FOR_PAYMENT"
                   THEN "update" ELSE "commit"
        /\ status = IF Fees!FeeForBag(bags, FeesRequest[x]) > 0
                         /\ FeesOpened[x] # "WAITING_FOR_PAYMENT"
                    THEN "WAITING_FOR_PAYMENT" ELSE Nil
    BY <1>9 DEF label, status, sent
  <2> QED
    BY <1>3, <1>9, <1>10, <2>1, <2>2 DEF Fees!InsertBag, Fees!Goto
<1> QED
  BY <1>11 DEF SeenStep, Fees!Step

LEMMA InsertPaymentSeen ==
  ASSUME FeesInv, NEW x \in Sessions, InsertPayment(x)
  PROVE  SeenStep(x)
<1>1. /\ FeesTypes /\ Position(x) /\ pc[x] = "pay" /\ filed[x] = Nil /\ LeavesRest(x)
      /\ seen' = [seen EXCEPT ![x] = bags]
      /\ UNCHANGED <<req, opened, filed, weight>>
  BY NothingFiled, InsertPaymentKeepsInv DEF FeesInv, InsertPayment, checkInVars
<1>2. /\ opened[x] # Nil /\ ForTraveller(x) /\ written[x] = NothingWritten
  BY <1>1 DEF Position, Working
<1>3. /\ OnlyShows(x) /\ ShownAs(x) /\ ShownAs(x)' /\ OthersKeep(x)
      /\ UNCHANGED <<FeesStatus, bags, collected>>
  BY <1>1, StepShows DEF LeavesRest, OthersKeep
<1>4. CASE pc' = [pc EXCEPT ![x] = "abort"]
  <2>1. ~ AtWork(x)'
    BY <1>1, <1>4 DEF AtWork, FeesTypes
  <2> QED
    BY <1>3, <2>1, NoLongerAtWork
<1>5. CASE /\ Fees!Required(bags) > 0
           /\ written' = [written EXCEPT ![x].amount = Fees!Required(bags)]
           /\ pc' = [pc EXCEPT ![x] = "gateway"]
  <2> DEFINE asked == Fees!Required(bags)
  <2>1. asked > 0 /\ written' = [written EXCEPT ![x].amount = asked]
    BY <1>5
  <2> HIDE DEF asked
  <2>2. written'[x] = [NothingWritten EXCEPT !.amount = asked]
    BY <1>1, <1>2, <2>1 DEF FeesTypes
  <2>3. written'[x] = [bags |-> NoBags, amount |-> asked]
    BY <2>2 DEF NothingWritten
  <2>4. pc'[x] = "gateway" /\ seen'[x] = bags
    BY <1>1, <1>5 DEF FeesTypes
  <2>5. AtWork(x) /\ AtWork(x)' /\ FeesPc(x) = "pay" /\ FeesPc(x)' = "gateway"
    BY <1>1, <1>2, <2>4 DEF AtWork, ForTraveller, FeesPc, Completing
  <2>6. /\ FeesUnsaved(x) = NothingUnsaved
        /\ FeesUnsaved(x)' = [status |-> Nil, bags |-> NoBags, amount |-> asked]
    <3>1. StatusWritten(x) = Nil /\ StatusWritten(x)' = Nil
      BY <1>1, <2>4 DEF StatusWritten, Completing
    <3>2. written[x].bags = NoBags /\ written[x].amount = 0
      BY <1>2 DEF NothingWritten
    <3> QED
      BY <2>3, <3>1, <3>2 DEF FeesUnsaved, NothingUnsaved
  <2>7. /\ FeesAt[x] = "pay" /\ FeesAt'[x] = "gateway" /\ FeesSeen'[x] = bags
        /\ FeesOpened'[x] = FeesOpened[x] /\ FeesRequest'[x] = FeesRequest[x]
        /\ FeesWritten[x] = NothingUnsaved
        /\ FeesWritten'[x] = [status |-> Nil, bags |-> NoBags, amount |-> asked]
    BY <1>1, <1>3, <2>4, <2>5, <2>6 DEF ShownAs
  <2>8. FeesWritten'[x] = [FeesWritten[x] EXCEPT !.amount = asked]
    BY <2>7 DEF NothingUnsaved
  <2>9. FeesWritten' = [FeesWritten EXCEPT ![x].amount = asked]
    BY <1>3, <2>8 DEF OnlyShows
  <2>10. UNCHANGED <<FeesOpened, FeesRequest>>
    BY <1>3, <2>7, PartsUnchanged
  <2>11. /\ FeesAt' = [FeesAt EXCEPT ![x] = "gateway"]
         /\ FeesSeen' = [FeesSeen EXCEPT ![x] = bags]
    BY <1>3, <2>7 DEF OnlyShows
  <2>12. Fees!InsertPayment(x)
    BY <1>3, <2>1, <2>7, <2>9, <2>10, <2>11 DEF asked, Fees!InsertPayment, Fees!Goto
  <2> QED
    BY <2>12 DEF SeenStep, Fees!Step
<1> QED
  BY <1>4, <1>5 DEF InsertPayment, Goto


LEMMA EndsShows ==
  ASSUME FeesTypes, NEW x \in Sessions, Ends(x)
  PROVE  OthersKeep(x) /\ OnlyShows(x) /\ ShownAs(x) /\ ShownAs(x)' /\ ~ AtWork(x)'
<1>1. OthersKeep(x)
  BY DEF Ends, ForgetFees, OthersKeep, FeesTypes
<1>2. ~ AtWork(x)'
  BY DEF Ends, AtWork, FeesTypes
<1> QED
  BY <1>1, <1>2, OneShows, Shown

LEMMA CommitSeen ==
  ASSUME FeesInv, NEW x \in Sessions, CommitFees(x)
  PROVE  SeenStep(x)
<1>1. FeesTypes /\ Position(x) /\ FiledRow(x)
  BY DEF FeesInv
<1>2. pc[x] = "commit" /\ Ends(x)
  BY CommitFiles
<1>3. OthersKeep(x) /\ OnlyShows(x) /\ ShownAs(x) /\ ShownAs(x)' /\ ~ AtWork(x)'
  BY <1>1, <1>2, EndsShows
<1>4. /\ bags' = [b \in Bags |-> IF written[x].bags[b] = Nil THEN bags[b]
                                 ELSE written[x].bags[b]]
      /\ collected' = collected + written[x].amount
  BY DEF CommitFees
<1>5. FeesStatus' = IF filed[x] = Nil THEN FeesStatus ELSE filed[x].status
  <2>1. CASE filed[x] = Nil
    BY <2>1, CommitFiles DEF FeesStatus
  <2>2. CASE filed[x] # Nil
    <3>1. filed[x] \in CheckInRow
      BY <1>1, <2>2 DEF FeesTypes
    <3>2. checkin'[Traveller] = filed[x]
      BY <1>1, <2>2, Names, CommitFiles DEF FeesTypes
    <3> QED
      BY <2>2, <3>2 DEF FeesStatus
  <2> QED
    BY <2>1, <2>2
<1>6. CASE opened[x] = Nil
  <2>1. written[x] = NothingWritten
    BY <1>1, <1>6 DEF Position
  <2>2. bags' = bags
    <3>1. \A b \in Bags : written[x].bags[b] = Nil
      BY <2>1 DEF NothingWritten, NoBags
    <3>2. bags' = [b \in Bags |-> bags[b]]
      BY <1>4, <3>1
    <3>3. bags = [b \in Bags |-> bags[b]]
      BY <1>1 DEF FeesTypes, Rows
    <3> QED
      BY <3>2, <3>3
  <2>3. collected' = collected
    <3>1. written[x].amount = 0 /\ collected \in Nat
      BY <1>1, <2>1 DEF NothingWritten, FeesTypes
    <3> QED
      BY <1>4, <3>1
  <2>4. FeesStatus' = FeesStatus
    <3>1. CASE filed[x] # Nil
      BY <1>1, <1>5, <1>6, <3>1 DEF FiledRow, FeesStatus
    <3>2. CASE filed[x] = Nil
      BY <1>5, <3>2
    <3> QED
      BY <3>1, <3>2
  <2> QED
    BY <1>3, <2>2, <2>3, <2>4, NoLongerAtWork
<1>7. CASE opened[x] # Nil
  <2>1. AtWork(x)
    BY <1>1, <1>2, <1>7 DEF AtWork, Position, ForTraveller
  <2>2. FeesPc(x) = "commit"
    BY <1>2 DEF FeesPc, Completing
  <2>3. FeesAt[x] = "commit" /\ FeesWritten[x] = FeesUnsaved(x)
    BY <1>3, <2>1, <2>2 DEF ShownAs
  <2>4. StatusWritten(x) = IF filed[x] = Nil THEN Nil ELSE filed[x].status
    BY <1>2 DEF StatusWritten, Completing
  <2>5. /\ FeesWritten[x].status = IF filed[x] = Nil THEN Nil ELSE filed[x].status
        /\ FeesWritten[x].bags = written[x].bags
        /\ FeesWritten[x].amount = written[x].amount
    BY <2>3, <2>4 DEF FeesUnsaved
  <2>6. filed[x] # Nil => filed[x].status # Nil
    BY <1>1, FeesAssumption DEF FeesTypes, CheckInRow
  <2>7. FeesStatus' = IF FeesWritten[x].status = Nil THEN FeesStatus
                      ELSE FeesWritten[x].status
    BY <1>5, <2>5, <2>6
  <2>8. Fees!EndSession(x)
    BY <1>3, SameNothing DEF ShownAs, OnlyShows, Fees!EndSession, Fees!Goto
  <2>9. Fees!Commit(x)
    BY <1>4, <2>3, <2>5, <2>7, <2>8 DEF Fees!Commit
  <2> QED
    BY <2>9 DEF SeenStep, Fees!Step
<1> QED
  BY <1>6, <1>7

LEMMA AbandonSeen ==
  ASSUME FeesInv, NEW x \in Sessions, AbandonFees(x)
  PROVE  SeenStep(x)
<1>1. Ends(x) /\ UNCHANGED <<checkin, bags, collected>> /\ FeesTypes
  BY AbandonEnds DEF FeesInv
<1>2. UNCHANGED <<FeesStatus, bags, collected>>
  BY <1>1 DEF FeesStatus
<1> QED
  BY <1>1, <1>2, EndsShows, NoLongerAtWork

LEMMA RequestsSeen ==
  ASSUME FeesInv, NEW x \in Sessions,
         \/ \E w \in Weights : AddBaggage(x, w)
         \/ ProcessPayment(x)
         \/ OpenCheckIn(x, Traveller) /\ UNCHANGED feeVars
  PROVE  SeenStep(x)
<1>1. FeesTypes
  BY DEF FeesInv
<1>2. ASSUME NEW w \in Weights, AddBaggage(x, w)
      PROVE  SeenStep(x)
  <2> DEFINE label == IF checkin[Traveller].status \in {"IN_PROGRESS", "WAITING_FOR_PAYMENT"}
                      THEN "add" ELSE "abort"
  <2>1. Opens(x, label) /\ weight' = [weight EXCEPT ![x] = w]
    BY <1>1, <1>2, OpenForFeesOpens DEF AddBaggage
  <2>2. /\ label \in {"add", "abort"}
        /\ label = "add" => checkin[Traveller].status # "COMPLETED"
    OBVIOUS
  <2> HIDE DEF label
  <2> QED
    BY <2>1, <2>2, OpeningsSeen
<1>3. ASSUME ProcessPayment(x)
      PROVE  SeenStep(x)
  <2> DEFINE label == IF checkin[Traveller].status \in {"WAITING_FOR_PAYMENT"}
                      THEN "pay" ELSE "abort"
  <2>1. Opens(x, label) /\ weight' = weight
    BY <1>1, <1>3, OpenForFeesOpens DEF ProcessPayment, feeVars
  <2>2. /\ label \in {"pay", "abort"}
        /\ label = "pay" => checkin[Traveller].status = "WAITING_FOR_PAYMENT"
    OBVIOUS
  <2> HIDE DEF label
  <2> QED
    BY <2>1, <2>2, OpeningsSeen
<1>4. ASSUME OpenCheckIn(x, Traveller), UNCHANGED feeVars
      PROVE  SeenStep(x)
  <2> DEFINE label == IF checkin[Traveller].status = "IN_PROGRESS" THEN "seat" ELSE "abort"
  <2>1. Opens(x, label) /\ weight' = weight
    BY <1>1, <1>4, OpenCheckInOpens DEF feeVars
  <2>2. /\ label \in {"seat", "abort"}
        /\ label = "seat" => checkin[Traveller].status = "IN_PROGRESS"
    OBVIOUS
  <2> HIDE DEF label
  <2> QED
    BY <2>1, <2>2, OpeningsSeen
<1> QED
  BY <1>2, <1>3, <1>4

LEMMA StepsSeen ==
  ASSUME FeesInv, [FeesNext]_allVars
  PROVE  [Fees!Next]_Fees!vars
<1>1. ASSUME NEW x \in Sessions, SeenStep(x)
      PROVE  [Fees!Next]_Fees!vars
  BY <1>1 DEF SeenStep, Fees!Next
<1>2. ASSUME UNCHANGED <<pc, req, checkin, opened, filed, bags, collected,
                         weight, seen, written>>
      PROVE  UNCHANGED Fees!vars
  BY <1>2 DEF Fees!vars, FeesStatus, FeesAt, FeesOpened, FeesSeen, FeesRequest,
    FeesWritten, AtWork, FeesPc, Completing, FeesUnsaved, StatusWritten
<1>3. CASE UNCHANGED allVars
  BY <1>2, <1>3 DEF allVars
<1>4. CASE Tick /\ UNCHANGED <<checkInVars, feeVars>>
  BY <1>2, <1>4 DEF Tick, checkInVars, feeVars
<1>5. ASSUME NEW x \in Sessions, FeeStep(x)
      PROVE  SeenStep(x)
  <2>1. ASSUME NEW b \in Bags, InsertBag(x, b)
        PROVE  SeenStep(x)
    BY <2>1, InsertBagInserts, InsertBagSeen
  <2> QED
    BY <1>5, <2>1, RequestsSeen, UpdatesSeen, InsertPaymentSeen, RecordPaymentSeen
    DEF FeeStep
<1>6. ASSUME NEW x \in Sessions, OtherStep(x), UNCHANGED feeVars
      PROVE  SeenStep(x)
  <2>1. CASE MovesOf(x)
    BY <2>1, MovesOfMove, MovesSeen
  <2>2. CASE FileCheckIn(x)
    BY <1>6, <2>2, FileCheckInSeen
  <2>3. CASE OpenCheckIn(x, Traveller)
    BY <1>6, <2>3, RequestsSeen
  <2>4. CASE CompleteCheckIn(x)
    BY <1>6, <2>4, UpdatesSeen
  <2> QED
    BY <1>6, <2>1, <2>2, <2>3, <2>4 DEF OtherStep, CheckInOfTraveller, MovesOf
<1> QED
  BY <1>1, <1>3, <1>4, <1>5, <1>6, CommitSeen, AbandonSeen DEF FeesNext

LEMMA StartSeen == FeesInit => Fees!Init
<1> SUFFICES ASSUME FeesInit PROVE Fees!Init
  OBVIOUS
<1>1. \A x \in Sessions : ~ AtWork(x)
  BY DEF FeesInit, CheckInInit, AtWork
<1>2. FeesStatus = "IN_PROGRESS"
  BY Names DEF FeesInit, CheckInInit, FeesStatus
<1>3. bags = Fees!NoBags /\ collected = 0
  BY SameNothing DEF FeesInit
<1>4. /\ FeesAt = [x \in Sessions |-> "idle"]
      /\ FeesOpened = [x \in Sessions |-> Nil]
      /\ FeesRequest = [x \in Sessions |-> 0]
  BY <1>1 DEF FeesAt, FeesOpened, FeesRequest
<1>5. FeesSeen = [x \in Sessions |-> Fees!NoBags]
  BY <1>1, SameNothing DEF FeesSeen
<1>6. FeesWritten = [x \in Sessions |-> Fees!NothingUnsaved]
  BY <1>1, SameNothing DEF FeesWritten
<1> QED
  BY <1>2, <1>3, <1>4, <1>5, <1>6 DEF Fees!Init

(* Whatever the three services and the seats do, the status, the bags and  *)
(* the payments of the check-in change as in BaggagePayment.               *)
THEOREM FeesAreImplemented == FeesSpec => ImplementsFees
<1>1. FeesInv /\ [FeesNext]_allVars => [Fees!Next]_Fees!vars
  BY StepsSeen
<1> QED
  BY <1>1, StartSeen, FeesInvariant, PTL DEF FeesSpec, ImplementsFees, Fees!Spec


(***************************************************************************)
(* What is known of the fees by themselves holds in the whole system       *)
(***************************************************************************)
LEMMA SameSteps == Fees!Next => Money!Next
<1> USE SameFees DEF Money!Goto, Fees!Goto, Money!Open, Fees!Open,
      Money!RowFree, Fees!RowFree, Money!EndSession, Fees!EndSession,
      Money!NoBags, Fees!NoBags, Money!NothingUnsaved, Fees!NothingUnsaved,
      Money!CheckInStatuses, Fees!CheckInStatuses
<1>1. \A x, w : Fees!AddBaggage(x, w) => Money!AddBaggage(x, w)
  BY DEF Fees!AddBaggage, Money!AddBaggage
<1>2. \A x, b : Fees!InsertBag(x, b) => Money!InsertBag(x, b)
  BY DEF Fees!InsertBag, Money!InsertBag, Fees!Fresh, Money!Fresh
<1>3. \A x : Fees!UpdateStatus(x) => Money!UpdateStatus(x)
  BY DEF Fees!UpdateStatus, Money!UpdateStatus
<1>4. \A x : Fees!ProcessPayment(x) => Money!ProcessPayment(x)
  BY DEF Fees!ProcessPayment, Money!ProcessPayment
<1>5. \A x : Fees!InsertPayment(x) => Money!InsertPayment(x)
  BY DEF Fees!InsertPayment, Money!InsertPayment
<1>6. \A x : Fees!RecordPayment(x) => Money!RecordPayment(x)
  BY DEF Fees!RecordPayment, Money!RecordPayment, Fees!Settled, Money!Settled
<1>7. \A x : Fees!CompleteCheckIn(x) => Money!CompleteCheckIn(x)
  BY DEF Fees!CompleteCheckIn, Money!CompleteCheckIn
<1>8. \A x : Fees!Commit(x) => Money!Commit(x)
  BY DEF Fees!Commit, Money!Commit
<1>9. \A x : Fees!Abandon(x) => Money!Abandon(x)
  BY DEF Fees!Abandon, Money!Abandon
<1> QED
  BY <1>1, <1>2, <1>3, <1>4, <1>5, <1>6, <1>7, <1>8, <1>9
  DEF Fees!Next, Fees!Step, Money!Next, Money!Step

LEMMA SameStart == Fees!Init => Money!Init
  BY DEF Fees!Init, Money!Init, Money!NoBags, Fees!NoBags,
    Money!NothingUnsaved, Fees!NothingUnsaved

LEMMA SameFeesSpec == FeesSpec => Money!Spec
<1>1. [Fees!Next]_Fees!vars => [Money!Next]_Money!vars
  BY SameSteps DEF Fees!vars, Money!vars
<1> QED
  BY <1>1, SameStart, FeesAreImplemented, PTL DEF ImplementsFees, Fees!Spec, Money!Spec

(* Seats that run out, other passengers and three services at once do not  *)
(* change it: the traveller is never charged more than the excess, no bag  *)
(* is marked paid that was not, and whoever waits for a payment can pay.   *)
THEOREM FeesHoldInTheSystem ==
  FeesSpec =>
    [](Money!NeverOvercharged /\ Money!NothingIsFree /\ Money!NeverStuckWaiting)
<1>1. Money!Spec => []Money!NeverOvercharged
  BY MoneyAssumptions, Money!NobodyIsOvercharged
<1>2. Money!Spec => []Money!NothingIsFree
  BY MoneyAssumptions, Money!PaidBagsArePaidFor
<1>3. Money!Spec => []Money!NeverStuckWaiting
  BY MoneyAssumptions, Money!WaitingCanBePaid
<1> QED
  BY <1>1, <1>2, <1>3, SameFeesSpec, PTL
===============================================================================
