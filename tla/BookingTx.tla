----------------------------- MODULE BookingTx -----------------------------
(***************************************************************************)
(* CreateBooking and CancelBooking of internal/storage/bookings.go as the  *)
(* PostgreSQL transactions they are, one action per SQL statement, run by  *)
(* concurrent goroutines of one or more bot processes.                     *)
(*                                                                         *)
(* The database is modelled as the code uses it: READ COMMITTED, so a      *)
(* statement reads committed rows; an UPDATE or SELECT ... FOR UPDATE of a *)
(* row waits for the transaction that holds its lock and then evaluates    *)
(* its WHERE clause on the newest committed row; locks are held to the end *)
(* of the transaction.  `isBooked' and `bookings' hold the committed rows; *)
(* what a transaction has written and not committed follows from its pc.   *)
(***************************************************************************)
EXTENDS Naturals, FiniteSets

CONSTANTS
    Calls,       \* goroutines that call the storage
    Slots,       \* rows of schedule_slots
    Clients,     \* Telegram ids of clients
    Admin,       \* byTgID = 0
    BookingIds,  \* ids the BIGSERIAL of bookings can hand out (a bound)
    None         \* no row, no lock holder, no argument

Row == [slot : Slots, client : Clients, status : {"active", "cancelled"}]

ASSUME AdminAssumption == Admin \notin Clients

ASSUME NoneAssumption ==
    None \notin Calls \union Slots \union Clients \union {Admin}
                      \union BookingIds \union Row

VARIABLES
    isBooked,    \* schedule_slots.is_booked, committed
    bookings,    \* table bookings, committed; None where there is no row
    drawn,       \* ids the sequence has handed out, never given back
    slotLock,    \* the call that holds the lock of a schedule_slots row
    rowLock,     \* the call that holds the lock of a bookings row
    call         \* per goroutine: where it is and its local variables

vars == <<isBooked, bookings, drawn, slotLock, rowLock, call>>

(* The statement a call executes next; its last answer while it is not in  *)
(* the storage.                                                            *)
CreatePcs == {"claim", "insert", "commitCreate"}
CancelPcs == {"select", "mark", "free", "commitCancel"}
Answers   == {"idle", "booked", "taken", "cancelled", "notFound", "notOwner",
              "notCancelable", "error"}

Call == [pc   : CreatePcs \union CancelPcs \union Answers,
         slot : Slots \union {None},
         by   : Clients \union {Admin, None},
         id   : BookingIds \union {None}]

ActiveRow(b) == bookings[b] # None /\ bookings[b].status = "active"

At(t, pc) == call[t].pc = pc

Running(t) == call[t].pc \in CreatePcs \union CancelPcs

Goto(t, pc) == call' = [call EXCEPT ![t].pc = pc]

(* The call returns with an answer and forgets its local variables.        *)
Return(t, answer) ==
    call' = [call EXCEPT ![t] = [pc |-> answer, slot |-> None,
                                 by |-> None, id |-> None]]

(* Commit and rollback release every lock of the transaction.              *)
ReleaseLocks(t) ==
    /\ slotLock' = [s \in Slots |-> IF slotLock[s] = t THEN None ELSE slotLock[s]]
    /\ rowLock' = [b \in BookingIds |-> IF rowLock[b] = t THEN None ELSE rowLock[b]]

Init ==
    /\ isBooked = [s \in Slots |-> FALSE]
    /\ bookings = [b \in BookingIds |-> None]
    /\ drawn = {}
    /\ slotLock = [s \in Slots |-> None]
    /\ rowLock = [b \in BookingIds |-> None]
    /\ call = [t \in Calls |-> [pc |-> "idle", slot |-> None,
                                by |-> None, id |-> None]]

-----------------------------------------------------------------------------
(* CreateBooking(slotID, clientTgID)                                       *)

(* Bound: a call starts only while the finite BookingIds leave an id for   *)
(* it; the BIGSERIAL of the schema has no such limit.                      *)
IdsRemain ==
    Cardinality({t \in Calls : call[t].pc \in {"claim", "insert"}})
        < Cardinality(BookingIds \ drawn)

BeginCreate(t, s, c) ==
    /\ ~Running(t)
    /\ IdsRemain
    /\ call' = [call EXCEPT ![t] = [pc |-> "claim", slot |-> s,
                                    by |-> c, id |-> None]]
    /\ UNCHANGED <<isBooked, bookings, drawn, slotLock, rowLock>>

(* Mutant: the UPDATE without its condition on is_booked.                  *)
MutantClaimAnySlot(t) ==
    LET s == call[t].slot IN
    /\ At(t, "claim")
    /\ slotLock[s] = None
    /\ slotLock' = [slotLock EXCEPT ![s] = t]
    /\ Goto(t, "insert")
    /\ UNCHANGED <<isBooked, bookings, drawn, rowLock>>

(* Mutant: the row is locked over one connection and then waited for over  *)
(* another (the pool in the place of the transaction).                     *)
MutantClaimTwice(t) ==
    LET s == call[t].slot IN
    /\ At(t, "claim")
    /\ ~isBooked[s]
    /\ slotLock[s] = None
    /\ slotLock' = [slotLock EXCEPT ![s] = t]
    /\ UNCHANGED <<call, isBooked, bookings, drawn, rowLock>>

(* UPDATE schedule_slots SET is_booked = TRUE WHERE id AND NOT is_booked,  *)
(* one row affected.                                                       *)
ClaimSlot(t) ==
    LET s == call[t].slot IN
    /\ At(t, "claim")
    /\ ~isBooked[s]
    /\ slotLock[s] = None
    /\ slotLock' = [slotLock EXCEPT ![s] = t]
    /\ Goto(t, "insert")
    /\ UNCHANGED <<isBooked, bookings, drawn, rowLock>>

(* Mutant: the UPDATE skips a row that is locked (FOR UPDATE SKIP LOCKED). *)
MutantSkipLocked(t) ==
    /\ At(t, "claim")
    /\ isBooked[call[t].slot] \/ slotLock[call[t].slot] # None
    /\ Return(t, "taken")
    /\ UNCHANGED <<isBooked, bookings, drawn, slotLock, rowLock>>

(* The same statement, no row affected: ErrSlotTaken.  A row that is       *)
(* committed as booked does not match, so its lock is not waited for.      *)
RefuseTaken(t) ==
    /\ At(t, "claim")
    /\ isBooked[call[t].slot]
    /\ Return(t, "taken")
    /\ UNCHANGED <<isBooked, bookings, drawn, slotLock, rowLock>>

(* Another transaction whose uncommitted write of an active booking on s   *)
(* makes a check of uniq_active_booking wait for its end.                  *)
IndexBusy(t, s) ==
    \E u \in Calls \ {t} : /\ call[u].pc \in {"commitCreate", "free", "commitCancel"}
                           /\ call[u].slot = s

IndexConflict(s) ==
    \E b \in BookingIds : ActiveRow(b) /\ bookings[b].slot = s

(* INSERT INTO bookings, with uniq_active_booking checked; a conflict is   *)
(* an error of the statement, as in Fail.                                  *)
InsertRow(t) ==
    LET s == call[t].slot IN
    /\ At(t, "insert")
    /\ ~IndexBusy(t, s)
    /\ ~IndexConflict(s)
    /\ \E b \in BookingIds \ drawn :
          /\ drawn' = drawn \union {b}
          /\ call' = [call EXCEPT ![t].pc = "commitCreate", ![t].id = b]
    /\ UNCHANGED <<isBooked, bookings, slotLock, rowLock>>

(* COMMIT: both writes become visible.  The reply may be lost after the    *)
(* commit took effect: the caller then gets an error for a booking that    *)
(* exists.                                                                 *)
CommitCreate(t) ==
    LET s == call[t].slot IN
    /\ At(t, "commitCreate")
    /\ isBooked' = [isBooked EXCEPT ![s] = TRUE]
    /\ bookings' = [bookings EXCEPT ![call[t].id] =
                      [slot |-> s, client |-> call[t].by, status |-> "active"]]
    /\ ReleaseLocks(t)
    /\ \E answer \in {"booked", "error"} : Return(t, answer)
    /\ UNCHANGED drawn

-----------------------------------------------------------------------------
(* CancelBooking(bookingID, byTgID); bookingID comes from a button, which  *)
(* may name any booking, present or not.                                   *)

BeginCancel(t, b, by) ==
    /\ ~Running(t)
    /\ call' = [call EXCEPT ![t] = [pc |-> "select", slot |-> None,
                                    by |-> by, id |-> b]]
    /\ UNCHANGED <<isBooked, bookings, drawn, slotLock, rowLock>>

(* May this caller cancel this booking?                                    *)
Permitted(b, by) == by \in {Admin, bookings[b].client}

(* Mutant: the SELECT without FOR UPDATE.                                  *)
MutantSelectUnlocked(t) ==
    LET b == call[t].id IN
    /\ At(t, "select")
    /\ bookings[b] # None
    /\ Permitted(b, call[t].by)
    /\ ActiveRow(b)
    /\ call' = [call EXCEPT ![t] = [pc |-> "mark", slot |-> bookings[b].slot,
                                    by |-> @.by, id |-> b]]
    /\ UNCHANGED <<isBooked, bookings, drawn, slotLock, rowLock>>

(* SELECT ... FOR UPDATE finds the row and both checks pass.               *)
SelectForUpdate(t) ==
    LET b == call[t].id IN
    /\ At(t, "select")
    /\ bookings[b] # None
    /\ rowLock[b] = None
    /\ Permitted(b, call[t].by)
    /\ ActiveRow(b)
    /\ rowLock' = [rowLock EXCEPT ![b] = t]
    /\ call' = [call EXCEPT ![t] = [pc |-> "mark", slot |-> bookings[b].slot,
                                    by |-> @.by, id |-> b]]
    /\ UNCHANGED <<isBooked, bookings, drawn, slotLock>>

(* The three refusals, in the order of the code.                           *)
Refusal(b, by) ==
    IF bookings[b] = None THEN "notFound"
    ELSE IF ~Permitted(b, by) THEN "notOwner"
    ELSE IF ~ActiveRow(b) THEN "notCancelable" ELSE "none"

(* Mutant: the error of the SELECT path is returned without being set.     *)
MutantRefuseAlways(t) ==
    /\ At(t, "select")
    /\ Return(t, Refusal(call[t].id, call[t].by))
    /\ UNCHANGED <<isBooked, bookings, drawn, slotLock, rowLock>>

(* SELECT ... FOR UPDATE and an early return; the deferred rollback        *)
(* releases the lock the SELECT took.  A row that is there is waited for.  *)
RefuseCancel(t) ==
    LET b == call[t].id IN
    /\ At(t, "select")
    /\ bookings[b] # None => rowLock[b] = None
    /\ Refusal(b, call[t].by) # "none"
    /\ Return(t, Refusal(b, call[t].by))
    /\ UNCHANGED <<isBooked, bookings, drawn, slotLock, rowLock>>

(* UPDATE bookings SET status = 'cancelled'; the row is locked already.    *)
MarkCancelled(t) ==
    /\ At(t, "mark")
    /\ Goto(t, "free")
    /\ UNCHANGED <<isBooked, bookings, drawn, slotLock, rowLock>>

(* UPDATE schedule_slots SET is_booked = FALSE WHERE id, whatever it was.  *)
FreeSlot(t) ==
    LET s == call[t].slot IN
    /\ At(t, "free")
    /\ slotLock[s] = None
    /\ slotLock' = [slotLock EXCEPT ![s] = t]
    /\ Goto(t, "commitCancel")
    /\ UNCHANGED <<isBooked, bookings, drawn, rowLock>>

(* Mutant: the booking is cancelled and its slot is not freed.             *)
MutantKeepSlot(t) ==
    /\ At(t, "commitCancel")
    /\ bookings' = [bookings EXCEPT ![call[t].id].status = "cancelled"]
    /\ ReleaseLocks(t)
    /\ \E answer \in {"cancelled", "error"} : Return(t, answer)
    /\ UNCHANGED <<isBooked, drawn>>

CommitCancel(t) ==
    /\ At(t, "commitCancel")
    /\ isBooked' = [isBooked EXCEPT ![call[t].slot] = FALSE]
    /\ bookings' = [bookings EXCEPT ![call[t].id].status = "cancelled"]
    /\ ReleaseLocks(t)
    /\ \E answer \in {"cancelled", "error"} : Return(t, answer)
    /\ UNCHANGED drawn

-----------------------------------------------------------------------------
(* Any statement may fail: an error of the database, a cancelled context,  *)
(* a lost connection, the end of the process.  The transaction is rolled   *)
(* back (rollback in admins.go, or the server's when the connection is     *)
(* gone) and its locks are released; an id drawn stays drawn.              *)
Fail(t) ==
    /\ Running(t)
    /\ ReleaseLocks(t)
    /\ Return(t, "error")
    /\ UNCHANGED <<isBooked, bookings, drawn>>

(* One statement of a call that runs.                                      *)
Step(t) ==
    \/ ClaimSlot(t)
    \/ RefuseTaken(t)
    \/ InsertRow(t)
    \/ CommitCreate(t)
    \/ SelectForUpdate(t)
    \/ RefuseCancel(t)
    \/ MarkCancelled(t)
    \/ FreeSlot(t)
    \/ CommitCancel(t)

Begin(t) ==
    \/ \E s \in Slots, c \in Clients : BeginCreate(t, s, c)
    \/ \E b \in BookingIds, by \in Clients \union {Admin} : BeginCancel(t, b, by)

Next == \E t \in Calls : Begin(t) \/ Step(t) \/ Fail(t)

Spec == Init /\ [][Next]_vars

(* The server grants row locks in the order they were asked for, so a      *)
(* statement that can proceed again and again is executed: strong fairness *)
(* per call.  Nothing obliges a call to begin or to fail.                  *)
FairSpec == Spec /\ \A t \in Calls : SF_vars(Step(t))

-----------------------------------------------------------------------------
TypeOK ==
    /\ isBooked \in [Slots -> BOOLEAN]
    /\ bookings \in [BookingIds -> Row \union {None}]
    /\ drawn \in SUBSET BookingIds
    /\ slotLock \in [Slots -> Calls \union {None}]
    /\ rowLock \in [BookingIds -> Calls \union {None}]
    /\ call \in [Calls -> Call]

(* A slot is marked booked exactly when an active booking holds it, and    *)
(* there is never a second one: no double booking, no slot that is lost    *)
(* ("booked" for ever with its booking cancelled) and no free slot with an *)
(* active booking (the comment of CancelBooking).                          *)
SlotMatchesBookings ==
    /\ \A s \in Slots : isBooked[s] <=> IndexConflict(s)
    /\ \A a, b \in BookingIds :
          ActiveRow(a) /\ ActiveRow(b) /\ bookings[a].slot = bookings[b].slot
              => a = b

(* The conditional UPDATE of CreateBooking alone decides who gets a slot:  *)
(* an INSERT never meets uniq_active_booking, not even in a transaction    *)
(* that is still open, so no client sees its error for a lost race.        *)
IndexNeverFires ==
    \A t \in Calls : At(t, "insert") =>
        ~IndexConflict(call[t].slot) /\ ~IndexBusy(t, call[t].slot)

(* Call t cannot go on before call u ends its transaction.                 *)
WaitsFor(t, u) ==
    \/ At(t, "claim") /\ ~isBooked[call[t].slot] /\ slotLock[call[t].slot] = u
    \/ At(t, "free") /\ slotLock[call[t].slot] = u
    \/ /\ At(t, "insert")
       /\ call[u].pc \in {"commitCreate", "free", "commitCancel"}
       /\ call[u].slot = call[t].slot
    \/ At(t, "select") /\ bookings[call[t].id] # None /\ rowLock[call[t].id] = u

(* CreateBooking locks slot then booking, CancelBooking booking then slot: *)
(* the opposite order.  Still no set of calls waits only for each other.   *)
NoDeadlock ==
    \A D \in (SUBSET Calls) \ {{}} : \E t \in D : \A u \in D : ~WaitsFor(t, u)

(* ErrSlotTaken is never a false alarm: at that moment another booking     *)
(* really holds the slot, however its own transaction came to commit.      *)
RefusalIsTruthful ==
    [][\A t \in Calls : At(t, "claim") /\ call'[t].pc = "taken"
          => IndexConflict(call[t].slot)]_vars

(* Seen from outside, every call is one atomic step of the ledger: the     *)
(* statements of a transaction take effect together at its commit or not   *)
(* at all, rows are never deleted, rewritten or made active again, and     *)
(* only the owner or an administrator cancels.                             *)
Ledger == INSTANCE BookingLedger WITH free <- {s \in Slots : ~isBooked[s]}

ImplementsLedger == Ledger!Spec

(* Every call that began returns, even when it has to wait for locks.      *)
CallsTerminate == \A t \in Calls : Running(t) ~> ~Running(t)
=============================================================================
