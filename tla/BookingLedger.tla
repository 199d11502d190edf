--------------------------- MODULE BookingLedger ---------------------------
(***************************************************************************)
(* What the storage promises of bookings: the abstract specification of    *)
(* CreateBooking and CancelBooking of internal/storage/bookings.go.  Each  *)
(* successful call is one indivisible step that changes the slot and the   *)
(* booking together; a call that is refused or fails changes nothing, and  *)
(* is a stuttering step here.                                              *)
(*                                                                         *)
(* BookingTx refines this module statement by statement; Dialog composes   *)
(* the telegram handlers with it.                                          *)
(***************************************************************************)

CONSTANTS
    Slots,       \* rows of schedule_slots
    Clients,     \* Telegram users who book
    Admin,       \* byTgID = 0: the canceller is not checked for ownership
    BookingIds,  \* ids the BIGSERIAL of bookings can hand out
    None         \* no row

VARIABLES
    bookings,    \* table bookings: id -> row, None while the id is not used
    free         \* slots with is_booked = FALSE

ledgerVars == <<bookings, free>>

Row == [slot : Slots, client : Clients, status : {"active", "cancelled"}]

ActiveRow(b) == bookings[b] # None /\ bookings[b].status = "active"

(* CreateBooking returned a booking: the slot was free and is taken now.   *)
Book(b, s, c) ==
    /\ bookings[b] = None
    /\ s \in free
    /\ bookings' = [bookings EXCEPT
                      ![b] = [slot |-> s, client |-> c, status |-> "active"]]
    /\ free' = free \ {s}

(* CancelBooking returned a booking: it was active, it belonged to the     *)
(* caller unless an administrator calls, and its slot is free now.         *)
Cancel(b, by) ==
    /\ ActiveRow(b)
    /\ by \in {bookings[b].client, Admin}
    /\ bookings' = [bookings EXCEPT ![b].status = "cancelled"]
    /\ free' = free \union {bookings[b].slot}

Init ==
    /\ bookings = [b \in BookingIds |-> None]
    /\ free = Slots

Next ==
    \/ \E b \in BookingIds, s \in Slots, c \in Clients : Book(b, s, c)
    \/ \E b \in BookingIds, by \in Clients \union {Admin} : Cancel(b, by)

Spec == Init /\ [][Next]_ledgerVars
=============================================================================
