------------------------------- MODULE Dialog -------------------------------
(***************************************************************************)
(* The booking dialog of internal/telegram: the per-chat states of fsm.go, *)
(* and the handlers of handler.go as goroutines that run concurrently, one *)
(* action per access to something shared: the dialog store, the database   *)
(* or the Telegram server.  The database is BookingLedger, the atomic      *)
(* behaviour BookingTx implements.                                         *)
(*                                                                         *)
(* Any button may arrive in any chat at any time: Telegram keeps old       *)
(* messages with their buttons, and callback_data can be sent by hand.     *)
(* State.Day is written and never read, and is left out.  A handler that   *)
(* only reads and answers (My bookings, /day, the menu) changes nothing.   *)
(***************************************************************************)
EXTENDS Integers, FiniteSets

CONSTANTS
    Chats,       \* Telegram chats
    Users,       \* Telegram users
    Members,     \* who presses buttons where: pairs <<chat, user>>
    Admins,      \* cfg.AdminTgIDs
    Handlers,    \* goroutines the library starts for updates (a bound)
    Taps,        \* updates of one chat handled at a time (a bound)
    Services,    \* rows of services
    Slots,       \* rows of schedule_slots, with their columns:
    ServiceOf,   \*   service_id
    Start,       \*   slot_start
    End,         \*   slot_end
    DayLength,   \* instants in a day of the business time zone
    Horizon,     \* bookingHorizonDays
    MaxNow,      \* the clock stops here (a bound)
    BookingIds,  \* ids of bookings (a bound)
    Admin,       \* byTgID = 0 of CancelBooking
    None         \* not set

ASSUME DialogAssumption ==
    /\ Members \subseteq Chats \X Users
    /\ Admins \subseteq Users
    /\ Admin \notin Users
    /\ Taps \in Nat \ {0}
    /\ DayLength \in Nat \ {0}
    /\ Horizon \in Nat \ {0}
    /\ MaxNow \in Nat
    /\ ServiceOf \in [Slots -> Services]
    /\ Start \in [Slots -> Nat]
    /\ End \in [Slots -> Nat]
    /\ \A s \in Slots : Start[s] < End[s]
    /\ None \notin Services \union Slots \union Chats \union Users \union BookingIds

VARIABLES
    dialog,      \* Store.states: per chat, idle when the map has no entry
    bookings,    \* the ledger
    free,        \*
    now,         \* the clock h.now reads
    handler,     \* the goroutines with their local variables
    notices,     \* what a chat or a user has been told of bookings
    walked       \* history: steps a dialog took since it was last idle

storeVars  == <<dialog, walked>>
ledgerVars == <<bookings, free>>
vars == <<dialog, bookings, free, now, handler, notices, walked>>

Ledger == INSTANCE BookingLedger WITH Clients <- Users

ASSUME NoneIsNoRow == None \notin Ledger!Row

-----------------------------------------------------------------------------
(* fsm.go                                                                  *)

Steps == {"idle", "choosing_service", "choosing_day", "choosing_slot",
          "confirming"}

(* Mutant: a service may be followed by a slot, past the day.              *)
MutantTransitions ==
    [choosing_service |-> {"choosing_service", "choosing_day", "choosing_slot", "idle"},
     choosing_day     |-> {"choosing_service", "choosing_day", "choosing_slot", "idle"},
     choosing_slot    |-> Steps,
     confirming       |-> Steps \ {"confirming"},
     idle             |-> {"choosing_service"}]

allowedTransitions ==
    [idle             |-> {"choosing_service"},
     choosing_service |-> {"choosing_service", "choosing_day", "idle"},
     choosing_day     |-> {"choosing_service", "choosing_day", "choosing_slot", "idle"},
     choosing_slot    |-> {"choosing_service", "choosing_day", "choosing_slot",
                           "confirming", "idle"},
     confirming       |-> {"choosing_service", "choosing_day", "choosing_slot", "idle"}]

CanTransition(from, to) == to \in allowedTransitions[from]

State(step, svc, slot) == [step |-> step, svc |-> svc, slot |-> slot]

IdleState == State("idle", None, None)

(* Mutant: the step is written and the other fields are kept.              *)
MutantAdvance(c, next) ==
    IF CanTransition(dialog[c].step, next.step)
    THEN /\ dialog' = [dialog EXCEPT ![c].step = next.step]
         /\ walked' = [walked EXCEPT ![c] = @ \union {next.step}]
    ELSE UNCHANGED storeVars

(* Check and write under one mutex; a refused transition changes nothing.  *)
Advance(c, next) ==
    IF CanTransition(dialog[c].step, next.step)
    THEN /\ dialog' = [dialog EXCEPT ![c] = next]
         /\ walked' = [walked EXCEPT ![c] = @ \union {next.step}]
    ELSE UNCHANGED storeVars

Reset(c) ==
    /\ dialog' = [dialog EXCEPT ![c] = IdleState]
    /\ walked' = [walked EXCEPT ![c] = {}]

-----------------------------------------------------------------------------
(* What the queries of the storage answer.                                 *)

DayOf(instant) == instant \div DayLength

Today == DayOf(now)

Days == 0 .. (DayOf(MaxNow) + Horizon - 1)

FreeSlotsForDay(svc, day) ==
    {s \in free : ServiceOf[s] = svc /\ DayOf(Start[s]) = day /\ Start[s] > now}

UpcomingDays == Today .. (Today + Horizon - 1)

DaysWithFreeSlots(svc) == {d \in UpcomingDays : FreeSlotsForDay(svc, d) # {}}

(* Mutant: a booking leaves the list when its slot starts.                 *)
MutantActiveBookingsByClient(u) ==
    {b \in BookingIds : /\ Ledger!ActiveRow(b)
                        /\ bookings[b].client = u
                        /\ Start[bookings[b].slot] >= now}

ActiveBookingsByClient(u) ==
    {b \in BookingIds : /\ Ledger!ActiveRow(b)
                        /\ bookings[b].client = u
                        /\ End[bookings[b].slot] >= now}

-----------------------------------------------------------------------------
(* The goroutines                                                          *)

(* A goroutine with its local variables, before its first step.            *)
Job(pc, c, u, svc, day, slot, id) ==
    [pc |-> pc, chat |-> c, user |-> u, svc |-> svc, day |-> day, slot |-> slot,
     id |-> id, todo |-> {}, told |-> "nothing"]

(* A goroutine that is not running.                                        *)
Rest == Job("rest", None, None, None, None, None, None)

Notices == {"created", "cancelledByClient", "cancelledByAdmin"}

Labels == {"start", "services", "days", "advanceDay", "slots", "advanceSlot",
           "slot", "confirm", "create", "reset", "cancel", "adminCancel"}
             \union Notices

Goroutine == [pc : Labels \union {"rest"}, chat : Chats \union {None},
              user : Users \union {None}, svc : Services \union {None},
              day : Days \union {None}, slot : Slots \union {None},
              id : BookingIds \union {None}, todo : SUBSET (Chats \union Users),
              told : {"nothing", "taken"}]

At(h, pc) == handler[h].pc = pc

Goto(h, pc) == handler' = [handler EXCEPT ![h].pc = pc]

Finish(h) == handler' = [handler EXCEPT ![h] = Rest]

(* The messages and callbacks that change something, with the arguments    *)
(* the keyboards put into them.  The buttons "service" and "back to days"  *)
(* both call showDays.                                                     *)
Updates(c, u) ==
    {Job(pc, c, u, None, None, None, None) : pc \in {"start", "services"}}
      \union {Job("days", c, u, v, None, None, None) : v \in Services}
      \union {Job("slots", c, u, v, d, None, None) : v \in Services, d \in Days}
      \union {Job(pc, c, u, None, None, s, None) : s \in Slots, pc \in {"slot", "confirm"}}
      \union {Job(pc, c, u, None, None, None, b) :
                 b \in BookingIds, pc \in {"cancel", "adminCancel"}}

Busy(c) == {h \in Handlers : handler[h].chat = c}

(* handleUpdate in a goroutine of its own.                                 *)
Receive(h, c, u) ==
    /\ handler[h] = Rest
    /\ Cardinality(Busy(c)) < Taps
    /\ \E r \in Updates(c, u) : handler' = [handler EXCEPT ![h] = r]
    /\ UNCHANGED <<storeVars, ledgerVars, now, notices>>

(* /start                                                                  *)
OnStart(h) ==
    /\ At(h, "start")
    /\ Reset(handler[h].chat)
    /\ Finish(h)
    /\ UNCHANGED <<ledgerVars, now, notices>>

(* Every step may go back to the services, so the Reset and the second     *)
(* Advance of showServices are never reached.                              *)
ShowServices(h) ==
    /\ At(h, "services")
    /\ Advance(handler[h].chat, State("choosing_service", None, None))
    /\ Finish(h)
    /\ UNCHANGED <<ledgerVars, now, notices>>

(* Mutant: with no free day, back to the list of slots that was empty.     *)
MutantReadDays(h) ==
    /\ At(h, "days")
    /\ IF DaysWithFreeSlots(handler[h].svc) = {}
       THEN Goto(h, "slots")
       ELSE Goto(h, "advanceDay")
    /\ UNCHANGED <<storeVars, ledgerVars, now, notices>>

(* showDays: the query, then the transition.  A query that fails or finds  *)
(* no such row ends a handler in Refused.                                  *)
ReadDays(h) ==
    /\ At(h, "days")
    /\ IF DaysWithFreeSlots(handler[h].svc) = {}
       THEN Finish(h)
       ELSE Goto(h, "advanceDay")
    /\ UNCHANGED <<storeVars, ledgerVars, now, notices>>

AdvanceDay(h) ==
    /\ At(h, "advanceDay")
    /\ Advance(handler[h].chat, State("choosing_day", handler[h].svc, None))
    /\ Finish(h)
    /\ UNCHANGED <<ledgerVars, now, notices>>

(* onDayChosen: a day whose slots are gone leads back to the days.         *)
ReadSlots(h) ==
    /\ At(h, "slots")
    /\ IF FreeSlotsForDay(handler[h].svc, handler[h].day) = {}
       THEN Goto(h, "days")
       ELSE Goto(h, "advanceSlot")
    /\ UNCHANGED <<storeVars, ledgerVars, now, notices>>

AdvanceSlot(h) ==
    /\ At(h, "advanceSlot")
    /\ Advance(handler[h].chat, State("choosing_slot", handler[h].svc, None))
    /\ Finish(h)
    /\ UNCHANGED <<ledgerVars, now, notices>>

(* onSlotChosen looks up the slot, not whether it is free or has started.  *)
OnSlotChosen(h) ==
    LET s == handler[h].slot IN
    /\ At(h, "slot")
    /\ Advance(handler[h].chat, State("confirming", ServiceOf[s], s))
    /\ Finish(h)
    /\ UNCHANGED <<ledgerVars, now, notices>>

(* onConfirm up to CreateBooking: the state is read and let go.            *)
CheckConfirm(h) ==
    LET st == dialog[handler[h].chat] IN
    /\ At(h, "confirm")
    /\ IF st.step = "confirming" /\ st.slot = handler[h].slot
       THEN handler' = [handler EXCEPT ![h].pc = "create", ![h].svc = st.svc]
       ELSE Finish(h)
    /\ UNCHANGED <<storeVars, ledgerVars, now, notices>>

(* CreateBooking returned a booking, or its commit took effect and the     *)
(* reply was an error.                                                     *)
Booked(h) ==
    /\ At(h, "create")
    /\ \E b \in BookingIds :
          /\ Ledger!Book(b, handler[h].slot, handler[h].user)
          /\ \/ handler' = [handler EXCEPT ![h].pc = "reset", ![h].id = b]
             \/ Finish(h)
    /\ UNCHANGED <<storeVars, now, notices>>

(* Mutant: a lost race resets the dialog before the days are shown.        *)
MutantTaken(h) ==
    /\ At(h, "create")
    /\ handler[h].slot \notin free
    /\ Reset(handler[h].chat)
    /\ handler' = [handler EXCEPT ![h].pc = "days", ![h].told = "taken"]
    /\ UNCHANGED <<ledgerVars, now, notices>>

(* ErrSlotTaken: the state is kept and the days of the service are shown.  *)
Taken(h) ==
    /\ At(h, "create")
    /\ handler[h].slot \notin free
    /\ handler' = [handler EXCEPT ![h].pc = "days", ![h].told = "taken"]
    /\ UNCHANGED <<storeVars, ledgerVars, now, notices>>

(* The confirmation goes to the chat, the notice to the administrators but *)
(* for the user who acts (notifyAdmins).                                   *)
Audience(h) == {handler[h].chat} \union (Admins \ {handler[h].user})

(* The dialog the chat has by now is discarded.                            *)
ResetAfterBooking(h) ==
    /\ At(h, "reset")
    /\ Reset(handler[h].chat)
    /\ handler' = [handler EXCEPT ![h].pc = "created", ![h].todo = Audience(h)]
    /\ UNCHANGED <<ledgerVars, now, notices>>

(* onClientCancel: CancelBooking cancelled; refusals and errors end the    *)
(* handler in Refused.                                                     *)
OnClientCancel(h) ==
    /\ At(h, "cancel")
    /\ Ledger!Cancel(handler[h].id, handler[h].user)
    /\ \/ handler' = [handler EXCEPT ![h].pc = "cancelledByClient",
                                     ![h].todo = Audience(h)]
       \/ Finish(h)
    /\ UNCHANGED <<storeVars, now, notices>>

(* Mutant: the button is trusted to be in an administrator's chat.         *)
MutantAdminCancel(h) ==
    LET b == handler[h].id IN
    /\ At(h, "adminCancel")
    /\ Ledger!Cancel(b, Admin)
    /\ \/ handler' = [handler EXCEPT ![h].pc = "cancelledByAdmin",
                                     ![h].todo = {handler[h].chat, bookings[b].client}]
       \/ Finish(h)
    /\ UNCHANGED <<storeVars, now, notices>>

(* onAdminCancel: the chat and the owner are told.                         *)
OnAdminCancel(h) ==
    LET b == handler[h].id IN
    /\ At(h, "adminCancel")
    /\ handler[h].user \in Admins
    /\ Ledger!Cancel(b, Admin)
    /\ \/ handler' = [handler EXCEPT ![h].pc = "cancelledByAdmin",
                                     ![h].todo = {handler[h].chat, bookings[b].client}]
       \/ Finish(h)
    /\ UNCHANGED <<storeVars, now, notices>>

(* Mutant: an error of CreateBooking is announced as a booking.            *)
MutantRefused(h) ==
    /\ handler[h].pc \in {"create", "cancel", "adminCancel"}
    /\ \E b \in BookingIds :
          handler' = [handler EXCEPT ![h].pc = "created", ![h].id = b,
                                     ![h].todo = Audience(h)]
    /\ UNCHANGED <<storeVars, ledgerVars, now, notices>>

(* The storage refused, failed or found nothing, or the user is no         *)
(* administrator: at most an answer to the chat, and nothing else.         *)
Refused(h) ==
    /\ handler[h].pc \in {"services", "days", "slots", "slot",
                          "create", "cancel", "adminCancel"}
    /\ Finish(h)
    /\ UNCHANGED <<storeVars, ledgerVars, now, notices>>

(* The confirmation to the chat, then notifyAdmins or the message to the   *)
(* client of a cancelled booking: one send at a time, and a send that      *)
(* fails is only logged.                                                   *)
Notify(h) ==
    /\ handler[h].pc \in Notices
    /\ \E u \in handler[h].todo :
          /\ handler[h].chat \in handler[h].todo => u = handler[h].chat
          /\ handler' = [handler EXCEPT ![h].todo = @ \ {u}]
          /\ \/ notices' = notices \union
                    {[kind |-> handler[h].pc, id |-> handler[h].id]}
             \/ UNCHANGED notices
    /\ UNCHANGED <<storeVars, ledgerVars, now>>

Notified(h) ==
    /\ handler[h].pc \in Notices
    /\ handler[h].todo = {}
    /\ Finish(h)
    /\ UNCHANGED <<storeVars, ledgerVars, now, notices>>

(* The process dies and is started again: dialogs and handlers are gone,   *)
(* the database and what was sent are not.                                 *)
Restart ==
    /\ dialog' = [c \in Chats |-> IdleState]
    /\ walked' = [c \in Chats |-> {}]
    /\ handler' = [h \in Handlers |-> Rest]
    /\ UNCHANGED <<ledgerVars, now, notices>>

Tick ==
    /\ now < MaxNow
    /\ now' = now + 1
    /\ UNCHANGED <<storeVars, ledgerVars, handler, notices>>

-----------------------------------------------------------------------------
Init ==
    /\ dialog = [c \in Chats |-> IdleState]
    /\ walked = [c \in Chats |-> {}]
    /\ Ledger!Init
    /\ now = 0
    /\ handler = [h \in Handlers |-> Rest]
    /\ notices = {}

(* What a running goroutine does next.                                     *)
Run(h) ==
    \/ OnStart(h)
    \/ ShowServices(h)
    \/ ReadDays(h)
    \/ AdvanceDay(h)
    \/ ReadSlots(h)
    \/ AdvanceSlot(h)
    \/ OnSlotChosen(h)
    \/ CheckConfirm(h)
    \/ Booked(h)
    \/ Taken(h)
    \/ ResetAfterBooking(h)
    \/ OnClientCancel(h)
    \/ OnAdminCancel(h)
    \/ Refused(h)
    \/ Notify(h)
    \/ Notified(h)

Next ==
    \/ \E h \in Handlers, m \in Members : Receive(h, m[1], m[2])
    \/ \E h \in Handlers : Run(h)
    \/ Restart
    \/ Tick

Spec == Init /\ [][Next]_vars

(* The Go scheduler runs every goroutine, and the database and Telegram    *)
(* answer or fail; nobody has to press a button.                           *)
FairSpec == Spec /\ \A h \in Handlers : WF_vars(Run(h))

-----------------------------------------------------------------------------
(* State has the fields its step needs, and no field of an earlier dialog  *)
(* or of a later step is left in it.                                       *)
StateOK(st) ==
    /\ st.step \in Steps
    /\ st.svc \in IF st.step \in {"idle", "choosing_service"} THEN {None} ELSE Services
    /\ st.slot \in IF st.step = "confirming" THEN Slots ELSE {None}

TypeOK ==
    /\ \A c \in Chats : StateOK(dialog[c])
    /\ DOMAIN dialog = Chats
    /\ walked \in [Chats -> SUBSET Steps]
    /\ bookings \in [BookingIds -> Ledger!Row \union {None}]
    /\ free \subseteq Slots
    /\ now \in 0 .. MaxNow
    /\ handler \in [Handlers -> Goroutine]
    /\ notices \subseteq [kind : Notices, id : BookingIds]

(* No button, however old, takes a dialog past a step: at a confirmation   *)
(* a service, a day and a slot were chosen in this dialog, whatever other  *)
(* goroutines of the chat did (the comment of allowedTransitions).         *)
StepsBefore ==
    [idle             |-> {},
     choosing_service |-> {},
     choosing_day     |-> {"choosing_service"},
     choosing_slot    |-> {"choosing_service", "choosing_day"},
     confirming       |-> {"choosing_service", "choosing_day", "choosing_slot"}]

NoSkippedStep ==
    \A c \in Chats : StepsBefore[dialog[c].step] \subseteq walked[c]

(* A booking is cancelled by the user it belongs to or by an               *)
(* administrator, never by another user who sends the same callback.       *)
CancelIsAuthorised ==
    [][\A b \in BookingIds :
          Ledger!ActiveRow(b) /\ bookings'[b].status = "cancelled" =>
            \E h \in Handlers :
                /\ handler[h].id = b
                /\ handler[h].user \in Admins \union {bookings[b].client}]_vars

(* What a chat, an administrator or a client is told of a booking is       *)
(* committed: no confirmation or notice of a booking that is not in the    *)
(* database or of a cancellation that did not take effect, across crashes  *)
(* and failed commits.                                                     *)
NoticesAreTrue ==
    \A n \in notices :
        /\ bookings[n.id] # None
        /\ n.kind # "created" => bookings[n.id].status = "cancelled"

(* A slot that has not ended is free, or it is in the list "My bookings"   *)
(* of the user who can give it back: none is out of everybody's reach (the *)
(* comment of ActiveBookingsByClient).                                     *)
NoSlotIsLost ==
    \A s \in Slots : End[s] >= now =>
        \/ s \in free
        \/ \E u \in Users : \E b \in ActiveBookingsByClient(u) : bookings[b].slot = s

(* A client told that the slot was taken is led back to the days: the      *)
(* dialog was not reset, and may go to choosing_day (comment of onConfirm). *)
LoserStaysInDialog ==
    \A h \in Handlers : handler[h].told = "taken" =>
        CanTransition(dialog[handler[h].chat].step, "choosing_day")

(* The Reset after a booking ends the dialog the booking was confirmed in, *)
(* and none the client has begun since the state was checked: between the  *)
(* check and the write no other goroutine of the chat comes in, as         *)
(* docs/DECISIONS.md:48 has it for the dialogs of the store.               *)
ResetEndsOwnDialog ==
    [][\A h \in Handlers : At(h, "reset") /\ handler'[h].pc = "created" =>
          dialog[handler[h].chat] \in
              {IdleState, State("confirming", ServiceOf[handler[h].slot], handler[h].slot)}]_vars

(* Every goroutine comes to an end, so a handler answers and shutdown's    *)
(* Wait returns.                                                           *)
HandlersFinish == \A h \in Handlers : ~At(h, "rest") ~> At(h, "rest")
=============================================================================
