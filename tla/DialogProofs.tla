---------------------------- MODULE DialogProofs ----------------------------
(***************************************************************************)
(* Theorems about Dialog, for any chats, users, services, slots and their  *)
(* times, and any number of goroutines per chat.                           *)
(***************************************************************************)
EXTENDS Dialog, FiniteSetTheorems, TLAPS

-----------------------------------------------------------------------------
(* The dialog store                                                        *)

(* A dialog that is not idle has taken the step it is in.                  *)
StoreInv ==
    /\ DOMAIN dialog = Chats
    /\ \A c \in Chats : StateOK(dialog[c])
    /\ walked \in [Chats -> SUBSET Steps]
    /\ \A c \in Chats : StepsBefore[dialog[c].step] \union ({dialog[c].step} \ {"idle"})
                           \subseteq walked[c]

(* A step is only ever taken from one that has its steps before it.        *)
LEMMA TransitionKeepsOrder ==
  ASSUME NEW from \in Steps, NEW to \in Steps \ {"idle"}, CanTransition(from, to)
  PROVE  StepsBefore[to] \subseteq StepsBefore[from] \union ({from} \ {"idle"}) \union {to}
  BY DEF Steps, CanTransition, allowedTransitions, StepsBefore

LEMMA AdvanceKeepsStore ==
  ASSUME StoreInv, NEW c \in Chats, NEW next, StateOK(next), next.step # "idle",
         Advance(c, next)
  PROVE  StoreInv'
<1>1. CASE ~CanTransition(dialog[c].step, next.step)
  BY <1>1 DEF Advance, StoreInv, storeVars, StateOK
<1>2. CASE CanTransition(dialog[c].step, next.step)
  <2>1. /\ dialog' = [dialog EXCEPT ![c] = next]
        /\ walked' = [walked EXCEPT ![c] = @ \union {next.step}]
    BY <1>2 DEF Advance
  <2>2. dialog[c].step \in Steps /\ next.step \in Steps
    BY DEF StoreInv, StateOK
  <2>3. StepsBefore[next.step] \subseteq walked[c] \union {next.step}
    BY <1>2, <2>2, TransitionKeepsOrder DEF StoreInv
  <2>4. /\ DOMAIN dialog' = Chats
        /\ \A d \in Chats : StateOK(dialog'[d])
    BY <2>1 DEF StoreInv, StateOK
  <2>5. walked' \in [Chats -> SUBSET Steps]
    BY <2>1, <2>2 DEF StoreInv
  <2>6. ASSUME NEW d \in Chats
        PROVE  StepsBefore[dialog'[d].step] \union ({dialog'[d].step} \ {"idle"})
                  \subseteq walked'[d]
    BY <2>1, <2>3 DEF StoreInv
  <2> QED
    BY <2>4, <2>5, <2>6 DEF StoreInv, StateOK
<1> QED
  BY <1>1, <1>2

LEMMA ResetKeepsStore ==
  ASSUME StoreInv, NEW c \in Chats, Reset(c)
  PROVE  StoreInv'
<1>1. StateOK(IdleState) /\ IdleState.step = "idle" /\ StepsBefore["idle"] = {}
  BY DEF StateOK, IdleState, State, Steps, StepsBefore
<1>2. \A d \in Chats : dialog'[d] = IF d = c THEN IdleState ELSE dialog[d]
  BY DEF Reset, StoreInv
<1> QED
  BY <1>1, <1>2 DEF Reset, StoreInv, StateOK

-----------------------------------------------------------------------------
(* The goroutines and the ledger                                           *)

(* The arguments a goroutine works with are set.                           *)
ArgsSet(g) ==
    /\ g.pc # "rest" => g.chat \in Chats /\ g.user \in Users
    /\ g.pc \in {"days", "advanceDay", "slots", "advanceSlot", "create"} =>
          g.svc \in Services
    /\ g.pc = "slots" => g.day \in Days
    /\ g.pc \in {"slot", "confirm", "create"} => g.slot \in Slots
    /\ g.pc \in {"cancel", "adminCancel", "reset"} \union Notices => g.id \in BookingIds

HandlerInv ==
    /\ handler \in [Handlers -> Goroutine]
    /\ \A h \in Handlers : ArgsSet(handler[h])

(* Every slot is free or held by an active booking.                        *)
SlotsHeld ==
    \A s \in Slots : s \in free
        \/ \E b \in BookingIds : Ledger!ActiveRow(b) /\ bookings[b].slot = s

LedgerInv ==
    /\ bookings \in [BookingIds -> Ledger!Row \union {None}]
    /\ free \subseteq Slots
    /\ SlotsHeld

Cancelled(b) == bookings[b] # None /\ bookings[b].status = "cancelled"

(* What a notice says of a booking, while it is about to be sent and after.*)
Announced(kind, b) ==
    /\ kind \in {"reset", "created"} => bookings[b] # None
    /\ kind \in {"cancelledByClient", "cancelledByAdmin"} => Cancelled(b)

NoticeInv ==
    /\ notices \subseteq [kind : Notices, id : BookingIds]
    /\ \A h \in Handlers : Announced(handler[h].pc, handler[h].id)
    /\ \A n \in notices : Announced(n.kind, n.id)

IInv == StoreInv /\ HandlerInv /\ LedgerInv /\ NoticeInv /\ now \in 0 .. MaxNow

LEMMA UpdatesAreTyped ==
  ASSUME NEW c \in Chats, NEW u \in Users, NEW r \in Updates(c, u)
  PROVE  r \in Goroutine /\ ArgsSet(r) /\ r.pc \notin Notices \union {"reset"}
<1> USE DEF Job, Goroutine, ArgsSet, Labels, Notices
<1>1. CASE r \in {Job(pc, c, u, None, None, None, None) : pc \in {"start", "services"}}
  BY <1>1
<1>2. CASE r \in {Job("days", c, u, v, None, None, None) : v \in Services}
  BY <1>2
<1>3. CASE r \in {Job("slots", c, u, v, d, None, None) : v \in Services, d \in Days}
  BY <1>3
<1>4. CASE r \in {Job(pc, c, u, None, None, s, None) : s \in Slots, pc \in {"slot", "confirm"}}
  BY <1>4
<1>5. CASE r \in {Job(pc, c, u, None, None, None, b) :
                     b \in BookingIds, pc \in {"cancel", "adminCancel"}}
  BY <1>5
<1> HIDE DEF Job, Goroutine, ArgsSet, Labels, Notices
<1> QED
  BY <1>1, <1>2, <1>3, <1>4, <1>5 DEF Updates

LEMMA InitIInv ==
  ASSUME Init
  PROVE  IInv
<1>1. StoreInv
  BY DEF Init, StoreInv, StateOK, IdleState, State, Steps, StepsBefore
<1>2. HandlerInv
  BY DEF Init, HandlerInv, Rest, Job, Goroutine, ArgsSet, Labels, Notices
<1>3. LedgerInv
  BY DEF Init, Ledger!Init, LedgerInv, SlotsHeld
<1>4. NoticeInv
  BY DEF Init, NoticeInv, Announced, Rest, Job
<1>5. now \in 0 .. MaxNow
  BY DialogAssumption DEF Init
<1> QED
  BY <1>1, <1>2, <1>3, <1>4, <1>5 DEF IInv

-----------------------------------------------------------------------------
(* What the steps have in common                                           *)

(* The goroutine of a step that is not about to announce anything.         *)
LEMMA QuietStep ==
  ASSUME HandlerInv, NoticeInv, NEW h \in Handlers, NEW g \in Goroutine, ArgsSet(g),
         g.pc \notin Notices \union {"reset"},
         handler' = [handler EXCEPT ![h] = g],
         UNCHANGED <<bookings, notices>>
  PROVE  HandlerInv' /\ NoticeInv'
<1>1. \A k \in Handlers : handler'[k] = IF k = h THEN g ELSE handler[k]
  BY DEF HandlerInv
<1>2. HandlerInv'
  BY <1>1 DEF HandlerInv, ArgsSet
<1>3. \A k \in Handlers : Announced(handler[k].pc, handler[k].id)'
  BY <1>1 DEF NoticeInv, Announced, Cancelled, Notices
<1>4. \A n \in notices : Announced(n.kind, n.id)'
  BY DEF NoticeInv, Announced, Cancelled
<1> QED
  BY <1>2, <1>3, <1>4 DEF NoticeInv

LEMMA RestIsTyped == Rest \in Goroutine /\ ArgsSet(Rest) /\ Rest.pc = "rest"
  BY DEF Rest, Job, Goroutine, ArgsSet, Labels, Notices

LEMMA FinishStep ==
  ASSUME HandlerInv, NoticeInv, NEW h \in Handlers, Finish(h),
         UNCHANGED <<bookings, notices>>
  PROVE  HandlerInv' /\ NoticeInv'
<1>1. Rest.pc \notin Notices \union {"reset"}
  BY RestIsTyped DEF Notices
<1> QED
  BY <1>1, RestIsTyped, QuietStep DEF Finish

LEMMA StoreFrame ==
  ASSUME StoreInv, UNCHANGED storeVars
  PROVE  StoreInv'
  BY DEF StoreInv, storeVars, StateOK

LEMMA LedgerFrame ==
  ASSUME LedgerInv, UNCHANGED ledgerVars
  PROVE  LedgerInv'
  BY DEF LedgerInv, ledgerVars, SlotsHeld, Ledger!ActiveRow

(* What was said of a booking stays true: a row is never deleted, and a    *)
(* cancelled one is never active again.                                    *)
RowsStay ==
    \A b \in BookingIds : /\ bookings[b] # None => bookings[b]' # None
                          /\ Cancelled(b) => Cancelled(b)'

LEMMA BookStep ==
  ASSUME LedgerInv, NEW b \in BookingIds, NEW s \in Slots, NEW u \in Users,
         Ledger!Book(b, s, u)
  PROVE  LedgerInv' /\ RowsStay /\ bookings'[b] # None
<1> DEFINE row == [slot |-> s, client |-> u, status |-> "active"]
<1>1. row \in Ledger!Row
  BY DEF Ledger!Row
<1>2. row # None
  BY <1>1, NoneIsNoRow
<1>3. \A i \in BookingIds : bookings'[i] = IF i = b THEN row ELSE bookings[i]
  BY DEF Ledger!Book, LedgerInv
<1>4. /\ bookings' \in [BookingIds -> Ledger!Row \union {None}]
      /\ free' \subseteq Slots
  BY <1>1 DEF Ledger!Book, LedgerInv
<1>5. bookings[b] = None /\ free' = free \ {s}
  BY DEF Ledger!Book
<1>6. SlotsHeld'
  <2> SUFFICES ASSUME NEW x \in Slots, x \notin free'
               PROVE  \E i \in BookingIds : (Ledger!ActiveRow(i) /\ bookings[i].slot = x)'
    BY DEF SlotsHeld
  <2>1. CASE x = s
    <3>1. bookings'[b].slot = x /\ bookings'[b].status = "active"
      BY <1>3, <2>1
    <3> QED
      BY <1>2, <1>3, <3>1 DEF Ledger!ActiveRow
  <2>2. CASE x # s
    <3>1. PICK i \in BookingIds : Ledger!ActiveRow(i) /\ bookings[i].slot = x
      BY <1>5, <2>2 DEF LedgerInv, SlotsHeld
    <3> QED
      BY <1>3, <1>5, <3>1 DEF Ledger!ActiveRow
  <2> QED
    BY <2>1, <2>2
<1>7. RowsStay
  BY <1>2, <1>3, <1>5 DEF RowsStay, Cancelled
<1> QED
  BY <1>2, <1>3, <1>4, <1>6, <1>7 DEF LedgerInv

LEMMA CancelStep ==
  ASSUME LedgerInv, NEW b \in BookingIds, NEW by, Ledger!Cancel(b, by)
  PROVE  LedgerInv' /\ RowsStay /\ Cancelled(b)'
<1> DEFINE row == [slot |-> bookings[b].slot, client |-> bookings[b].client,
                   status |-> "cancelled"]
<1>1. bookings[b] \in Ledger!Row /\ bookings[b] # None
  BY DEF Ledger!Cancel, Ledger!ActiveRow, LedgerInv
<1>2. row \in Ledger!Row /\ row.status = "cancelled"
  BY <1>1 DEF Ledger!Row
<1>3. row # None
  BY <1>2, NoneIsNoRow
<1>4. bookings' = [bookings EXCEPT ![b] = row]
  <2>1. PICK r \in Ledger!Row : r = bookings[b]
    BY <1>1
  <2>2. [r EXCEPT !.status = "cancelled"] =
           [slot |-> r.slot, client |-> r.client, status |-> "cancelled"]
    BY DEF Ledger!Row
  <2>3. bookings' = [bookings EXCEPT ![b] = [r EXCEPT !.status = "cancelled"]]
    BY <2>1, Zenon DEF Ledger!Cancel
  <2> QED
    BY <2>1, <2>2, <2>3, Zenon
<1>5. bookings[b].slot \in Slots /\ free' = free \union {bookings[b].slot}
  BY <1>1 DEF Ledger!Cancel, Ledger!Row
<1>6. /\ bookings' \in [BookingIds -> Ledger!Row \union {None}]
      /\ \A i \in BookingIds : bookings'[i] = IF i = b THEN row ELSE bookings[i]
  BY <1>2, <1>4 DEF LedgerInv
<1>7. free' \subseteq Slots
  BY <1>5 DEF LedgerInv
<1>8. SlotsHeld'
  <2> SUFFICES ASSUME NEW x \in Slots, x \notin free'
               PROVE  \E i \in BookingIds : (Ledger!ActiveRow(i) /\ bookings[i].slot = x)'
    BY DEF SlotsHeld
  <2>1. PICK i \in BookingIds : Ledger!ActiveRow(i) /\ bookings[i].slot = x
    BY <1>5 DEF LedgerInv, SlotsHeld
  <2>2. i # b
    BY <1>5, <2>1
  <2> QED
    BY <1>6, <2>1, <2>2 DEF Ledger!ActiveRow
<1>9. RowsStay /\ Cancelled(b)'
  BY <1>2, <1>3, <1>6 DEF RowsStay, Cancelled
<1> HIDE DEF row
<1> QED
  BY <1>6, <1>8, <1>9, <1>7 DEF LedgerInv

(* A step of a goroutine that changes a booking or announces one.          *)
LEMMA LoudStep ==
  ASSUME HandlerInv, NoticeInv, RowsStay,
         NEW h \in Handlers, NEW g \in Goroutine, ArgsSet(g), Announced(g.pc, g.id)',
         handler' = [handler EXCEPT ![h] = g],
         NEW said \in SUBSET [kind : Notices, id : BookingIds],
         \A n \in said : Announced(n.kind, n.id),
         notices' = notices \union said
  PROVE  HandlerInv' /\ NoticeInv'
<1>1. \A k \in Handlers : handler'[k] = IF k = h THEN g ELSE handler[k]
  BY DEF HandlerInv
<1>2. HandlerInv'
  BY <1>1 DEF HandlerInv, ArgsSet
<1>3. ASSUME NEW kind, NEW b \in BookingIds, Announced(kind, b)
      PROVE  Announced(kind, b)'
  BY <1>3 DEF RowsStay, Announced
<1>4. ASSUME NEW k \in Handlers, k # h
      PROVE  Announced(handler[k].pc, handler[k].id)'
  <2>1. CASE handler[k].pc \in Notices \union {"reset"}
    <3>1. handler[k].id \in BookingIds
      BY <2>1 DEF HandlerInv, ArgsSet
    <3>2. Announced(handler[k].pc, handler[k].id)
      BY DEF NoticeInv
    <3> QED
      BY <1>1, <1>4, <3>1, <3>2 DEF RowsStay, Announced
  <2>2. CASE handler[k].pc \notin Notices \union {"reset"}
    BY <1>1, <1>4, <2>2 DEF Announced, Notices
  <2> QED
    BY <2>1, <2>2
<1>5. Announced(handler[h].pc, handler[h].id)'
  BY <1>1 DEF Announced, Cancelled
<1>6. ASSUME NEW n \in notices'
      PROVE  Announced(n.kind, n.id)'
  <2>1. n.id \in BookingIds /\ Announced(n.kind, n.id)
    BY <1>6 DEF NoticeInv
  <2> QED
    BY <2>1 DEF RowsStay, Announced
<1>7. notices' \subseteq [kind : Notices, id : BookingIds]
  BY DEF NoticeInv
<1> QED
  BY <1>2, <1>4, <1>5, <1>6, <1>7 DEF NoticeInv

-----------------------------------------------------------------------------
(* The steps of a goroutine                                                *)

(* A goroutine that moves on, with nothing to announce.                    *)
LEMMA GotoStep ==
  ASSUME HandlerInv, NoticeInv, NEW h \in Handlers,
         NEW pc \in {"days", "advanceDay", "slots", "advanceSlot"},
         handler[h].pc \in {"days", "advanceDay", "slots", "advanceSlot"},
         pc = "slots" => handler[h].pc = "slots",
         Goto(h, pc), UNCHANGED <<bookings, notices>>
  PROVE  HandlerInv' /\ NoticeInv'
<1>1. handler[h] \in Goroutine /\ ArgsSet(handler[h])
  BY DEF HandlerInv
<1>2. PICK g \in Goroutine : g = [handler[h] EXCEPT !.pc = pc]
  BY <1>1, ZenonT(60) DEF Goroutine, Labels
<1>3. ArgsSet(g) /\ g.pc \notin Notices \union {"reset"}
  <2>1. /\ g.pc = pc /\ g.chat = handler[h].chat /\ g.user = handler[h].user
        /\ g.svc = handler[h].svc /\ g.day = handler[h].day
        /\ g.slot = handler[h].slot /\ g.id = handler[h].id
    BY <1>1, <1>2 DEF Goroutine
  <2>2. pc \notin Notices \union {"reset"}
    BY DEF Notices
  <2>3. /\ handler[h].chat \in Chats /\ handler[h].user \in Users
        /\ handler[h].svc \in Services
        /\ pc = "slots" => handler[h].day \in Days
    BY <1>1 DEF ArgsSet
  <2>4. /\ pc # "rest" /\ pc \notin {"slot", "confirm", "create"}
        /\ pc \notin {"cancel", "adminCancel", "reset"} \union Notices
    BY <2>2
  <2> QED
    BY <2>1, <2>2, <2>3, <2>4 DEF ArgsSet
<1>4. handler' = [handler EXCEPT ![h] = g]
  BY <1>2, Zenon DEF Goto
<1> QED
  BY <1>3, <1>4, QuietStep

(* The steps that read the database or advance the dialog.                 *)
LEMMA BrowsePreserves ==
  ASSUME IInv, NEW h \in Handlers,
         ShowServices(h) \/ ReadDays(h) \/ AdvanceDay(h) \/ ReadSlots(h)
           \/ AdvanceSlot(h) \/ OnSlotChosen(h)
  PROVE  IInv'
<1> USE DEF At
<1> DEFINE c == handler[h].chat
           svc == handler[h].svc
           slot == handler[h].slot
<1>1. handler[h] \in Goroutine /\ ArgsSet(handler[h])
  BY DEF IInv, HandlerInv
<1>2. UNCHANGED <<ledgerVars, now, notices>>
  BY DEF ShowServices, ReadDays, AdvanceDay, ReadSlots, AdvanceSlot, OnSlotChosen
<1>3. StoreInv /\ HandlerInv /\ LedgerInv /\ NoticeInv /\ now \in 0 .. MaxNow
  BY DEF IInv
<1>4. UNCHANGED <<bookings, notices>>
  BY <1>2 DEF ledgerVars
<1>5. LedgerInv' /\ (now \in 0 .. MaxNow)'
  BY <1>2, <1>3, LedgerFrame
<1>6. ASSUME NEW next, Advance(c, next), StateOK(next), next.step # "idle", Finish(h),
             handler[h].pc # "rest"
      PROVE  IInv'
  <2>1. c \in Chats
    BY <1>1, <1>6 DEF ArgsSet
  <2>2. StoreInv'
    BY <1>3, <1>6, <2>1, AdvanceKeepsStore
  <2> QED
    BY <1>3, <1>4, <1>5, <1>6, <2>2, FinishStep DEF IInv
<1>7. CASE ShowServices(h)
  <2>1. PICK next : next = State("choosing_service", None, None)
    OBVIOUS
  <2>2. StateOK(next) /\ next.step # "idle"
    BY <2>1 DEF StateOK, State, Steps
  <2> QED
    BY <1>6, <1>7, <2>1, <2>2 DEF ShowServices
<1>8. CASE AdvanceDay(h)
  <2>1. PICK next : next = State("choosing_day", svc, None)
    OBVIOUS
  <2>2. StateOK(next) /\ next.step # "idle"
    BY <1>1, <1>8, <2>1 DEF StateOK, State, Steps, ArgsSet, AdvanceDay
  <2> QED
    BY <1>6, <1>8, <2>1, <2>2 DEF AdvanceDay
<1>9. CASE AdvanceSlot(h)
  <2>1. PICK next : next = State("choosing_slot", svc, None)
    OBVIOUS
  <2>2. StateOK(next) /\ next.step # "idle"
    BY <1>1, <1>9, <2>1 DEF StateOK, State, Steps, ArgsSet, AdvanceSlot
  <2> QED
    BY <1>6, <1>9, <2>1, <2>2 DEF AdvanceSlot
<1>10. CASE OnSlotChosen(h)
  <2>1. slot \in Slots /\ ServiceOf[slot] \in Services
    BY <1>1, <1>10, DialogAssumption DEF ArgsSet, OnSlotChosen
  <2>2. PICK next : next = State("confirming", ServiceOf[slot], slot)
    OBVIOUS
  <2>3. StateOK(next) /\ next.step # "idle"
    BY <2>1, <2>2 DEF StateOK, State, Steps
  <2> QED
    BY <1>6, <1>10, <2>2, <2>3 DEF OnSlotChosen
<1>11. CASE ReadDays(h)
  <2>1. HandlerInv' /\ NoticeInv'
    <3>1. CASE Finish(h)
      BY <1>3, <1>4, <3>1, FinishStep
    <3>2. CASE Goto(h, "advanceDay")
      BY <1>3, <1>4, <1>11, <3>2, GotoStep DEF ReadDays
    <3> QED
      BY <1>11, <3>1, <3>2 DEF ReadDays
  <2>2. StoreInv'
    BY <1>3, <1>11, StoreFrame DEF ReadDays
  <2> QED
    BY <1>5, <2>1, <2>2 DEF IInv
<1>12. CASE ReadSlots(h)
  <2>1. HandlerInv' /\ NoticeInv'
    <3>1. CASE Goto(h, "days")
      BY <1>3, <1>4, <1>12, <3>1, GotoStep DEF ReadSlots
    <3>2. CASE Goto(h, "advanceSlot")
      BY <1>3, <1>4, <1>12, <3>2, GotoStep DEF ReadSlots
    <3> QED
      BY <1>12, <3>1, <3>2 DEF ReadSlots
  <2>2. StoreInv'
    BY <1>3, <1>12, StoreFrame DEF ReadSlots
  <2> QED
    BY <1>5, <2>1, <2>2 DEF IInv
<1> QED
  BY <1>7, <1>8, <1>9, <1>10, <1>11, <1>12

(* The steps that end a handler, or only look at the dialog.               *)
LEMMA AnswerPreserves ==
  ASSUME IInv, NEW h \in Handlers,
         OnStart(h) \/ CheckConfirm(h) \/ Taken(h) \/ Refused(h) \/ Notified(h)
  PROVE  IInv'
<1>1. handler[h] \in Goroutine /\ ArgsSet(handler[h])
  BY DEF IInv, HandlerInv
<1>2. UNCHANGED <<ledgerVars, now, notices>>
  BY DEF OnStart, CheckConfirm, Taken, Refused, Notified
<1>3. StoreInv /\ HandlerInv /\ LedgerInv /\ NoticeInv /\ now \in 0 .. MaxNow
  BY DEF IInv
<1>4. UNCHANGED <<bookings, notices>>
  BY <1>2 DEF ledgerVars
<1>5. LedgerInv' /\ (now \in 0 .. MaxNow)'
  BY <1>2, <1>3, LedgerFrame
<1>6. StoreInv'
  <2>1. CASE OnStart(h)
    BY <1>1, <1>3, <2>1, ResetKeepsStore DEF OnStart, At, ArgsSet
  <2>2. CASE UNCHANGED storeVars
    BY <1>3, <2>2, StoreFrame
  <2> QED
    BY <2>1, <2>2 DEF CheckConfirm, Taken, Refused, Notified
<1>7. HandlerInv' /\ NoticeInv'
  <2>1. CASE Finish(h)
    BY <1>3, <1>4, <2>1, FinishStep
  <2>2. CASE CheckConfirm(h) /\ ~Finish(h)
    <3>1. /\ handler[h].pc = "confirm"
          /\ dialog[handler[h].chat].step = "confirming"
          /\ handler' = [handler EXCEPT ![h].pc = "create",
                                        ![h].svc = dialog[handler[h].chat].svc]
      BY <2>2 DEF CheckConfirm, At
    <3>2. dialog[handler[h].chat].svc \in Services
      BY <1>1, <1>3, <3>1 DEF ArgsSet, StoreInv, StateOK
    <3>3. PICK g \in Goroutine :
             g = [handler[h] EXCEPT !.pc = "create", !.svc = dialog[handler[h].chat].svc]
      BY <1>1, <3>2 DEF Goroutine, Labels
    <3>4. ArgsSet(g) /\ g.pc \notin Notices \union {"reset"}
      BY <1>1, <3>1, <3>2, <3>3 DEF ArgsSet, Notices, Goroutine
    <3>5. handler' = [handler EXCEPT ![h] = g]
      BY <1>3, <3>1, <3>3 DEF HandlerInv, Goroutine
    <3> QED
      BY <1>3, <1>4, <3>4, <3>5, QuietStep
  <2>3. CASE Taken(h)
    <3>1. /\ handler[h].pc = "create"
          /\ handler' = [handler EXCEPT ![h].pc = "days", ![h].told = "taken"]
      BY <2>3 DEF Taken, At
    <3>2. PICK g \in Goroutine :
             g = [handler[h] EXCEPT !.pc = "days", !.told = "taken"]
      BY <1>1, ZenonT(60) DEF Goroutine, Labels
    <3>3. ArgsSet(g) /\ g.pc \notin Notices \union {"reset"}
      BY <1>1, <3>1, <3>2 DEF ArgsSet, Notices, Goroutine
    <3>4. handler' = [handler EXCEPT ![h] = g]
      BY <1>3, <3>1, <3>2 DEF HandlerInv, Goroutine
    <3> QED
      BY <1>3, <1>4, <3>3, <3>4, QuietStep
  <2> QED
    BY <2>1, <2>2, <2>3 DEF OnStart, Refused, Notified
<1> QED
  BY <1>5, <1>6, <1>7 DEF IInv

LEMMA ReceivePreserves ==
  ASSUME IInv, NEW h \in Handlers, NEW m \in Members, Receive(h, m[1], m[2])
  PROVE  IInv'
<1>1. m[1] \in Chats /\ m[2] \in Users
  BY DialogAssumption
<1>2. PICK r \in Updates(m[1], m[2]) : handler' = [handler EXCEPT ![h] = r]
  BY DEF Receive
<1>3. r \in Goroutine /\ ArgsSet(r) /\ r.pc \notin Notices \union {"reset"}
  BY <1>1, UpdatesAreTyped
<1>4. UNCHANGED <<storeVars, ledgerVars, now, notices>>
  BY DEF Receive
<1>5. HandlerInv' /\ NoticeInv'
  BY <1>2, <1>3, <1>4, QuietStep DEF IInv, ledgerVars
<1> QED
  BY <1>4, <1>5, StoreFrame, LedgerFrame DEF IInv

LEMMA EnvironmentPreserves ==
  ASSUME IInv, Restart \/ Tick
  PROVE  IInv'
<1>1. CASE Restart
  <2>1. StoreInv'
    BY <1>1 DEF Restart, StoreInv, StateOK, IdleState, State, Steps, StepsBefore
  <2>2. HandlerInv'
    BY <1>1, RestIsTyped DEF Restart, HandlerInv
  <2>3. NoticeInv'
    <3>1. \A h \in Handlers : handler'[h].pc = "rest"
      BY <1>1, RestIsTyped DEF Restart
    <3>2. UNCHANGED <<bookings, notices>>
      BY <1>1 DEF Restart, ledgerVars
    <3> QED
      BY <3>1, <3>2 DEF IInv, NoticeInv, Announced, Cancelled
  <2> QED
    BY <1>1, <2>1, <2>2, <2>3, LedgerFrame DEF IInv, Restart
<1>2. CASE Tick
  <2>1. now' \in 0 .. MaxNow
    BY <1>2, DialogAssumption DEF IInv, Tick
  <2>2. HandlerInv'
    BY <1>2 DEF IInv, Tick, HandlerInv, ArgsSet
  <2>3. NoticeInv'
    BY <1>2 DEF IInv, Tick, ledgerVars, NoticeInv, Announced, Cancelled
  <2> QED
    BY <1>2, <2>1, <2>2, <2>3, StoreFrame, LedgerFrame DEF IInv, Tick
<1> QED
  BY <1>1, <1>2

-----------------------------------------------------------------------------
(* The steps that change a booking or announce it                          *)

(* A step with nothing to say sends no notice.                             *)
LEMMA SilentStep ==
  ASSUME HandlerInv, NoticeInv, RowsStay,
         NEW h \in Handlers, NEW g \in Goroutine, ArgsSet(g), Announced(g.pc, g.id)',
         handler' = [handler EXCEPT ![h] = g], UNCHANGED notices
  PROVE  HandlerInv' /\ NoticeInv'
<1>1. PICK said \in SUBSET [kind : Notices, id : BookingIds] : said = {}
  OBVIOUS
<1>2. notices' = notices \union said /\ \A n \in said : Announced(n.kind, n.id)
  BY <1>1
<1> QED
  BY <1>2, LoudStep

LEMMA SilentEnd ==
  ASSUME HandlerInv, NoticeInv, RowsStay, NEW h \in Handlers, Finish(h),
         UNCHANGED notices
  PROVE  HandlerInv' /\ NoticeInv'
<1>1. Announced(Rest.pc, Rest.id)'
  BY DEF Rest, Job, Announced
<1> QED
  BY <1>1, RestIsTyped, SilentStep DEF Finish

LEMMA BookedPreserves ==
  ASSUME IInv, NEW h \in Handlers, Booked(h)
  PROVE  IInv'
<1>1. /\ handler[h] \in Goroutine /\ ArgsSet(handler[h])
      /\ handler[h].pc = "create"
      /\ UNCHANGED <<storeVars, now, notices>>
  BY DEF IInv, HandlerInv, Booked, At
<1>2. handler[h].slot \in Slots /\ handler[h].user \in Users
  BY <1>1 DEF ArgsSet
<1>3. PICK b \in BookingIds :
         /\ Ledger!Book(b, handler[h].slot, handler[h].user)
         /\ \/ handler' = [handler EXCEPT ![h].pc = "reset", ![h].id = b]
            \/ Finish(h)
  BY Zenon DEF Booked
<1>4. PICK s \in Slots, u \in Users : s = handler[h].slot /\ u = handler[h].user
  BY <1>2
<1>5. LedgerInv' /\ RowsStay /\ bookings'[b] # None
  BY <1>3, <1>4, BookStep DEF IInv
<1>6. HandlerInv' /\ NoticeInv'
  <2>1. CASE Finish(h)
    BY <1>1, <1>5, <2>1, SilentEnd DEF IInv
  <2>2. CASE handler' = [handler EXCEPT ![h].pc = "reset", ![h].id = b]
    <3>1. PICK g \in Goroutine : g = [handler[h] EXCEPT !.pc = "reset", !.id = b]
      BY <1>1 DEF Goroutine, Labels
    <3>2. ArgsSet(g) /\ Announced(g.pc, g.id)'
      BY <1>1, <1>5, <3>1 DEF ArgsSet, Announced, Goroutine, Notices
    <3>3. handler' = [handler EXCEPT ![h] = g]
      BY <2>2, <3>1 DEF IInv, HandlerInv, Goroutine
    <3> QED
      BY <1>1, <1>5, <3>2, <3>3, SilentStep DEF IInv
  <2> QED
    BY <1>3, <2>1, <2>2
<1> QED
  BY <1>1, <1>5, <1>6, StoreFrame DEF IInv

LEMMA AudienceIsTyped ==
  ASSUME NEW h \in Handlers, ArgsSet(handler[h]), handler[h].pc # "rest"
  PROVE  Audience(h) \in SUBSET (Chats \union Users)
  BY DialogAssumption DEF Audience, ArgsSet

LEMMA ResetAfterBookingPreserves ==
  ASSUME IInv, NEW h \in Handlers, ResetAfterBooking(h)
  PROVE  IInv'
<1>1. /\ handler[h] \in Goroutine /\ ArgsSet(handler[h])
      /\ handler[h].pc = "reset"
      /\ UNCHANGED <<ledgerVars, now, notices>>
  BY DEF IInv, HandlerInv, ResetAfterBooking, At
<1>2. StoreInv'
  BY <1>1, ResetKeepsStore DEF IInv, ResetAfterBooking, ArgsSet
<1>3. RowsStay
  BY <1>1 DEF RowsStay, Cancelled, ledgerVars
<1>4. bookings'[handler[h].id] # None
  BY <1>1 DEF IInv, NoticeInv, Announced, ledgerVars
<1>5. Audience(h) \in SUBSET (Chats \union Users)
  BY <1>1, AudienceIsTyped
<1>6. PICK g \in Goroutine :
         g = [handler[h] EXCEPT !.pc = "created", !.todo = Audience(h)]
  BY <1>1, <1>5 DEF Goroutine, Labels, Notices
<1>7. ArgsSet(g) /\ Announced(g.pc, g.id)'
  BY <1>1, <1>4, <1>6 DEF ArgsSet, Announced, Goroutine, Notices
<1>8. handler' = [handler EXCEPT ![h] = g]
  BY <1>6 DEF ResetAfterBooking, IInv, HandlerInv, Goroutine
<1>9. HandlerInv' /\ NoticeInv'
  BY <1>1, <1>3, <1>7, <1>8, SilentStep DEF IInv
<1> QED
  BY <1>1, <1>2, <1>9, LedgerFrame DEF IInv

LEMMA CancelPreserves ==
  ASSUME IInv, NEW h \in Handlers, OnClientCancel(h) \/ OnAdminCancel(h)
  PROVE  IInv'
<1>1. /\ handler[h] \in Goroutine /\ ArgsSet(handler[h])
      /\ handler[h].pc \in {"cancel", "adminCancel"}
      /\ UNCHANGED <<storeVars, now, notices>>
  BY DEF IInv, HandlerInv, OnClientCancel, OnAdminCancel, At
<1>2. PICK b \in BookingIds : b = handler[h].id
  BY <1>1 DEF ArgsSet
<1>3. PICK by : Ledger!Cancel(b, by)
  BY <1>2, Zenon DEF OnClientCancel, OnAdminCancel
<1>4. LedgerInv' /\ RowsStay /\ Cancelled(b)'
  BY <1>3, CancelStep DEF IInv
<1>5. bookings[b].client \in Users
  BY <1>3 DEF Ledger!Cancel, Ledger!ActiveRow, IInv, LedgerInv, Ledger!Row
<1>6. ASSUME NEW kind \in {"cancelledByClient", "cancelledByAdmin"},
             NEW to \in SUBSET (Chats \union Users),
             handler' = [handler EXCEPT ![h].pc = kind, ![h].todo = to]
      PROVE  HandlerInv' /\ NoticeInv'
  <2>1. PICK g \in Goroutine : g = [handler[h] EXCEPT !.pc = kind, !.todo = to]
    BY <1>1 DEF Goroutine, Labels, Notices
  <2>2. ArgsSet(g) /\ Announced(g.pc, g.id)'
    BY <1>1, <1>2, <1>4, <2>1 DEF ArgsSet, Announced, Goroutine, Notices
  <2>3. handler' = [handler EXCEPT ![h] = g]
    BY <1>6, <2>1 DEF IInv, HandlerInv, Goroutine
  <2> QED
    BY <1>1, <1>4, <2>2, <2>3, SilentStep DEF IInv
<1>7. HandlerInv' /\ NoticeInv'
  <2>1. CASE Finish(h)
    BY <1>1, <1>4, <2>1, SilentEnd DEF IInv
  <2>2. CASE OnClientCancel(h) /\ ~Finish(h)
    <3>1. PICK to \in SUBSET (Chats \union Users) : to = Audience(h)
      BY <1>1, AudienceIsTyped
    <3>2. handler' = [handler EXCEPT ![h].pc = "cancelledByClient", ![h].todo = to]
      BY <2>2, <3>1 DEF OnClientCancel
    <3> QED
      BY <1>6, <3>2
  <2>3. CASE OnAdminCancel(h) /\ ~Finish(h)
    <3>1. PICK to \in SUBSET (Chats \union Users) :
             to = {handler[h].chat, bookings[b].client}
      BY <1>1, <1>5 DEF ArgsSet
    <3>2. handler' = [handler EXCEPT ![h].pc = "cancelledByAdmin", ![h].todo = to]
      BY <1>2, <2>3, <3>1 DEF OnAdminCancel
    <3> QED
      BY <1>6, <3>2
  <2> QED
    BY <2>1, <2>2, <2>3
<1> QED
  BY <1>1, <1>4, <1>7, StoreFrame DEF IInv

LEMMA NotifyPreserves ==
  ASSUME IInv, NEW h \in Handlers, Notify(h)
  PROVE  IInv'
<1>1. /\ handler[h] \in Goroutine /\ ArgsSet(handler[h])
      /\ handler[h].pc \in Notices
      /\ UNCHANGED <<storeVars, ledgerVars, now>>
  BY DEF IInv, HandlerInv, Notify
<1>2. PICK u \in handler[h].todo :
         /\ handler' = [handler EXCEPT ![h].todo = @ \ {u}]
         /\ \/ notices' = notices \union
                   {[kind |-> handler[h].pc, id |-> handler[h].id]}
            \/ UNCHANGED notices
  BY Zenon DEF Notify
<1>3. handler[h].todo \ {u} \in SUBSET (Chats \union Users)
  BY <1>1 DEF Goroutine
<1>4. handler[h].id \in BookingIds /\ Announced(handler[h].pc, handler[h].id)
  BY <1>1 DEF ArgsSet, IInv, NoticeInv
<1>5. RowsStay
  BY <1>1 DEF RowsStay, Cancelled, ledgerVars
<1>6. PICK g \in Goroutine : g = [handler[h] EXCEPT !.todo = handler[h].todo \ {u}]
  BY <1>1, <1>3 DEF Goroutine
<1>7. ArgsSet(g) /\ Announced(g.pc, g.id)'
  BY <1>1, <1>4, <1>6 DEF ArgsSet, Announced, Cancelled, Goroutine, ledgerVars
<1>8. handler' = [handler EXCEPT ![h] = g]
  BY <1>2, <1>6 DEF IInv, HandlerInv, Goroutine
<1>9. HandlerInv' /\ NoticeInv'
  <2>1. CASE UNCHANGED notices
    BY <1>5, <1>7, <1>8, <2>1, SilentStep DEF IInv
  <2>2. CASE notices' = notices \union
                {[kind |-> handler[h].pc, id |-> handler[h].id]}
    <3>1. PICK n \in [kind : Notices, id : BookingIds] :
             n = [kind |-> handler[h].pc, id |-> handler[h].id]
      BY <1>1, <1>3, <1>4
    <3>2. PICK said \in SUBSET [kind : Notices, id : BookingIds] :
             said = {n}
      OBVIOUS
    <3>3. \A m \in said : Announced(m.kind, m.id)
      BY <1>4, <3>1, <3>2
    <3>4. notices' = notices \union said
      BY <2>2, <3>1, <3>2
    <3> QED
      BY <1>5, <1>7, <1>8, <3>3, <3>4, LoudStep DEF IInv
  <2> QED
    BY <1>2, <2>1, <2>2
<1> QED
  BY <1>1, <1>9, StoreFrame, LedgerFrame DEF IInv

LEMMA NextIInv ==
  ASSUME IInv, [Next]_vars
  PROVE  IInv'
<1>1. CASE UNCHANGED vars
  <2>1. HandlerInv' /\ NoticeInv' /\ (now \in 0 .. MaxNow)'
    BY <1>1 DEF vars, IInv, HandlerInv, ArgsSet, NoticeInv, Announced, Cancelled
  <2>2. UNCHANGED storeVars /\ UNCHANGED ledgerVars
    BY <1>1 DEF vars, storeVars, ledgerVars
  <2> QED
    BY <2>1, <2>2, StoreFrame, LedgerFrame DEF IInv
<1>2. CASE \E h \in Handlers, m \in Members : Receive(h, m[1], m[2])
  BY <1>2, ReceivePreserves
<1>3. ASSUME NEW h \in Handlers, Run(h)
      PROVE  IInv'
  BY <1>3, BrowsePreserves, AnswerPreserves, BookedPreserves,
     ResetAfterBookingPreserves, CancelPreserves, NotifyPreserves DEF Run
<1> QED
  BY <1>1, <1>2, <1>3, EnvironmentPreserves DEF Next

-----------------------------------------------------------------------------
(* IInv is an inductive invariant.                                         *)
THEOREM Invariance == Spec => []IInv
  BY InitIInv, NextIInv, PTL DEF Spec

(* Every state of the program is well formed: a goroutine has the          *)
(* arguments its step uses and a dialog the fields of its step.            *)
THEOREM TypeCorrect == Spec => []TypeOK
<1>1. IInv => TypeOK
  BY DEF IInv, StoreInv, HandlerInv, LedgerInv, NoticeInv, TypeOK
<1> QED
  BY <1>1, Invariance, PTL

(* No button and no interleaving of goroutines takes a dialog past a step, *)
(* for any number of goroutines per chat (allowedTransitions of fsm.go).   *)
THEOREM StepsInOrder == Spec => []NoSkippedStep
<1>1. IInv => NoSkippedStep
  BY DEF IInv, StoreInv, NoSkippedStep
<1> QED
  BY <1>1, Invariance, PTL

(* Nobody is told of a booking or of a cancellation that is not committed, *)
(* whatever crashes between the commit and the message.                    *)
THEOREM OnlyTheCommittedIsAnnounced == Spec => []NoticesAreTrue
<1>1. IInv => NoticesAreTrue
  BY DEF IInv, NoticeInv, Announced, Cancelled, Notices, NoticesAreTrue
<1> QED
  BY <1>1, Invariance, PTL

(* A slot whose end has not passed is free or in the list of the client    *)
(* who holds it (ActiveBookingsByClient), whenever it starts and ends.     *)
THEOREM SlotsStayInReach == Spec => []NoSlotIsLost
<1>1. ASSUME IInv
      PROVE  NoSlotIsLost
  <2> SUFFICES ASSUME NEW s \in Slots, End[s] >= now, s \notin free
               PROVE  \E u \in Users :
                         \E b \in ActiveBookingsByClient(u) : bookings[b].slot = s
    BY DEF NoSlotIsLost
  <2>1. PICK b \in BookingIds : Ledger!ActiveRow(b) /\ bookings[b].slot = s
    BY <1>1 DEF IInv, LedgerInv, SlotsHeld
  <2>2. bookings[b].client \in Users
    BY <1>1, <2>1 DEF IInv, LedgerInv, Ledger!ActiveRow, Ledger!Row
  <2>3. b \in ActiveBookingsByClient(bookings[b].client)
    BY <2>1 DEF ActiveBookingsByClient
  <2> QED
    BY <2>1, <2>2, <2>3
<1> QED
  BY <1>1, Invariance, PTL

(* The ledger accepts a cancellation only of the owner or with byTgID = 0, *)
(* and only the handler of an administrator passes 0.                      *)
THEOREM OnlyOwnersAndAdminsCancel == Spec => CancelIsAuthorised
<1> DEFINE Authorised ==
       \A b \in BookingIds :
          Ledger!ActiveRow(b) /\ bookings'[b].status = "cancelled" =>
            \E h \in Handlers :
                /\ handler[h].id = b
                /\ handler[h].user \in Admins \union {bookings[b].client}
<1>1. ASSUME IInv, [Next]_vars
      PROVE  [Authorised]_vars
  <2> SUFFICES ASSUME NEW b \in BookingIds, Ledger!ActiveRow(b),
                      bookings'[b].status = "cancelled"
               PROVE  \E h \in Handlers :
                         /\ handler[h].id = b
                         /\ handler[h].user \in Admins \union {bookings[b].client}
    OBVIOUS
  <2>1. bookings' # bookings
    BY DEF Ledger!ActiveRow
  <2>2. PICK h \in Handlers : Booked(h) \/ OnClientCancel(h) \/ OnAdminCancel(h)
    BY <1>1, <2>1 DEF Next, Run, vars, ledgerVars, Receive, OnStart, ShowServices,
       ReadDays, AdvanceDay, ReadSlots, AdvanceSlot, OnSlotChosen, CheckConfirm, Taken,
       ResetAfterBooking, Refused, Notify, Notified, Restart, Tick
  <2>3. handler[h] \in Goroutine /\ ArgsSet(handler[h])
    BY <1>1 DEF IInv, HandlerInv
  <2>4. ~Booked(h)
    <3> SUFFICES ASSUME NEW i \in BookingIds,
                        Ledger!Book(i, handler[h].slot, handler[h].user)
                 PROVE  FALSE
      BY Zenon DEF Booked
    <3>1. i # b
      BY DEF Ledger!Book, Ledger!ActiveRow
    <3>2. bookings'[b] = bookings[b]
      BY <1>1, <3>1 DEF Ledger!Book, IInv, LedgerInv
    <3> QED
      BY <3>2 DEF Ledger!ActiveRow
  <2>5. PICK i \in BookingIds, by \in Users \union {Admin} :
           /\ i = handler[h].id
           /\ Ledger!Cancel(i, by)
           /\ \/ by = handler[h].user
              \/ handler[h].user \in Admins
    BY <2>2, <2>3, <2>4, Zenon DEF OnClientCancel, OnAdminCancel, At, ArgsSet
  <2>6. i = b
    BY <1>1, <2>5 DEF Ledger!Cancel, Ledger!ActiveRow, IInv, LedgerInv
  <2>7. by # Admin => by = bookings[b].client
    BY <2>5, <2>6 DEF Ledger!Cancel
  <2>8. handler[h].user \in Users
    BY <1>1, <2>2, <2>3, <2>4 DEF OnClientCancel, OnAdminCancel, At, ArgsSet
  <2>9. by = handler[h].user => by # Admin
    BY <2>8, DialogAssumption
  <2> QED
    BY <2>5, <2>6, <2>7, <2>9
<1> QED
  BY <1>1, Invariance, PTL DEF Spec, CancelIsAuthorised

-----------------------------------------------------------------------------
(* A client who waits for each answer: one update of a chat is handled at  *)
(* a time.  v_double_tap and v_late_reset show what this leaves out.       *)
OneTapAtATime == Taps = 1 /\ IsFiniteSet(Handlers)

(* No two goroutines work for one chat.                                    *)
Alone ==
    \A h, k \in Handlers : h # k /\ handler[h].chat \in Chats =>
        handler[k].chat # handler[h].chat

(* From the look at the dialog to the answer, the dialog stays at the      *)
(* confirmation.                                                           *)
Attended(g) ==
    /\ g.pc = "create" => dialog[g.chat].step = "confirming"
    /\ g.told = "taken" => /\ g.pc \in {"days", "advanceDay"}
                           /\ dialog[g.chat].step = "confirming"

PatientInv == Alone /\ \A h \in Handlers : Attended(handler[h])

LEMMA InitPatient ==
  ASSUME Init
  PROVE  PatientInv
<1>1. Alone
  BY DialogAssumption DEF Init, Alone, Rest, Job
<1>2. \A h \in Handlers : Attended(handler[h])
  BY DEF Init, Attended, Rest, Job
<1> QED
  BY <1>1, <1>2 DEF PatientInv

(* A step of a goroutine that leaves the dialogs of other chats alone.     *)
LEMMA OwnStep ==
  ASSUME HandlerInv, PatientInv, NEW h \in Handlers, NEW g,
         handler' = [handler EXCEPT ![h] = g], g.chat \in {handler[h].chat, None},
         \A c \in Chats : c # handler[h].chat => dialog'[c] = dialog[c],
         Attended(g)'
  PROVE  PatientInv'
<1>1. \A k \in Handlers : handler'[k] = IF k = h THEN g ELSE handler[k]
  BY DEF HandlerInv
<1>2. Alone'
  BY <1>1, DialogAssumption DEF PatientInv, Alone
<1>3. ASSUME NEW k \in Handlers, k # h
      PROVE  Attended(handler[k])'
  <2>1. handler'[k] = handler[k] /\ Attended(handler[k]) /\ ArgsSet(handler[k])
    BY <1>1, <1>3 DEF PatientInv, HandlerInv
  <2>2. CASE handler[k].pc = "rest"
    BY <2>1, <2>2 DEF Attended
  <2>3. CASE handler[k].pc # "rest"
    <3>1. handler[k].chat \in Chats
      BY <2>1, <2>3 DEF ArgsSet
    <3>2. handler[k].chat # handler[h].chat
      BY <1>3, <3>1 DEF PatientInv, Alone
    <3>3. dialog'[handler[k].chat] = dialog[handler[k].chat]
      BY <3>1, <3>2
    <3> QED
      BY <2>1, <3>3 DEF Attended
  <2> QED
    BY <2>2, <2>3
<1>4. Attended(handler[h])'
  BY <1>1
<1> QED
  BY <1>2, <1>3, <1>4 DEF PatientInv

(* A step that does not touch the dialogs.                                 *)
LEMMA LookStep ==
  ASSUME HandlerInv, PatientInv, NEW h \in Handlers, NEW g,
         handler' = [handler EXCEPT ![h] = g], g.chat \in {handler[h].chat, None},
         UNCHANGED dialog, Attended(g)
  PROVE  PatientInv'
<1>1. Attended(g)'
  BY DEF Attended
<1> QED
  BY <1>1, OwnStep

LEMMA RestIsAttended == Attended(Rest) /\ Attended(Rest)' /\ Rest.chat = None
  BY DEF Attended, Rest, Job

(* A step that ends the goroutine and may change the dialog of its chat.   *)
LEMMA LastStep ==
  ASSUME HandlerInv, PatientInv, NEW h \in Handlers, Finish(h),
         \A c \in Chats : c # handler[h].chat => dialog'[c] = dialog[c]
  PROVE  PatientInv'
  BY RestIsAttended, OwnStep DEF Finish

LEMMA AdvanceStep ==
  ASSUME StoreInv, HandlerInv, PatientInv, NEW h \in Handlers, Finish(h), NEW next,
         Advance(handler[h].chat, next)
  PROVE  PatientInv'
<1>1. \/ dialog' = [dialog EXCEPT ![handler[h].chat] = next]
      \/ UNCHANGED dialog
  BY DEF Advance, storeVars
<1>2. \A c \in Chats : c # handler[h].chat => dialog'[c] = dialog[c]
  BY <1>1 DEF StoreInv
<1> QED
  BY <1>2, LastStep

LEMMA ResetIsLocal ==
  ASSUME StoreInv, NEW c \in Chats, Reset(c)
  PROVE  \A d \in Chats : d # c => dialog'[d] = dialog[d]
  BY DEF StoreInv, Reset

LEMMA BrowseAttends ==
  ASSUME StoreInv, HandlerInv, PatientInv, NEW h \in Handlers,
         ShowServices(h) \/ ReadDays(h) \/ AdvanceDay(h) \/ ReadSlots(h)
           \/ AdvanceSlot(h) \/ OnSlotChosen(h)
  PROVE  PatientInv'
<1> DEFINE c == handler[h].chat
<1>1. handler[h] \in Goroutine /\ ArgsSet(handler[h]) /\ Attended(handler[h])
  BY DEF HandlerInv, PatientInv
<1>2. CASE ShowServices(h) \/ AdvanceDay(h) \/ AdvanceSlot(h) \/ OnSlotChosen(h)
  BY <1>2, AdvanceStep DEF ShowServices, AdvanceDay, AdvanceSlot, OnSlotChosen
<1>3. ASSUME NEW pc \in {"days", "advanceDay", "advanceSlot"}, Goto(h, pc),
             handler[h].pc \in {"days", "slots"}, UNCHANGED dialog,
             pc = "advanceSlot" => handler[h].pc = "slots"
      PROVE  PatientInv'
  <2>1. PICK g : g = [handler[h] EXCEPT !.pc = pc]
    OBVIOUS
  <2>2. /\ g.pc = pc /\ g.chat = c /\ g.told = handler[h].told
        /\ handler' = [handler EXCEPT ![h] = g]
    BY <1>1, <1>3, <2>1 DEF Goroutine, Goto
  <2>3. Attended(g)
    BY <1>1, <1>3, <2>2 DEF Attended
  <2> QED
    BY <1>3, <2>2, <2>3, LookStep
<1>4. CASE ReadDays(h)
  <2>1. UNCHANGED dialog /\ handler[h].pc = "days"
    BY <1>4 DEF ReadDays, At, storeVars
  <2>2. CASE Finish(h)
    BY <2>1, <2>2, RestIsAttended, LookStep DEF Finish
  <2>3. CASE Goto(h, "advanceDay")
    BY <1>3, <2>1, <2>3
  <2> QED
    BY <1>4, <2>2, <2>3 DEF ReadDays
<1>5. CASE ReadSlots(h)
  <2>1. UNCHANGED dialog /\ handler[h].pc = "slots"
    BY <1>5 DEF ReadSlots, At, storeVars
  <2>2. CASE Goto(h, "days")
    BY <1>3, <2>1, <2>2
  <2>3. CASE Goto(h, "advanceSlot")
    BY <1>3, <2>1, <2>3
  <2> QED
    BY <1>5, <2>2, <2>3 DEF ReadSlots
<1> QED
  BY <1>2, <1>4, <1>5

LEMMA ConfirmAttends ==
  ASSUME StoreInv, HandlerInv, PatientInv, NEW h \in Handlers,
         CheckConfirm(h) \/ Booked(h) \/ Taken(h) \/ ResetAfterBooking(h)
  PROVE  PatientInv'
<1> DEFINE c == handler[h].chat
<1>1. handler[h] \in Goroutine /\ ArgsSet(handler[h]) /\ Attended(handler[h])
  BY DEF HandlerInv, PatientInv
<1>2. CASE UNCHANGED dialog /\ Finish(h)
  BY <1>2, RestIsAttended, LookStep DEF Finish
<1>3. CASE CheckConfirm(h) /\ ~Finish(h)
  <2>1. /\ handler[h].pc = "confirm" /\ UNCHANGED dialog
        /\ dialog[c].step = "confirming"
        /\ handler' = [handler EXCEPT ![h].pc = "create", ![h].svc = dialog[c].svc]
    BY <1>3 DEF CheckConfirm, At, storeVars
  <2>2. PICK g : g = [handler[h] EXCEPT !.pc = "create", !.svc = dialog[c].svc]
    OBVIOUS
  <2>3. /\ g.pc = "create" /\ g.chat = c
        /\ g.told = handler[h].told
        /\ handler' = [handler EXCEPT ![h] = g]
    BY <1>1, <2>1, <2>2 DEF Goroutine, HandlerInv
  <2>4. Attended(g)
    BY <1>1, <2>1, <2>3 DEF Attended
  <2> QED
    BY <2>1, <2>3, <2>4, LookStep
<1>4. CASE Booked(h) /\ ~Finish(h)
  <2>1. handler[h].pc = "create" /\ UNCHANGED dialog
    BY <1>4 DEF Booked, At, storeVars
  <2>2. PICK b \in BookingIds :
           handler' = [handler EXCEPT ![h].pc = "reset", ![h].id = b]
    BY <1>4, Zenon DEF Booked
  <2>3. PICK g : g = [handler[h] EXCEPT !.pc = "reset", !.id = b]
    OBVIOUS
  <2>4. /\ g.pc = "reset" /\ g.chat = c
        /\ g.told = handler[h].told
        /\ handler' = [handler EXCEPT ![h] = g]
    BY <1>1, <2>2, <2>3 DEF Goroutine, HandlerInv
  <2>5. Attended(g)
    BY <1>1, <2>1, <2>4 DEF Attended
  <2> QED
    BY <2>1, <2>4, <2>5, LookStep
<1>5. CASE Taken(h)
  <2>1. /\ handler[h].pc = "create" /\ UNCHANGED dialog
        /\ handler' = [handler EXCEPT ![h].pc = "days", ![h].told = "taken"]
    BY <1>5 DEF Taken, At, storeVars
  <2>2. PICK g : g = [handler[h] EXCEPT !.pc = "days", !.told = "taken"]
    OBVIOUS
  <2>3. /\ g.pc = "days" /\ g.chat = c
        /\ handler' = [handler EXCEPT ![h] = g]
    BY <1>1, <2>1, <2>2 DEF Goroutine, HandlerInv
  <2>4. Attended(g)
    BY <1>1, <2>1, <2>3 DEF Attended
  <2> QED
    BY <2>1, <2>3, <2>4, LookStep
<1>6. CASE ResetAfterBooking(h)
  <2>1. /\ handler[h].pc = "reset" /\ Reset(c)
        /\ handler' = [handler EXCEPT ![h].pc = "created", ![h].todo = Audience(h)]
    BY <1>6 DEF ResetAfterBooking, At
  <2>2. PICK g : g = [handler[h] EXCEPT !.pc = "created", !.todo = Audience(h)]
    OBVIOUS
  <2>3. /\ g.pc = "created" /\ g.chat = c /\ g.told = handler[h].told
        /\ handler' = [handler EXCEPT ![h] = g]
    BY <1>1, <2>1, <2>2 DEF Goroutine, HandlerInv
  <2>4. Attended(g)'
    BY <1>1, <2>1, <2>3 DEF Attended
  <2>5. \A d \in Chats : d # c => dialog'[d] = dialog[d]
    BY <1>1, <2>1, ResetIsLocal DEF ArgsSet
  <2> QED
    BY <2>3, <2>4, <2>5, OwnStep
<1> QED
  BY <1>2, <1>3, <1>4, <1>5, <1>6 DEF CheckConfirm, Booked, storeVars

LEMMA OthersAttend ==
  ASSUME StoreInv, HandlerInv, PatientInv, NEW h \in Handlers,
         OnStart(h) \/ OnClientCancel(h) \/ OnAdminCancel(h) \/ Refused(h)
           \/ Notify(h) \/ Notified(h)
  PROVE  PatientInv'
<1>1. handler[h] \in Goroutine /\ ArgsSet(handler[h]) /\ Attended(handler[h])
  BY DEF HandlerInv, PatientInv
<1>2. CASE OnStart(h)
  BY <1>1, <1>2, ResetIsLocal, LastStep DEF OnStart, At, ArgsSet
<1>3. CASE UNCHANGED dialog /\ Finish(h)
  BY <1>3, RestIsAttended, LookStep DEF Finish
<1>4. ASSUME NEW pc \in Notices, NEW todo, UNCHANGED dialog,
             handler[h].pc \in Notices \union {"cancel", "adminCancel"},
             handler' = [handler EXCEPT ![h].pc = pc, ![h].todo = todo]
      PROVE  PatientInv'
  <2>1. PICK g : g = [handler[h] EXCEPT !.pc = pc, !.todo = todo]
    OBVIOUS
  <2>2. /\ g.pc = pc /\ g.chat = handler[h].chat /\ g.told = handler[h].told
        /\ handler' = [handler EXCEPT ![h] = g]
    BY <1>1, <1>4, <2>1 DEF Goroutine, HandlerInv
  <2>3. Attended(g)
    BY <1>1, <1>4, <2>2 DEF Attended, Notices
  <2> QED
    BY <1>4, <2>2, <2>3, LookStep
<1>5. CASE OnClientCancel(h) /\ ~Finish(h)
  <2>1. PICK todo : todo = Audience(h)
    OBVIOUS
  <2> QED
    BY <1>4, <1>5, <2>1 DEF OnClientCancel, At, Notices, storeVars
<1>6. CASE OnAdminCancel(h) /\ ~Finish(h)
  <2>1. PICK todo : todo = {handler[h].chat, bookings[handler[h].id].client}
    OBVIOUS
  <2> QED
    BY <1>4, <1>6, <2>1 DEF OnAdminCancel, At, Notices, storeVars
<1>7. CASE Notify(h)
  <2>1. PICK u : handler' = [handler EXCEPT ![h].todo = handler[h].todo \ {u}]
    BY <1>1, <1>7 DEF Notify
  <2>2. PICK g : g = [handler[h] EXCEPT !.todo = handler[h].todo \ {u}]
    OBVIOUS
  <2>3. /\ g.pc = handler[h].pc /\ g.chat = handler[h].chat /\ g.told = handler[h].told
        /\ handler' = [handler EXCEPT ![h] = g]
    BY <1>1, <2>1, <2>2 DEF Goroutine, HandlerInv
  <2>4. Attended(g) /\ UNCHANGED dialog
    BY <1>1, <1>7, <2>3 DEF Attended, Notify, Notices, storeVars
  <2> QED
    BY <2>3, <2>4, LookStep
<1> QED
  BY <1>2, <1>3, <1>5, <1>6, <1>7 DEF OnClientCancel, OnAdminCancel, Refused, Notified, storeVars

LEMMA ReceiveAttends ==
  ASSUME HandlerInv, PatientInv, OneTapAtATime,
         NEW h \in Handlers, NEW m \in Members, Receive(h, m[1], m[2])
  PROVE  PatientInv'
<1>1. m[1] \in Chats /\ m[2] \in Users
  BY DialogAssumption
<1>2. PICK r \in Updates(m[1], m[2]) : handler' = [handler EXCEPT ![h] = r]
  BY DEF Receive
<1>3. /\ r.chat = m[1] /\ r.told = "nothing"
      /\ r.pc \notin {"create", "reset"}
  BY <1>2 DEF Updates, Job
<1>4. Busy(m[1]) = {}
  <2>1. IsFiniteSet(Busy(m[1]))
    BY FS_Subset DEF Busy, OneTapAtATime
  <2>2. Cardinality(Busy(m[1])) < 1
    BY DEF Receive, OneTapAtATime
  <2> QED
    BY <2>1, <2>2, FS_CardinalityType, FS_EmptySet
<1>5. \A k \in Handlers : handler[k].chat # m[1]
  BY <1>4 DEF Busy
<1>6. \A k \in Handlers : handler'[k] = IF k = h THEN r ELSE handler[k]
  BY <1>2 DEF HandlerInv
<1>7. UNCHANGED dialog
  BY DEF Receive, storeVars
<1>8. Alone'
  BY <1>1, <1>3, <1>5, <1>6 DEF PatientInv, Alone
<1>9. \A k \in Handlers : Attended(handler[k])'
  BY <1>3, <1>6, <1>7 DEF PatientInv, Attended
<1> QED
  BY <1>8, <1>9 DEF PatientInv

LEMMA NextPatient ==
  ASSUME StoreInv, HandlerInv, PatientInv, OneTapAtATime, [Next]_vars
  PROVE  PatientInv'
<1>1. CASE UNCHANGED vars \/ Tick
  BY <1>1 DEF vars, Tick, storeVars, PatientInv, Alone, Attended
<1>2. CASE Restart
  <2>1. Alone'
    BY <1>2, DialogAssumption DEF Restart, Alone, Rest, Job
  <2>2. \A h \in Handlers : Attended(handler[h])'
    BY <1>2 DEF Restart, Attended, Rest, Job
  <2> QED
    BY <2>1, <2>2 DEF PatientInv
<1>3. CASE \E h \in Handlers, m \in Members : Receive(h, m[1], m[2])
  BY <1>3, ReceiveAttends
<1>4. CASE \E h \in Handlers : Run(h)
  BY <1>4, BrowseAttends, ConfirmAttends, OthersAttend DEF Run
<1> QED
  BY <1>1, <1>2, <1>3, <1>4 DEF Next

THEOREM PatientInvariance ==
  ASSUME OneTapAtATime
  PROVE  Spec => [](IInv /\ PatientInv)
<1>1. Init => IInv /\ PatientInv
  BY InitIInv, InitPatient
<1>2. IInv /\ PatientInv /\ [Next]_vars => (IInv /\ PatientInv)'
  BY NextIInv, NextPatient DEF IInv
<1> QED
  BY <1>1, <1>2, PTL DEF Spec

(* Whoever waits for each answer and is told that the slot was taken is    *)
(* led back to the days, whatever the other chats do (onConfirm).          *)
THEOREM LosersGoOn ==
  ASSUME OneTapAtATime
  PROVE  Spec => []LoserStaysInDialog
<1>1. IInv /\ PatientInv => LoserStaysInDialog
  BY DEF PatientInv, Attended, LoserStaysInDialog, CanTransition, allowedTransitions
<1> QED
  BY <1>1, PatientInvariance, PTL

=============================================================================
