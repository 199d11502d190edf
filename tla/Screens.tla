------------------------------- MODULE Screens -------------------------------
(***************************************************************************)
(* What the bot shows: the lists of bookings (showMyBookings, onAdminDay), *)
(* cut into pages and messages, and the keyboards below them.  Clients     *)
(* book and cancel meanwhile, and any button may be pressed, of an old     *)
(* message or made by hand.                                                *)
(*                                                                         *)
(* A list is made for the user who pressed the button, and goes to the     *)
(* chat the button is in, where every member reads it.                     *)
(*                                                                         *)
(* One list is composed and sent at a time; other goroutines appear as     *)
(* changes of the table bookings (BookingLedger).  SplitMessage is modelled*)
(* iteration by iteration, sendLong message by message.                    *)
(***************************************************************************)
EXTENDS Callback

CONSTANTS
    Bookings,    \* ids of bookings (a bound), integers, with their columns:
    Start,       \*   slot_start
    End,         \*   slot_end
    Client,      \*   client_tg_id
    Line,        \*   the line of a list (a text; it names the id)
    Chats,       \* Telegram chats
    Users,       \* Telegram users
    Members,     \* who presses buttons where: pairs <<chat, user>>
    Admins,      \* cfg.AdminTgIDs
    Services,    \* ids of services
    Header,      \* the first line of any list (a text)
    Label,       \* the line with the number of the page (a text)
    DayLength,   \* instants in a day of the business time zone
    Horizon,     \* bookingHorizonDays
    PageSize,    \* adminPageSize
    Limit,       \* splitLimit
    Forged,      \* callback_data made by hand (a bound)
    MaxNow       \* the clock stops here (a bound)

(* UTF-8: a text begins with a character, and a character has at most four *)
(* bytes.                                                                  *)
WholeCharacters(text) ==
    /\ text # <<>> => isUTF8Start(text[1])
    /\ \A i \in DOMAIN text : i + 3 \in DOMAIN text =>
          \E j \in i .. i + 3 : isUTF8Start(text[j])

IsText(text) == text \in Seq(0 .. 255) /\ WholeCharacters(text)

ASSUME ScreensAssumption ==
    /\ Members \subseteq Chats \X Users
    /\ Bookings \subseteq Int
    /\ IsFiniteSet(Bookings)
    /\ Services \subseteq Int
    /\ IsFiniteSet(Services)
    /\ Start \in [Bookings -> Nat]
    /\ End \in [Bookings -> Nat]
    /\ Client \in [Bookings -> Users]
    /\ \A b \in Bookings : IsText(Line[b]) /\ Line[b] # <<>>
    /\ \A a, b \in Bookings : Line[a] = Line[b] => a = b
    /\ IsText(Header) /\ IsText(Label)
    /\ \A b \in Bookings : Line[b] \notin {Header, Label}
    /\ Len(Header) \in 1 .. Limit
    /\ Forged \subseteq Seq(Tokens)
    /\ DayLength \in Nat \ {0}
    /\ Horizon \in Nat \ {0}
    /\ PageSize \in Nat \ {0}
    /\ Limit \in Nat /\ Limit >= 4
    /\ MaxNow \in Nat

VARIABLES
    status,      \* per id: none (not used yet), active or cancelled
    now,         \* the clock h.now reads
    job,         \* the list being composed and sent, with the local variables
    walk         \* history: the pages of a day read one after the other

vars == <<status, now, job, walk>>

Idle == [pc |-> "idle", chat |-> "nowhere", list |-> <<>>, text |-> <<>>,
         rest |-> <<>>, buf |-> <<>>, msgs |-> <<>>, sent |-> 0, kb |-> <<>>]

NoWalk == [day |-> 0, next |-> 0, total |-> 0, seen |-> <<>>]

Init ==
    /\ status = [b \in Bookings |-> "none"]
    /\ now = 0
    /\ job = Idle
    /\ walk = NoWalk

-----------------------------------------------------------------------------
(* The queries: ORDER BY slot_start leaves the order of equal starts open. *)
InOrder(S) ==
    {list \in SetToSeqs(S) :
        \A i, j \in DOMAIN list : i < j => Start[list[i]] <= Start[list[j]]}

ActiveServices ==
    {list \in SetToSeqs(Services) : \A i, j \in DOMAIN list : i < j => list[i] < list[j]}

Active == {b \in Bookings : status[b] = "active"}

DayOf(t) == t \div DayLength

ActiveBookingsForDay(d) == {b \in Active : DayOf(Start[b]) = d}

ActiveBookingsByClient(u) == {b \in Active : Client[b] = u /\ End[b] >= now}

UpcomingDays == [i \in 1 .. Horizon |-> DayOf(now) + i - 1]

IsAdmin(u) == u \in Admins

-----------------------------------------------------------------------------
(* A text that is short enough goes out as it is.                          *)
Send(c, kb) ==
    job' = [Idle EXCEPT !.pc = "send", !.chat = c, !.msgs = <<Header>>, !.kb = kb]

(* A text without buttons: the query failed, there is nothing to list or   *)
(* it is not for this user.                                                *)
fail(c) == Send(c, <<>>)

(* sendLong: the lines are split first.                                    *)
SendLong(c, list, lines, kb) ==
    job' = [Idle EXCEPT !.pc = "split", !.chat = c, !.list = list,
                        !.text = lines, !.rest = lines, !.kb = kb]

(* The first lines of a list, and one line for each booking.               *)
Lines(list) == <<Header, <<>>>> \o [i \in DOMAIN list |-> Line[list[i]]]

(* Mutant: the text has every booking of the day, the buttons those of the *)
(* page.                                                                   *)
MutantDayReport(all, shown) ==
    Lines(all) \o IF shown.total > 1 THEN <<<<>>, Label>> ELSE <<>>

(* buildDayReport and the number of the page.                              *)
DayReport(all, shown) ==
    Lines(shown.items) \o IF shown.total > 1 THEN <<<<>>, Label>> ELSE <<>>

(* The keyboards of the dialog.                                            *)
ShowDialogStep(c) ==
    /\ job = Idle
    /\ \E svc \in Services, slot \in Bookings :
          \/ \E list \in ActiveServices : Send(c, servicesKeyboard(list))
          \/ Send(c, daysKeyboard(svc, UpcomingDays))
          \/ Send(c, slotsKeyboard(svc, <<slot>>))
          \/ Send(c, confirmKeyboard(slot, svc))
          \/ fail(c)
    /\ UNCHANGED <<status, now, walk>>

showAdminDayPicker(c, u) ==
    /\ job = Idle
    /\ \/ IsAdmin(u) /\ Send(c, adminDaysKeyboard(UpcomingDays))
       \/ ~IsAdmin(u) /\ fail(c)
    /\ UNCHANGED <<status, now, walk>>

showMyBookings(c, u) ==
    /\ job = Idle
    /\ \/ fail(c)
       \/ \E list \in InOrder(ActiveBookingsByClient(u)) :
             /\ list # <<>>
             /\ SendLong(c, list, Lines(list), myBookingsKeyboard(list))
    /\ UNCHANGED <<status, now, walk>>

(* History: the pages read since the first one, while the table stays as   *)
(* it is.                                                                  *)
Walked(d, shown) ==
    IF shown.page = 0
    THEN [day |-> d, next |-> 1, total |-> shown.total, seen |-> shown.items]
    ELSE IF walk.total > 0 /\ walk.day = d /\ walk.next = shown.page
    THEN [walk EXCEPT !.next = @ + 1, !.seen = @ \o shown.items]
    ELSE NoWalk

(* Every page is a query of its own.                                       *)
onAdminDay(c, u, data) ==
    LET call == Dispatch(data) IN
    /\ job = Idle
    /\ call.on = "aday"
    /\ IsAdmin(u)
    /\ \/ fail(c) /\ walk' = walk
       \/ \E all \in InOrder(ActiveBookingsForDay(call.date)) :
             LET shown == paginate(all, call.page, PageSize) IN
             /\ all # <<>>
             /\ SendLong(c, shown.items, DayReport(all, shown),
                         adminPageKeyboard(shown.items, call.date, shown.page, shown.total))
             /\ walk' = Walked(call.date, shown)
    /\ UNCHANGED <<status, now>>

-----------------------------------------------------------------------------
(* SplitMessage                                                            *)

(* Mutant: the buffer is reset before it is appended.                      *)
MutantFlushed == job.msgs

Flushed == IF job.buf = <<>> THEN job.msgs ELSE Append(job.msgs, job.buf)

Joined(line) == IF job.buf = <<>> THEN line ELSE job.buf \o <<NL>> \o line

(* Mutant: the line feed is not counted.                                   *)
MutantFits(line) == Len(job.buf) + Len(line) <= Limit

Fits(line) == Len(Joined(line)) <= Limit

(* The inner loop: a line longer than a message is cut.                    *)
CutLine ==
    LET line == Head(job.rest)
        cut  == safeCut(line, Limit)
    IN /\ job.pc = "split" /\ job.rest # <<>>
       /\ Len(line) > Limit
       /\ job' = [job EXCEPT
             !.msgs = Append(Flushed, SubSeq(line, 1, cut)),
             !.buf  = <<>>,
             !.rest = <<SubSeq(line, cut + 1, Len(line))>> \o Tail(@)]
       /\ UNCHANGED <<status, now, walk>>

(* The rest of the outer loop: the line joins the message or begins the    *)
(* next one.  A blank line leaves no trace at the beginning of a message.  *)
AddLine ==
    LET line == Head(job.rest) IN
    /\ job.pc = "split" /\ job.rest # <<>>
    /\ Len(line) <= Limit
    /\ job' = IF Fits(line)
              THEN [job EXCEPT !.buf = Joined(line), !.rest = Tail(@)]
              ELSE [job EXCEPT !.msgs = Flushed, !.buf = line, !.rest = Tail(@)]
    /\ UNCHANGED <<status, now, walk>>

EndSplit ==
    /\ job.pc = "split" /\ job.rest = <<>>
    /\ job' = [job EXCEPT !.pc = "send", !.msgs = Flushed, !.buf = <<>>]
    /\ UNCHANGED <<status, now, walk>>

(* Mutant: the message with the keyboard is sent again until it arrives.   *)
MutantSendMessage ==
    /\ job.pc = "send" /\ job.sent < Len(job.msgs)
    /\ \/ job' = [job EXCEPT !.sent = @ + 1]
       \/ job' = [job EXCEPT !.sent = 0]
    /\ UNCHANGED <<status, now, walk>>

(* Mutant: one message too many.                                           *)
MutantSendTooMany ==
    /\ job.pc = "send" /\ job.sent <= Len(job.msgs)
    /\ job' = [job EXCEPT !.sent = @ + 1]
    /\ UNCHANGED <<status, now, walk>>

(* One message, the last one with the keyboard.  A failure is only logged. *)
SendMessage ==
    /\ job.pc = "send" /\ job.sent < Len(job.msgs)
    /\ job' = [job EXCEPT !.sent = @ + 1]
    /\ UNCHANGED <<status, now, walk>>

Done ==
    /\ job.pc = "send" /\ job.sent = Len(job.msgs)
    /\ job' = Idle
    /\ UNCHANGED <<status, now, walk>>

(* The process dies; what was composed is gone.                            *)
Crash ==
    /\ job # Idle
    /\ job' = Idle
    /\ UNCHANGED <<status, now, walk>>

-----------------------------------------------------------------------------
(* Meanwhile: CreateBooking and CancelBooking of other goroutines (Dialog).*)
Change(b, from, to) ==
    /\ status[b] = from
    /\ status' = [status EXCEPT ![b] = to]
    /\ walk' = NoWalk
    /\ UNCHANGED <<now, job>>

Book(b) == Change(b, "none", "active")

Cancel(b) == Change(b, "active", "cancelled")

Tick ==
    /\ now < MaxNow
    /\ now' = now + 1
    /\ UNCHANGED <<status, job, walk>>

(* Every callback_data: those of the keyboards, however old, and others.   *)
Days == 0 .. (DayOf(MaxNow) + Horizon - 1)

Pages == 0 .. Cardinality(Bookings)

AllData ==
    {AdminDayButton(d).data : d \in Days}
      \union {PageButton(d, p).data : d \in Days, p \in Pages}
      \union Forged

Show ==
    \E m \in Members :
        \/ ShowDialogStep(m[1])
        \/ showAdminDayPicker(m[1], m[2])
        \/ showMyBookings(m[1], m[2])
        \/ \E data \in AllData : onAdminDay(m[1], m[2], data)

Compose ==
    \/ CutLine
    \/ AddLine
    \/ EndSplit
    \/ SendMessage
    \/ Done

Next ==
    \/ Show
    \/ Compose
    \/ Crash
    \/ \E b \in Bookings : Book(b) \/ Cancel(b)
    \/ Tick

Spec == Init /\ [][Next]_vars

(* The goroutine is scheduled, and Telegram answers or the send fails.     *)
FairSpec == Spec /\ WF_vars(Compose)

-----------------------------------------------------------------------------
Texts == Seq(Seq(0 .. 255))

TypeOK ==
    /\ status \in [Bookings -> {"none", "active", "cancelled"}]
    /\ now \in 0 .. MaxNow
    /\ job \in [pc : {"idle", "split", "send"}, chat : Chats \union {"nowhere"},
                list : Seq(Bookings), text : Texts, rest : Texts,
                buf : Seq(0 .. 255), msgs : Texts, sent : Nat, kb : Seq(Buttons)]
    /\ job.sent <= Len(job.msgs)
    /\ walk \in [day : Int, next : Nat, total : Nat, seen : Seq(Bookings)]

(* Telegram takes every message: none is longer than the limit, none is    *)
(* empty, and no character is torn between two (comments of SplitMessage   *)
(* and safeCut).                                                           *)
MessagesFit ==
    \A i \in DOMAIN job.msgs :
        /\ Len(job.msgs[i]) \in 1 .. Limit
        /\ isUTF8Start(job.msgs[i][1])

(* Lines without the blank ones.                                           *)
NotBlank(lines) ==
    FlattenSeq([i \in DOMAIN lines |-> IF lines[i] = <<>> THEN <<>> ELSE <<lines[i]>>])

(* What several texts say, line by line.                                   *)
LinesOf(texts) == FlattenSeq([i \in DOMAIN texts |-> NotBlank(Split(texts[i], NL))])

(* Nothing of a list is lost, doubled or moved by cutting it into messages,*)
(* and a line is broken only when it is longer than a message (comment of  *)
(* SplitMessage).                                                          *)
NothingDropped ==
    job.pc = "send" /\ job.text # <<>> =>
        /\ FlattenSeq(LinesOf(job.msgs)) = FlattenSeq(LinesOf(job.text))
        /\ (\A i \in DOMAIN job.text : Len(job.text[i]) <= Limit) =>
              LinesOf(job.msgs) = LinesOf(job.text)

(* A list has a cancel button for each booking it names and for no other   *)
(* (docs/DECISIONS.md:102 tells of a text that named more than the page).  *)
TextAgreesWithButtons ==
    job.text # <<>> =>
        {b \in Bookings : Line[b] \in ToSet(job.text)} =
            {button.call.int : button \in {k \in ToSet(job.kb) : k.call.on \in {"cxl", "acxl"}}}

(* Every button that was made is understood: its data comes back as the    *)
(* call it was made for, and fits into the 64 bytes of Telegram (comment   *)
(* of the actions in callback.go).                                         *)
ButtonsWork ==
    \A i \in DOMAIN job.kb :
        /\ Dispatch(job.kb[i].data) = job.kb[i].call
        /\ Bytes(job.kb[i].data) <= 64

(* A list that is sent has bookings on it: a button of an old message, for *)
(* a page there is no more, shows one there is (docs/DECISIONS.md:61).     *)
NoEmptyList == job.text # <<>> => job.list # <<>>

(* Whoever reads the pages of a day from the first to the last sees, at    *)
(* every start, as many lines as the day has bookings then, and no booking *)
(* of another day, as long as the table does not change: no page is short, *)
(* doubled or skipped (paginate, the page buttons and their dispatch).  A  *)
(* booking that is alone at its start is thus shown exactly once; every    *)
(* page is a query of its own, so which of several bookings with equal     *)
(* starts a page shows is left open.                                       *)
WalkCoversEveryStart ==
    walk.total > 0 /\ walk.next = walk.total =>
        LET day == ActiveBookingsForDay(walk.day) IN
        /\ ToSet(walk.seen) \subseteq day
        /\ \A b \in day :
              Cardinality({i \in DOMAIN walk.seen : Start[walk.seen[i]] = Start[b]})
                  = Cardinality({a \in day : Start[a] = Start[b]})

(* Every list that is begun is sent to its end: the loops of SplitMessage  *)
(* terminate, whatever the lines.                                          *)
ListsEnd == job # Idle ~> job = Idle
=============================================================================
