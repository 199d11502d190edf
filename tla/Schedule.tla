------------------------------ MODULE Schedule ------------------------------
(***************************************************************************)
(* Days, working hours and slots of internal/domain/schedule.go in the     *)
(* business time zone, the two slot queries of internal/storage/slots.go   *)
(* and the slots Seed creates.                                             *)
(*                                                                         *)
(* An instant is an integer of equal units.  A wall clock is an integer    *)
(* too: day * Day + units since midnight.  A zone is a record: its offset  *)
(* from UTC is `before' until the instant `at' and `after' from then on;   *)
(* one change in the period modelled is the bound (real zones change twice *)
(* a year).                                                                *)
(***************************************************************************)
EXTENDS Integers, FiniteSets

CONSTANTS
    Day,         \* units in a day whose clock does not change
    WorkStart,   \* WORK_HOURS_START, in units
    WorkEnd,     \* WORK_HOURS_END, in units
    Services,    \* demoServices
    Duration,    \* duration_min of a service, in units
    SeedDays,    \* seedDays
    Horizon      \* bookingHorizonDays

ASSUME ScheduleAssumption ==
    /\ Day \in Nat \ {0}
    /\ WorkStart \in Nat
    /\ WorkEnd \in Nat
    /\ WorkStart < WorkEnd
    /\ WorkEnd < Day
    /\ Services # {}
    /\ Duration \in [Services -> Nat \ {0}]
    /\ SeedDays \in Nat \ {0}
    /\ Horizon \in Nat \ {0}

-----------------------------------------------------------------------------
(* Package time (external): Location.lookup, Time.In, Date and AddDate.    *)

Offset(z, t) == IF t < z.at THEN z.before ELSE z.after

Wall(z, t) == t + Offset(z, t)

(* Date looks the offset up as if the wall clock were UTC, and once more   *)
(* when the instant it finds is across the change of the clock.            *)
Date(z, wall) ==
    LET utc == wall - Offset(z, wall) IN
    IF (utc < z.at) = (wall < z.at) THEN utc ELSE wall - Offset(z, utc)

AddDays(z, t, n) == Date(z, Wall(z, t) + n * Day)

-----------------------------------------------------------------------------
(* schedule.go                                                             *)

FormatDay(z, t) == Wall(z, t) \div Day

ParseDay(z, d) == Date(z, d * Day)

(* DayBounds: start and end of the day of t.                               *)
DayStart(z, t) == Date(z, FormatDay(z, t) * Day)

(* Mutant: the next day is 24 hours later.                                 *)
MutantDayEnd(z, t) == DayStart(z, t) + Day

DayEnd(z, t) == AddDays(z, DayStart(z, t), 1)

GenerateSlotStarts(z, t, duration) ==
    LET workStart == DayStart(z, t) + WorkStart
        workEnd   == DayStart(z, t) + WorkEnd
    IN {u \in workStart .. (workEnd - duration) : (u - workStart) % duration = 0}

UpcomingDays(z, t, n) == {AddDays(z, DayStart(z, t), i) : i \in 0 .. (n - 1)}

-----------------------------------------------------------------------------
(* The slots Seed creates at instant t: none that has started.             *)
SeedSlots(z, t) ==
    UNION {{[svc |-> v, start |-> u] :
                u \in {w \in GenerateSlotStarts(z, d, Duration[v]) : w >= t}} :
           d \in UpcomingDays(z, t, SeedDays), v \in Services}

SlotEnd(slot) == slot.start + Duration[slot.svc]

(* slots.go, on the free slots.  The second query counts per formatted day *)
(* and leaves out the days without slots.                                  *)
FreeSlotsForDay(free, svc, from, to, notBefore) ==
    {s \in free : s.svc = svc /\ from <= s.start /\ s.start < to /\ s.start > notBefore}

DaysWithFreeSlots(z, free, svc, from, to, notBefore) ==
    LET found == FreeSlotsForDay(free, svc, from, to, notBefore) IN
    [d \in {FormatDay(z, s.start) : s \in found} |->
        Cardinality({s \in found : FormatDay(z, s.start) = d})]

(* Mutant: the query ends where the last day begins.                       *)
MutantDayButtons(z, free, svc, t) ==
    LET days   == UpcomingDays(z, t, Horizon)
        first  == DayStart(z, t)
        last   == AddDays(z, first, Horizon - 1)
        counts == DaysWithFreeSlots(z, free, svc, DayStart(z, first), DayStart(z, last), t)
    IN {<<d, counts[d]>> : d \in {FormatDay(z, u) : u \in days} \cap DOMAIN counts}

(* The buttons of daysKeyboard at instant t: day and number of slots.      *)
DayButtons(z, free, svc, t) ==
    LET days   == UpcomingDays(z, t, Horizon)
        first  == DayStart(z, t)
        last   == AddDays(z, first, Horizon - 1)
        counts == DaysWithFreeSlots(z, free, svc, DayStart(z, first), DayEnd(z, last), t)
    IN {<<d, counts[d]>> : d \in {FormatDay(z, u) : u \in days} \cap DOMAIN counts}

(* The list onDayChosen shows for a button pressed at instant t.           *)
SlotsOfButton(z, free, svc, d, t) ==
    LET day == ParseDay(z, d) IN
    FreeSlotsForDay(free, svc, DayStart(z, day), DayEnd(z, day), t)
=============================================================================
