# Verification of go-booking-bot

TLA+ specifications of the Telegram booking bot, checked with TLC, and theorems
about them proved with TLAPS. Paths and lines refer to the repository.

## 1. Inventory: the parts of the system

| Component | State | Operations | Hard part |
|---|---|---|---|
| Booking transactions `internal/storage/bookings.go` | tables `schedule_slots.is_booked`, `bookings` | `CreateBooking`, `CancelBooking`, three queries | concurrent transactions, row locks, failure between statements, a commit whose reply is lost |
| Dialog state machine `internal/telegram/fsm.go` | per-chat `State` under a mutex, in memory | `Get`, `Advance`, `Reset` | old buttons, several goroutines per chat, lost at a restart |
| Update handlers `internal/telegram/handler.go` | none of their own | one handler per message or callback | each reads the store, the database and Telegram in separate steps |
| Slot queries `internal/storage/slots.go` | reads slots and the clock | `FreeSlotsForDay`, `DaysWithFreeSlots`, `SlotByID` | lists that are stale when a button is pressed |
| Shutdown `cmd/bot/main.go`, `Wait`, `processMiddleware` | two contexts, a WaitGroup, the pool | signal, wait, close | order of cancellation, handlers that hang or have not begun |
| Startup `main.go`, `storage.go` | schema, pool | `Migrate`, `New`, `pingWithRetry` | retries, cancellation |
| Seed and admin sync `seed.go`, `admins.go` | tables `services`, `schedule_slots`, `admins` | `Seed`, `SyncAdmins` | two instances at once, failure halfway |
| Time `internal/domain/schedule.go` | pure | `DayBounds`, `GenerateSlotStarts`, `UpcomingDays`, `ParseDay` | clock changes of the time zone |
| Paging and splitting `pagination.go`, `split.go`, `format.go`, `sendLong` | pure, over a table that changes | `paginate`, `SplitMessage`, `buildDayReport` | pages read one after the other, boundaries, characters of several bytes |
| Callbacks and keyboards `callback.go`, `keyboards.go` | pure | `NewCallback`, `ParseCallback` | hand-made data |
| Configuration `config.go` | read once | `Load`, `ParseAdminIDs`, `IsAdmin` | what is rejected; the environment changes between restarts |

How they interact. The library go-telegram/bot (external) polls Telegram and
runs `handleUpdate` in a new goroutine for every update; nothing orders two
updates of one chat. A handler calls the store (one mutex per call, none across
calls), the storage (one transaction or query per call) and Telegram (a send
whose error is only logged). `main` cancels the polling on a signal, waits for
the handlers that counted themselves, cancels their context and closes the pool.

What makes each part correct: a slot is held by at most one active booking and
never lost; a call of the storage is atomic and always returns; a dialog never
skips a step and a client who loses a race can go on; only an owner or an
administrator cancels; nobody is told what was not committed; a signal ends the
process and breaks nothing off before the grace period is over; a list can be
sent, covers its day, and its buttons are about what its text says. The hazards,
with the line where each bites and the property that watches it, are in
`PROJECT.json`.

## 2. Modules

| Module | Models |
|---|---|
| `BookingLedger` | abstract: each successful call of the storage is one atomic step on slots and bookings |
| `BookingTx` | `CreateBooking` and `CancelBooking` statement by statement; implements `BookingLedger` |
| `BookingTxProofs` | theorems about `BookingTx` |
| `Dialog` | `fsm.go` and the handlers as goroutines, composed with `BookingLedger` as the database, and a clock |
| `MCDialog` | a client and an administrator, slots and their times, for TLC |
| `DialogProofs` | theorems about `Dialog` |
| `Shutdown` | `run` from `b.Start` on, `Wait`, `processMiddleware` |
| `ShutdownProofs` | theorems about `Shutdown` |
| `Schedule` | time zones, day bounds, generated slots, the slot queries and the buttons of the days, as operators |
| `Config` | `Load`, `ParseAdminIDs` and `envHour`, as operators |
| `Startup` | `run` up to `b.Start`, process after process beside one database, composed with `Schedule` and `Config` |
| `MCStartup` | zones, durations and environments, for TLC |
| `StartupProofs` | theorems about `Startup`, `Schedule` and `Config` |
| `Text` | `paginate` and the helpers of `SplitMessage`, as operators on sequences |
| `Callback` | `callback_data`: its making, its parsing, every inline keyboard, the dispatch of `handleCallback` |
| `Screens` | what the handlers show: lists, pages, messages and buttons, beside a table of bookings that changes; uses `Text` and `Callback` |
| `MCScreens` | bookings, their lines and hand-made data, for TLC |
| `Recursion` | lemmas about what folds and `FlattenSeq` compute, for the proofs |
| `CallbackProofs` | theorems about `Callback` |
| `ScreensProofs` | theorems about `Screens` and `Text` |
| `MessageProofs` | theorems about `SplitMessage` in `Screens` |

### BookingTx

`call[t].pc` names the next statement of a call. `claim` is the conditional
`UPDATE` of `CreateBooking` (`ClaimSlot`, or `RefuseTaken` when no row matches),
`insert` the `INSERT`, `commitCreate` the `COMMIT`; `select`, `mark`, `free`,
`commitCancel` are those of `CancelBooking`. `isBooked` and `bookings` are the
committed tables, `slotLock` and `rowLock` the row locks, `drawn` the ids taken
from the sequence (not given back by a rollback). The reads of a row inside its
own transaction (`bookingByIDTx`) change nothing and are part of the statement
before them. `Fail` is an error of any statement, a cancelled context, a lost
connection or a crash; both commits may also succeed and answer with an error.
The answer of the last call stays in `pc` (`taken`, `notOwner`, ...).

PostgreSQL is modelled as far as the code relies on it: READ COMMITTED, row
locks held to the end of the transaction, a blocked statement re-evaluated on
the newest row, a unique index that waits for open transactions.

### Dialog

One action per access to something shared, so that everything another goroutine
can do between two accesses is explored: `CheckConfirm` (`Get`), `Booked` or
`Taken` (`CreateBooking`), `ResetAfterBooking` (`Reset`), `Notify` (one send) are
the steps of `onConfirm`. `showDays` is `ReadDays` then `AdvanceDay`,
`onDayChosen` is `ReadSlots` then `AdvanceSlot` or `showDays`. `Receive` starts a
handler for any button with any argument at any time. `Restart` forgets dialogs
and handlers and keeps the database. `walked` is a history variable: the steps a
dialog took since it was idle. `notices` is what has been told of bookings: the
confirmation to the chat (`handler[h].todo` begins with it), the notice to the
administrators and the message to a client whose booking an administrator
cancelled. A query that fails or finds no row ends a handler in `Refused`, as the
refusals of the storage do. `Taps` bounds the updates of one chat in flight:
1 is a client who waits for each answer.

### Shutdown

`main` goes from `polling` to `exited`; `task[h]` is a goroutine of an update,
`spawned` by the library before it is `counted` by `wg.Add(1)`. `torn` and
`early` are history variables.

### Schedule and Startup

Time is counted in units; a day has `Day` of them, and a zone is an offset
before and after at most one change of its clock (package time, external:
`Offset`, `Wall`, `Date`, `AddDays`). `DayStart` and `DayEnd` are `DayBounds`,
`GenerateSlotStarts` and `SeedSlots` the slots of the demo data,
`FreeSlotsForDay` and `DaysWithFreeSlots` the two queries (one cuts by day
bounds, the other counts by formatted day), `DayButtons` and `SlotsOfButton` what
a client sees and what a press leads to.

`Startup` follows `run`: `Migrate`, the attempts of `pingWithRetry` (`PingOk`,
`PingFails`), `CountServices` and the transaction `Seed`, `SyncAdmins`, `NewBot`.
Every stage may fail (`StageFails`); a commit may take effect and answer with an
error (`Committed`); a signal cancels the context (`Signal`); the process may die
anywhere (`Stop`) and is started again (`Launch`), maybe in another environment.
`Launch` contains `Load`: an environment that is not accepted ends the process
before it touches the database. `Config` keeps of a variable what the code tells
apart (set or not, a number or not, blank), and of `ADMIN_TG_IDS` the parts between
the commas. The tables survive. Processes run one at a time. The working hours
are one per database (`EnvsAssumption`): who changes them after the seed has slots
of the old hours, which the code does not claim to correct.

The time zone arithmetic is in `Schedule` alone. `Dialog` needs only that days
follow each other and uses days of equal length.

### Screens, Callback and Text

`job` is a list on its way to a chat, with the local variables of `showMyBookings`
or `onAdminDay`, `SplitMessage` and `sendLong`: the bookings shown (`list`), the
lines (`text`), those not yet split (`rest`), the buffer (`buf`), the messages made
(`msgs`), how many of them were sent (`sent`), the keyboard (`kb`) and the chat
(`chat`). `CutLine` is an iteration of the inner loop of `SplitMessage`, `AddLine` the rest of an iteration
of the outer one, `EndSplit` the last flush, `SendMessage` an iteration of `sendLong`.
A handler permits the user and sends to the chat: `Members` says who presses where,
and `MCScreens` has a chat a client and an administrator share. Who reads a shared
chat is promised nowhere, and no property speaks of it.
One list is made at a time: lists of different users share only the tables, and
those change at any moment by `Book` and `Cancel`, between two pages too. `walk` is a
history variable: the pages of a day read one after the other since the first,
while the table stays as it is.

A text is a sequence of bytes, so that the limit and the cut inside a character
mean what they mean in the code; the text of a line is a constant. `callback_data`
is a sequence of tokens (an action, a number, a date, a separator), and every
button keeps beside its data the call it was made for, which `ButtonsWork` compares
with what `Dispatch` makes of the data. Any `AllData` may arrive: buttons for any
day and page, and hand-made data (`Forged`).

## 3. Runs

| Run | Question | Bounds |
|---|---|---|
| `storage` | do concurrent, failing transactions keep slots and bookings in agreement, without deadlock, as atomic steps of the ledger, and does every call return? | 3 calls, 1 slot, 2 clients, 2 ids |
| `dialog_taps` | do arbitrary buttons, two at a time, with crashes, skip a step, announce what is not so, lose a slot or cancel for a stranger? | 1 chat, client and administrator, 2 goroutines, 1 slot, 2 bookings, 3 instants |
| `dialog_patient` | can the loser of a race go on, and does every handler end? | 2 chats, 1 update each at a time, 1 slot, 1 booking |
| `shutdown` | does the process end, and is begun work finished first? | 3 goroutines |
| `startup` | are the demo data and the administrators right after any sequence of starts, failures and crashes, does startup end, and do the buttons of the days agree with the lists behind them across a clock change? | 5 zones, 11 environments (8 rejected), a day of 6 units, 2 services, 2 days seeded and offered, 2 attempts, the clock to 9 |
| `screens` | can every message be sent, is every list in agreement with its buttons, do the pages of a day cover it, do the buttons work, and does every list come to its end? | 5 bookings of one day, two at the same time, pages of 2, messages of 6 bytes, lines of 1 to 9 bytes, 9 hand-made data, a shared and a private chat, 3 instants |
| `v_double_tap`, `v_late_reset`, `v_shutdown`, `v_work_hours`, `v_first_connection`, `v_midnight` | disagreements of code and documentation, below | as above |

Why the bounds are enough: two transactions suffice for every conflict (one
holds, one waits) and the third is what a cycle or a second waiter needs; a slot
booked, cancelled and booked again takes two ids. All conflicts of the storage are
about one slot and its bookings; that two slots add none is what the theorems of
`BookingTxProofs` say, which hold for any number. In `dialog_taps` the clock passes
the start and the end of the slot. Two updates at a time are the least that races in a chat.
In `startup` 2 attempts stand
for 10 (the first, and the last), 2 days for 7 (today, and a day after it), and
the clock runs past the change of every zone and past the last slot seeded at
the start; the zones lie west and east of UTC, with the clock going forward, back
and not at all. They are zones in which every day begins at midnight; `v_midnight`
shows what happens elsewhere. The environments are an accepted one, one with
blanks, repetitions and a default, one without administrators, and each way to be
rejected. In `screens` five bookings make three pages, the last one short, the
equal starts lie across a page boundary, the header and the lines meet the limit
exactly and exceed it by one, and one line is longer than a message, with a
character of two bytes at the cut. That whole lines stay together is checked, and
proved, for lists in which no line is longer than a message; that a page is not
empty, and not that it is the nearest one. The symmetry sets contain only values no definition tells apart,
and are used in `dialog_taps` alone. `CHECK_DEADLOCK FALSE` is set for `Shutdown`
alone: the process ends.

Each property of a passing run has a mutant in its module (`Mutant...`): the
definition as a plausible slip would leave it, for which TLC finds the property
violated.

### Fairness

- `BookingTx!FairSpec`: strong fairness of the statements of each call, because
  the server grants row locks in the order of arrival. Failures and new calls
  are not fair.
- `Dialog!FairSpec`: weak fairness of each running goroutine (Go scheduler;
  database and Telegram answer or fail). Nobody has to press a button.
- `Shutdown!FairSpec`: weak fairness of the main goroutine, its timer, the
  worker, and of a statement in a cancelled context. None for the progress of a
  handler: it may hang.
- `Startup!FairSpec`: weak fairness of the process as a whole: every call it
  makes returns, with an answer or an error. `pingWithRetry` has a timeout of its
  own; that `Migrate`, `Seed` and `SyncAdmins` return is an assumption. Nobody has
  to start the process, and the database need never be up.
- `Screens!FairSpec`: weak fairness of the goroutine that composes and sends a
  list (Go scheduler; a send ends, with success or an error). Nobody has to ask
  for a list.

### Disagreements found

- `v_double_tap`: two taps on Confirm both pass the check of `onConfirm`; the
  second is told that somebody took the slot, which the client's own booking
  did, and the dialog has been reset, so the recovery is refused. DECISIONS.md
  calls the check a protection against a repeated tap.
- `v_late_reset`: `onConfirm` checks the state before the booking and resets it
  after, in separate steps. A dialog the client begins in between, with /book or a
  button, is discarded, and its buttons are answered as out of date. DECISIONS.md
  says of `Advance` that a check apart from the write would be a race, because
  updates run in goroutines of their own; this is one.
- `v_shutdown`: a goroutine counts itself after it was started, so `Wait` can
  return before it has run.
- `v_work_hours`: `GenerateSlotStarts` adds the working hours to midnight as
  durations; on a day whose clock goes forward the slots are an hour late on the
  wall clock and the last ones end after the working day.
- `v_first_connection`: `run` migrates before it creates the pool, so a database
  that is not ready ends the process before the first ping. The comment of
  `pingWithRetry` and DECISIONS.md say that the first connections are retried.
- `v_midnight`: where the clock skips midnight (America/Havana), `time.Date` answers
  23:00 of the day before. `DayBounds` of the day's button is then the day before,
  while the number on the button counts the slots of the day: DECISIONS.md says
  that the number and the list agree by definition.

Seen while modelling, and promised nowhere: the button "К слотам" (to the slots)
of `confirmKeyboard` leads to the days; a blank line at the beginning of a message is
dropped; the numbers of the lines of a day begin anew on every page; bookings that
start at the same time may change places between two pages, so that one of them
is not shown; a slot chosen before it starts can be confirmed after (only the lists
leave past slots out); the lists of `/day` and of a client's bookings are read by
every member of the chat the button is in.

## 4. Proofs

`BookingTxProofs`, for any numbers of goroutines, slots, clients and ids, from
`NoneAssumption` (the null value is none of the others):
`TypeCorrect`, `SlotsAndBookingsAgree`, `IndexIsOnlyABackstop`, `DeadlockFree`,
`RefusalsAreTruthful`, `TransactionsImplementLedger`.

The property that slots and bookings agree is not inductive. `IInv` adds what a
transaction may rely on after its lock: a lock is held exactly from the
statement that takes it to the end (`SlotLocks`, `RowLocks`), a claimed slot is
free in the committed table (`ClaimedIsFree`), a selected row is still active and
permitted (`SelectedIsActive`), an id is drawn once (`IdsFresh`), and the locals a
statement uses are set (`ArgsSet`). There is one lemma per action. Absence of
deadlock follows because a call that holds a lock never waits
(`HoldersNeverWait`) and only holders are waited for. The refinement maps each
commit to a step of the ledger and every other statement to a stutter.

`DialogProofs`, for any chats, users, services, slots with any times, and any
number of goroutines per chat (`dialog_taps` has two), from `DialogAssumption` and
`NoneIsNoRow`: `TypeCorrect`, `StepsInOrder`, `OnlyTheCommittedIsAnnounced`,
`SlotsStayInReach`, `OnlyOwnersAndAdminsCancel`, and, where a chat has one update at
a time, `LosersGoOn`. Its `IInv` has a part for each
kind of state. `StoreInv`: a dialog has taken the step it is in and those before
it; a goroutine that advances a dialog with an old button needs no more, since
`Advance` checks and writes in one critical section. `HandlerInv`: the arguments of
the next step are set. `LedgerInv` (`SlotsHeld`): a slot that is not free is held by
an active booking. `NoticeInv`: what a goroutine is about to announce is already
in the database, and stays so because rows are never deleted nor made active
again (`RowsStay`).

`LosersGoOn` is what `v_double_tap` refutes for two updates of a chat at once; it
assumes `OneTapAtATime` (`Taps` is 1, as in `dialog_patient`, and the goroutines are
finitely many, so that a set of those busy with a chat has a size). Its invariant is
`PatientInv`: no two goroutines work for one chat (`Alone`), and from its look at the
dialog to its answer a goroutine leaves the dialog at the confirmation (`Attended`).

`Recursion` is what the proofs about folds and concatenations rest on. The library
states induction with an operator as a parameter, which the provers cannot
instantiate; here it is stated of a set of numbers, from the least element of its
complement (`LeastNumber`, `Induction`, `InductionTo`). From that follow the
existence and uniqueness of a function that recurs (`RecursionTo`, `SameRecursion`),
so that the functions `FoldLeft` and `FlattenSeq` choose can be unfolded
(`FoldExists`, `FoldRuns`, `FlattenRuns`) and stepped by one element
(`RunOneMore`, `FlattenOneMore`, `FlattenConcat`).

`ShutdownProofs`, for any finite set of goroutines: `TypeCorrect`, with the
counter of the WaitGroup, and `CountedWorkIsFinished`.

`StartupProofs`, for any zones, services, durations, environments and numbers of
attempts: `TypeCorrect`, `SeedIsIdempotent`, `AdminsAreThisProcess`, `AdminsAreNotifiedOnce`,
`AcceptedHours` (what `Load` lets through), and `FixedZonesKeepWorkHours`: what `v_work_hours` refutes holds in
every zone whose clock never changes. `CountersAreRight` and `SlotsAreInReach` are
`ButtonsAgreeWithLists` and `EverySlotHasAButton` for all zones in which the clock
never changes or changes strictly between two midnights (`ChangesWithinADay`, true
of `RegularZones` of `MCStartup` and false of the zone of `v_midnight`). There every
day has a midnight and an instant belongs to that day or a later one exactly when it
is not before it (`MidnightSeparates`); so `DayBounds` and `AddDate` lead from
midnight to midnight (`BoundsAreMidnights`) and counting by day selects the
same slots as the interval of the day (`CountedSlotsAreListed`). For
`AdminsAreNotifiedOnce` the loop of `ParseAdminIDs` is followed part by part
(`CollectAll`): the list has the ids of the parts read so far, each once, and a
list without repetitions is as long as its set (`AsManyAsElements`).

`CallbackProofs`, for any ids, dates, pages and lists: `KeyboardsWork`. `strings.Split`
divides at every separator and nowhere else (`SplitAt`, `SplitWhole`), so the data
`NewCallback` joins comes apart into the action and the arguments it was made of
(`PressedWithOne`, `PressedWithTwo`), which the dispatch reads back as the call of
the button; the bytes are counted token by token.

`ScreensProofs`, for any bookings with any starts, any lines that are UTF-8, any
size of a page, any limit of at least four bytes and any hand-made data, from
`ScreensAssumption`: `TypeCorrect`, `MessagesAlwaysFit`, `NoListIsEmpty`,
`TextsAgreeWithButtons`, `WalksCoverEveryStart`, `ButtonsAlwaysWork`. Its `IInv`
has three parts. `JobInv`: what is left to split is text (it begins with a character, and one begins in any four
bytes), which the cut preserves (`CutAtCharacter`, `RestIsText`), and the buffer and
the messages made so far can be sent. `ListInv`: text and keyboard name the bookings
of the same list (`LinesNameTheList`, `PageKeyboardCancels`). `WalkInv`: the pages read
so far are the beginning of an order of the day's bookings, as far as the starts
tell; that every page begins where the one before it ended is arithmetic of
`paginate` (`PageOfList`), and that two orders of one set have the same start at each
place is a pigeonhole argument (`NotAhead`, `SameStarts`). Counting the places of one
start (`PlacesOfAStart`) gives the lines the walk shows of it; which booking stands at a
place two of them could have is left open, in the code too.

`ButtonsAlwaysWork` and the types follow from a second invariant, `TypeInv`, that is
inductive beside `IInv`: every keyboard shown works, by `KeyboardsWork`.

`MessageProofs`, from the same assumptions: `NothingIsDropped` and
`SplittingAdvances`. What a text says is taken apart by two operators, the lines that
are not blank (`SplitLines`) and their bytes (`Letters`). Both turn a joining of texts
by a line feed into a concatenation (`SplitLinesJoined`), `Letters` also the cutting
of a text anywhere (`LettersConcat`). The invariant is `SplitInv`: the messages made,
the buffer and the lines that are left say together what the list says, and say it
line by line as long as no line is longer than the limit. Joining the buffer,
flushing it and cutting a line each preserve that sum (`JoinSaysTheSame`,
`PutSaysTheSame`, `CutSaysTheSame`); at the end it is the messages alone
(`SaidAtTheEnd`). `SplittingAdvances` is the safety half of `ListsEnd`: every iteration
decreases what is left in a well-founded order, because `safeCut` never answers 0.

Only model-checked: termination (`CallsTerminate`, `HandlersFinish`,
`SignalEndsProcess`, `StartupEnds`, `ListsEnd`; liveness is outside the prover). Every
safety property of a passing run is a theorem.

## 5. Plan

Open, in this order: measures for the other loops that `CallsTerminate`,
`StartupEnds` and `SignalEndsProcess` are about, as `SplittingAdvances` is one for
`ListsEnd`; the database of `Dialog` shown to take steps of `BookingLedger` only, by
theorem (each of its actions names that action, so this says little); two processes
that start at once, once something is promised for them.

Not modelled, and why: wording, labels and rows of keyboards (layout); logging and
the choice of its format; `State.Day` (never read); inactive services (nothing
deactivates one); the record types of `domain.go` and `ServiceByID`
(rows that do not change after the seed; `ActiveServices` is in `Screens`); the statements of the migrations (goose,
one step); the parsing of the URL in `New` (`Migrate` has used the same URL before). A panic in a handler, which `processMiddleware` recovers from, is one of
the ways a goroutine of `Shutdown` may end. Delivery of notices: a send is tried once and its failure logged, so no
property promises it.
