------------------------------ MODULE Startup ------------------------------
(***************************************************************************)
(* The beginning of the process: run of cmd/bot/main.go up to b.Start,     *)
(* with Load of config.go (Config), Migrate, New and pingWithRetry of      *)
(* storage.go, Seed of seed.go and SyncAdmins of admins.go, started again  *)
(* and again beside one database, by one process at a time (Telegram lets  *)
(* only one poll).  Each transaction is one step; a commit may take effect *)
(* and answer with an error.  What clients are then offered is computed by *)
(* Schedule.                                                               *)
(***************************************************************************)
EXTENDS Schedule, Config

CONSTANTS
    Zones,       \* BUSINESS_TZ may be one of these
    Envs,        \* environments the process is started in (a bound)
    Attempts,    \* attempts of pingWithRetry
    MaxNow       \* the clock stops here (a bound)

ASSUME StartupAssumption ==
    /\ Zones \subseteq [at : Int, before : Int, after : Int]
    /\ Attempts \in Nat \ {0}
    /\ MaxNow \in Nat

(* An hour of the clock is Day / 24 units.  Whoever changes the hours in   *)
(* the environment starts another business: they are the same at every     *)
(* launch that is accepted.                                                *)
ASSUME EnvsAssumption ==
    /\ Envs \subseteq Environment
    /\ \A e \in Envs : Load(e).ok => /\ 24 * WorkStart = Day * Load(e).WorkHoursStart
                                     /\ 24 * WorkEnd = Day * Load(e).WorkHoursEnd

VARIABLES
    zone,        \* cfg.BusinessTZ; it does not change between restarts
    now,         \* the clock
    dbUp,        \* does the database answer?
    services,    \* table services
    slots,       \* table schedule_slots, all free here
    admins,      \* table admins
    pc,          \* where run is
    tries,       \* failed attempts of pingWithRetry
    seedNow,     \* the argument `now' of Seed
    env,         \* the environment of the process
    adminIDs,    \* cfg.AdminTgIDs
    signalled    \* is the context of the signal cancelled?

tables == <<services, slots, admins>>
cfg    == <<zone, env, adminIDs>>
vars   == <<zone, now, dbUp, services, slots, admins, pc, tries, seedNow,
            env, adminIDs, signalled>>

Starting == {"migrate", "ping", "count", "seed", "sync", "newBot"}

Stopped == {"down", "failed"}

Init ==
    /\ zone \in Zones
    /\ now = 0
    /\ dbUp \in BOOLEAN
    /\ services = {} /\ slots = {} /\ admins = {}
    /\ pc = "down"
    /\ tries = 0
    /\ seedNow = 0
    /\ env \in Envs
    /\ adminIDs = <<>>
    /\ signalled = FALSE

-----------------------------------------------------------------------------
(* The process is started, or started again (restart: on-failure), maybe   *)
(* in another environment.  One that is not accepted ends it at once.      *)
Launch ==
    /\ pc \in Stopped
    /\ env' \in Envs
    /\ LET config == Load(env') IN
       /\ pc' = IF config.ok THEN "migrate" ELSE "failed"
       /\ adminIDs' = IF config.ok THEN config.AdminTgIDs ELSE <<>>
    /\ UNCHANGED <<zone, now, dbUp, tables, tries, seedNow, signalled>>

(* The process ends, and its variables with it.                            *)
Exit(how) ==
    /\ pc' = how
    /\ tries' = 0
    /\ seedNow' = 0
    /\ signalled' = FALSE

(* A statement is executed: the database answers and the context is live.  *)
Answered == dbUp /\ ~signalled

(* Migrate connects once: no ping comes before it.                         *)
Migrate ==
    /\ pc = "migrate"
    /\ Answered
    /\ pc' = "ping"
    /\ UNCHANGED <<cfg, now, dbUp, tables, tries, seedNow, signalled>>

(* pingWithRetry succeeds; time.Now() is read for Seed.                    *)
PingOk ==
    /\ pc = "ping"
    /\ Answered
    /\ pc' = "count"
    /\ tries' = 0
    /\ seedNow' = now
    /\ UNCHANGED <<cfg, now, dbUp, tables, signalled>>

(* Mutant: the attempts are not counted.                                   *)
MutantPingFails ==
    /\ pc = "ping"
    /\ IF signalled
       THEN Exit("failed")
       ELSE UNCHANGED <<pc, tries, seedNow, signalled>>
    /\ UNCHANGED <<cfg, now, dbUp, tables>>

(* Mutant: one attempt too many.                                           *)
MutantOneMorePing ==
    /\ pc = "ping"
    /\ IF signalled \/ tries = Attempts
       THEN Exit("failed")
       ELSE tries' = tries + 1 /\ UNCHANGED <<pc, seedNow, signalled>>
    /\ UNCHANGED <<cfg, now, dbUp, tables>>

(* A ping fails or takes longer than 3 seconds.  The loop ends when the    *)
(* context is cancelled and after the last attempt.                        *)
PingFails ==
    /\ pc = "ping"
    /\ IF signalled \/ tries + 1 = Attempts
       THEN Exit("failed")
       ELSE tries' = tries + 1 /\ UNCHANGED <<pc, seedNow, signalled>>
    /\ UNCHANGED <<cfg, now, dbUp, tables>>

(* Mutant: a database that was seeded is seeded again.                     *)
MutantCountServices ==
    /\ pc = "count"
    /\ Answered
    /\ pc' = "seed"
    /\ UNCHANGED <<cfg, now, dbUp, tables, tries, seedNow, signalled>>

CountServices ==
    /\ pc = "count"
    /\ Answered
    /\ pc' = IF services = {} THEN "seed" ELSE "sync"
    /\ UNCHANGED <<cfg, now, dbUp, tables, tries, seedNow, signalled>>

(* The next stage, or the error of a commit that took effect nevertheless. *)
Committed(next) ==
    \/ /\ ~signalled
       /\ pc' = next
       /\ UNCHANGED <<tries, seedNow, signalled>>
    \/ Exit("failed")

(* The transaction of Seed.                                                *)
Seed ==
    /\ pc = "seed"
    /\ dbUp
    /\ services' = Services
    /\ slots' = slots \union SeedSlots(zone, seedNow)
    /\ Committed("sync")
    /\ UNCHANGED <<cfg, now, dbUp, admins>>

(* Mutant: administrators who left the list stay in the table.             *)
MutantSyncAdmins ==
    /\ pc = "sync"
    /\ dbUp
    /\ admins' = admins \union ToSet(adminIDs)
    /\ Committed("newBot")
    /\ UNCHANGED <<cfg, now, dbUp, services, slots>>

(* The transaction of SyncAdmins, or its single DELETE for an empty list:  *)
(* missing ids are inserted, then the ids not in the list are deleted.     *)
SyncAdmins ==
    /\ pc = "sync"
    /\ dbUp
    /\ LET tgIDs == ToSet(adminIDs) IN
       admins' = {id \in admins \union tgIDs : id \in tgIDs}
    /\ Committed("newBot")
    /\ UNCHANGED <<cfg, now, dbUp, services, slots>>

(* bot.New and the commands; b.Start blocks.                               *)
NewBot ==
    /\ pc = "newBot"
    /\ pc' = "polling"
    /\ UNCHANGED <<cfg, now, dbUp, tables, tries, seedNow, signalled>>

(* Any other error: run returns it, the open transaction is rolled back    *)
(* and main exits with status 1.                                           *)
StageFails ==
    /\ pc \in Starting \ {"ping"}
    /\ Exit("failed")
    /\ UNCHANGED <<cfg, now, dbUp, tables>>

(* SIGINT or SIGTERM.  While the bot polls, Shutdown tells what follows.   *)
Signal ==
    /\ pc \in Starting
    /\ ~signalled
    /\ signalled' = TRUE
    /\ UNCHANGED <<cfg, now, dbUp, tables, pc, tries, seedNow>>

(* The end of a polling process, or a crash anywhere.                      *)
Stop ==
    /\ pc \notin Stopped
    /\ Exit("down")
    /\ UNCHANGED <<cfg, now, dbUp, tables>>

DbChanges ==
    /\ dbUp' = ~dbUp
    /\ UNCHANGED <<cfg, now, tables, pc, tries, seedNow, signalled>>

Tick ==
    /\ now < MaxNow
    /\ now' = now + 1
    /\ UNCHANGED <<cfg, dbUp, tables, pc, tries, seedNow, signalled>>

Run ==
    \/ Migrate
    \/ PingOk
    \/ PingFails
    \/ CountServices
    \/ Seed
    \/ SyncAdmins
    \/ NewBot
    \/ StageFails

Next == Launch \/ Run \/ Signal \/ Stop \/ DbChanges \/ Tick

Spec == Init /\ [][Next]_vars

(* A process that runs goes on: every call returns, with an answer or with *)
(* an error.                                                               *)
FairSpec == Spec /\ WF_vars(Run)

-----------------------------------------------------------------------------
TypeOK ==
    /\ zone \in Zones
    /\ now \in 0 .. MaxNow
    /\ dbUp \in BOOLEAN
    /\ services \in {{}, Services}
    /\ \A s \in slots : s.svc \in Services /\ s.start \in Int
    /\ \A id \in admins : id \in Nat
    /\ pc \in Starting \union Stopped \union {"polling"}
    /\ tries \in 0 .. Attempts - 1
    /\ seedNow \in 0 .. now
    /\ env \in Envs
    /\ adminIDs \in Seq(Nat)
    /\ signalled \in BOOLEAN

(* The demo data are those of one run of Seed, whatever failed and however *)
(* often the process was started: "the seed leaves an existing database    *)
(* alone" (comment of Seed).  A bot that polls has them.                   *)
SeededOnce ==
    /\ services = {} => slots = {}
    /\ services # {} => \E t \in 0 .. now : slots = SeedSlots(zone, t)
    /\ pc = "polling" => services # {}

(* When the bot polls, the table admins is the list of this process, not   *)
(* of an earlier one ("ENV is the source of truth", comment of SyncAdmins).*)
AdminsFollowConfig == pc = "polling" => admins = ToSet(adminIDs)

(* A process that got past its configuration has the administrators the    *)
(* environment names, all of them and each once: notifyAdmins sends one    *)
(* notice per element of the list (TestParseAdminIDs).                     *)
EachAdminOnce ==
    pc \notin Stopped =>
        /\ ToSet(adminIDs) = ToSet(env.admins) \ {Blank}
        /\ Cardinality(ToSet(adminIDs)) = Len(adminIDs)

(* The number on a day's button is the length of the list behind it, in a  *)
(* zone whose clock changes as in any other (comments of FreeSlotsForDay,  *)
(* DaysWithFreeSlots and daysKeyboard).                                    *)
ButtonsAgreeWithLists ==
    \A svc \in Services : \A button \in DayButtons(zone, slots, svc, now) :
        Cardinality(SlotsOfButton(zone, slots, svc, button[1], now)) = button[2]

(* No free slot of the coming days is out of reach: a button leads to it.  *)
EverySlotHasAButton ==
    \A s \in slots : s.start > now
                     /\ FormatDay(zone, s.start) - FormatDay(zone, now) \in 0 .. Horizon - 1 =>
        \E button \in DayButtons(zone, slots, s.svc, now) :
            s \in SlotsOfButton(zone, slots, s.svc, button[1], now)

(* From the first working hour to the last, by the clock on the wall.      *)
InWorkHours(z, slot) ==
    LET midnight == FormatDay(z, slot.start) * Day IN
    /\ Wall(z, slot.start) - midnight >= WorkStart
    /\ Wall(z, SlotEnd(slot)) - midnight <= WorkEnd

(* All slots lie in the working hours (comments of GenerateSlotStarts and  *)
(* of TestSeedRespectsWorkHoursInBusinessTZ).                              *)
SlotsInWorkHours == \A s \in slots : InWorkHours(zone, s)

(* A process whose database is not ready yet gives up only after all its   *)
(* attempts, unless it is told to stop (comment of pingWithRetry).         *)
FirstConnectionsAreRetried ==
    [][(pc \in {"migrate", "ping"} /\ pc' = "failed" /\ ~dbUp /\ ~signalled)
          => tries + 1 = Attempts]_vars

(* Startup ends, with a bot that polls or with an error, even when the     *)
(* database refuses every connection and every call fails; the calls of    *)
(* Migrate, Seed and SyncAdmins, which have no timeout of their own, are   *)
(* assumed to return.                                                      *)
StartupEnds == pc \in Starting ~> pc \notin Starting
=============================================================================
