--------------------------- MODULE StartupProofs ---------------------------
(***************************************************************************)
(* Theorems about Startup, for every zone, set of environments, set of     *)
(* services and number of attempts, and a clock without bound.             *)
(***************************************************************************)
EXTENDS Startup, Recursion

(* What each stage of run may rely on.                                     *)
Prepared ==
    /\ pc = "seed" => services = {}
    /\ pc \in {"sync", "newBot", "polling"} => services # {}
    /\ pc \in {"newBot", "polling"} => admins = ToSet(adminIDs)

Tables ==
    /\ services \in {{}, Services}
    /\ services = {} => slots = {}
    /\ services # {} => \E t \in 0 .. now : slots = SeedSlots(zone, t)

IInv ==
    /\ now \in Nat
    /\ seedNow \in 0 .. now
    /\ zone \in Zones
    /\ Prepared
    /\ Tables

LEMMA InitIInv == Init => IInv
  BY StartupAssumption DEF Init, IInv, Prepared, Tables

LEMMA NextIInv == IInv /\ [Next]_vars => IInv'
<1> SUFFICES ASSUME IInv, [Next]_vars PROVE IInv'
  OBVIOUS
<1> USE ScheduleAssumption, StartupAssumption
<1>1. CASE Launch
  <2>1. pc' \in {"migrate", "failed"}
    BY <1>1 DEF Launch
  <2> QED
    BY <1>1, <2>1 DEF IInv, Prepared, Tables, Launch, Stopped, tables
<1>2. CASE Migrate
  BY <1>2 DEF IInv, Prepared, Tables, Migrate, cfg, tables
<1>3. CASE PingOk
  BY <1>3 DEF IInv, Prepared, Tables, PingOk, cfg, tables
<1>4. CASE PingFails
  BY <1>4 DEF IInv, Prepared, Tables, PingFails, Exit, cfg, tables
<1>5. CASE CountServices
  BY <1>5 DEF IInv, Prepared, Tables, CountServices, cfg, tables
<1>6. CASE Seed
  <2>1. services = {} /\ slots = {}
    BY <1>6 DEF Seed, IInv, Prepared, Tables
  <2>2. slots' = SeedSlots(zone, seedNow) /\ zone' = zone /\ now' = now
    BY <1>6, <2>1 DEF Seed, cfg
  <2>3. Tables'
    BY <1>6, <2>2 DEF Seed, IInv, Tables
  <2>4. Prepared' /\ seedNow' \in 0 .. now' /\ zone' \in Zones /\ now' \in Nat
    BY <1>6 DEF Seed, Committed, Exit, IInv, Prepared, cfg
  <2> QED
    BY <2>3, <2>4 DEF IInv
<1>7. CASE SyncAdmins
  <2>1. admins' = ToSet(adminIDs) /\ adminIDs' = adminIDs
    BY <1>7 DEF SyncAdmins, cfg
  <2> QED
    BY <1>7, <2>1 DEF IInv, Prepared, Tables, SyncAdmins, Committed, Exit, cfg
<1>8. CASE NewBot
  BY <1>8 DEF IInv, Prepared, Tables, NewBot, cfg, tables
<1>9. CASE StageFails
  BY <1>9 DEF IInv, Prepared, Tables, StageFails, Exit, cfg, tables
<1>10. CASE Signal
  BY <1>10 DEF IInv, Prepared, Tables, Signal, cfg, tables
<1>11. CASE Stop
  BY <1>11 DEF IInv, Prepared, Tables, Stop, Exit, cfg, tables
<1>12. CASE DbChanges
  BY <1>12 DEF IInv, Prepared, Tables, DbChanges, cfg, tables
<1>13. CASE Tick
  BY <1>13 DEF IInv, Prepared, Tables, Tick, cfg, tables
<1>14. CASE UNCHANGED vars
  BY <1>14 DEF IInv, Prepared, Tables, vars
<1> QED
  BY <1>1, <1>2, <1>3, <1>4, <1>5, <1>6, <1>7, <1>8, <1>9, <1>10, <1>11, <1>12,
     <1>13, <1>14 DEF Next, Run

(* IInv is an inductive invariant.                                         *)
THEOREM Invariance == Spec => []IInv
  BY InitIInv, NextIInv, PTL DEF Spec

(* However often the process is started and whatever fails, a commit whose *)
(* answer is lost included, the demo data are those of one run of Seed,    *)
(* and a bot that polls has them.                                          *)
THEOREM SeedIsIdempotent == Spec => []SeededOnce
<1>1. IInv => SeededOnce
  BY DEF IInv, Prepared, Tables, SeededOnce
<1> QED
  BY <1>1, Invariance, PTL

(* The working hours of every environment that is accepted are those       *)
(* Schedule assumes: a beginning before an end, on the clock of one day.   *)
THEOREM AcceptedHours ==
  ASSUME NEW e \in Environment, Load(e).ok
  PROVE  /\ Load(e).WorkHoursStart \in 0 .. 23
         /\ Load(e).WorkHoursEnd \in 0 .. 23
         /\ Load(e).WorkHoursStart < Load(e).WorkHoursEnd
  BY DEF Load, envHour, defaultWorkHoursStart, defaultWorkHoursEnd

(* When the bot polls, the table admins holds its own list.                *)
THEOREM AdminsAreThisProcess == Spec => []AdminsFollowConfig
<1>1. IInv => AdminsFollowConfig
  BY DEF IInv, Prepared, AdminsFollowConfig
<1> QED
  BY <1>1, Invariance, PTL

-----------------------------------------------------------------------------
(* The list of administrators.                                             *)

(* The loop of ParseAdminIDs, part by part.                                *)
LEMMA CollectRuns ==
  ASSUME NEW parts \in Seq(Raw)
  PROVE  \E f \in [0 .. Len(parts) -> Seq(Raw)] :
            /\ f[0] = <<>>
            /\ \A i \in 1 .. Len(parts) : f[i] = Collect(f[i - 1], parts[i])
            /\ FoldLeft(Collect, <<>>, parts) = f[Len(parts)]
<1> DEFINE n == Len(parts)
           D == SUBSET DOMAIN parts
           Folds(g) == g = [s \in D |-> IF s = {} THEN <<>>
                                        ELSE Collect(g[s \ {Max(s)}], parts[Max(s)])]
           fold == CHOOSE g : Folds(g)
           op == [p \in Seq(Raw) \X Raw |-> Collect(p[1], p[2])]
<1>1. n \in Nat /\ DOMAIN parts = 1 .. n /\ \A i \in 1 .. n : parts[i] \in Raw
  BY LenProperties, ElementOfSeq
<1>2. op \in [Seq(Raw) \X Raw -> Seq(Raw)]
  BY AppendProperties DEF Collect
<1>3. PICK g \in [D -> Seq(Raw)] : Folded(g, parts, <<>>, op)
  <2>1. <<>> \in Seq(Raw)
    OBVIOUS
  <2> HIDE DEF op
  <2> QED
    BY <1>2, <2>1, FoldExists
<1>4. Folds(g)
  <2>1. ASSUME NEW s \in D, s # {}
        PROVE  g[s] = Collect(g[s \ {Max(s)}], parts[Max(s)])
    <3>1. Max(s) \in s /\ Max(s) \in 1 .. n /\ s \ {Max(s)} \in D
      BY <1>1, <2>1, MaxOfNumbers
    <3>2. g[s \ {Max(s)}] \in Seq(Raw) /\ parts[Max(s)] \in Raw
      BY <1>1, <1>3, <3>1
    <3>3. g[s] = op[<<g[s \ {Max(s)}], parts[Max(s)]>>]
      BY <1>3, <2>1 DEF Folded
    <3> QED
      BY <3>2, <3>3
  <2>2. g[{}] = <<>>
    BY <1>3 DEF Folded
  <2> HIDE DEF op
  <2> QED
    BY <1>3, <2>1, <2>2
<1>5. Folds(fold)
  <2> HIDE DEF Folds
  <2> QED
    BY <1>4
<1>6. FoldLeft(Collect, <<>>, parts) = fold[DOMAIN parts]
  BY DEF FoldLeft, MapThenFoldSet
<1> HIDE DEF fold
<1>7. /\ fold[{}] = <<>>
      /\ \A s \in SUBSET DOMAIN parts : s # {} /\ fold[s \ {Max(s)}] \in Seq(Raw) =>
             fold[s] = op[<<fold[s \ {Max(s)}], parts[Max(s)]>>]
  <2>1. fold[{}] = <<>> /\ \A s \in D : s # {} =>
           fold[s] = Collect(fold[s \ {Max(s)}], parts[Max(s)])
    BY <1>5
  <2>2. \A s \in D : s # {} => parts[Max(s)] \in Raw
    BY <1>1, MaxOfNumbers
  <2> QED
    BY <2>1, <2>2
<1> HIDE DEF op
<1>8. PICK f \in [0 .. n -> Seq(Raw)] : RunsTo(f, parts, <<>>, op, fold[DOMAIN parts])
  <2>1. <<>> \in Seq(Raw)
    OBVIOUS
  <2> QED
    BY <1>2, <1>7, <2>1, FoldRuns
<1>9. \A i \in 1 .. n : op[<<f[i - 1], parts[i]>>] = Collect(f[i - 1], parts[i])
  <2>1. \A i \in 1 .. n : i - 1 \in 0 .. n
    BY <1>1
  <2>2. \A i \in 1 .. n : f[i - 1] \in Seq(Raw) /\ parts[i] \in Raw
    BY <1>1, <1>8, <2>1
  <2> QED
    BY <2>2 DEF op
<1> QED
  BY <1>6, <1>8, <1>9 DEF RunsTo

EachOnce(ids) == \A i, j \in DOMAIN ids : ids[i] = ids[j] => i = j

LEMMA CollectOne ==
  ASSUME NEW ids \in Seq(Raw), EachOnce(ids), NEW part \in Raw
  PROVE  /\ ToSet(Collect(ids, part)) = ToSet(ids) \union ({part} \ {Blank})
         /\ EachOnce(Collect(ids, part))
<1>1. CASE part = Blank \/ part \in ToSet(ids)
  BY <1>1 DEF Collect
<1>2. CASE part # Blank /\ part \notin ToSet(ids)
  <2> DEFINE n == Len(ids)
             more == Append(ids, part)
  <2>1. n \in Nat /\ DOMAIN ids = 1 .. n
    BY LenProperties
  <2>2. /\ DOMAIN more = 1 .. (n + 1) /\ more[n + 1] = part
        /\ \A i \in 1 .. n : more[i] = ids[i]
    BY AppendProperties, LenProperties
  <2>3. Collect(ids, part) = more
    BY <1>2 DEF Collect
  <2> HIDE DEF n, more
  <2>4. \A i \in 1 .. n : ids[i] # part
    BY <1>2, <2>1 DEF ToSet
  <2>5. EachOnce(more)
    BY <2>1, <2>2, <2>4 DEF EachOnce
  <2>6. ToSet(more) = ToSet(ids) \union {part}
    BY <2>1, <2>2 DEF ToSet
  <2> QED
    BY <1>2, <2>3, <2>5, <2>6
<1> QED
  BY <1>1, <1>2

(* Whatever the list of the environment repeats or leaves blank, the list  *)
(* of the process has every id it names and none twice.                    *)
LEMMA CollectAll ==
  ASSUME NEW parts \in Seq(Raw), NEW ids, ids = FoldLeft(Collect, <<>>, parts)
  PROVE  ids \in Seq(Raw) /\ EachOnce(ids) /\ ToSet(ids) = ToSet(parts) \ {Blank}
<1>1. PICK n \in Nat : n = Len(parts) /\ DOMAIN parts = 1 .. n
                       /\ \A i \in 1 .. n : parts[i] \in Raw
  BY LenProperties, ElementOfSeq
<1>2. PICK f \in [0 .. n -> Seq(Raw)] :
            /\ f[0] = <<>>
            /\ \A i \in 1 .. n : f[i] = Collect(f[i - 1], parts[i])
            /\ ids = f[n]
  BY <1>1, CollectRuns
<1> DEFINE Upto(i) == {parts[j] : j \in 1 .. i} \ {Blank}
           T == {i \in 0 .. n : EachOnce(f[i]) /\ ToSet(f[i]) = Upto(i)}
<1>3. 0 \in T
  BY <1>2 DEF EachOnce, ToSet
<1>4. ASSUME NEW i \in 1 .. n, i - 1 \in T
      PROVE  i \in T
  <2>1. i - 1 \in 0 .. n /\ f[i - 1] \in Seq(Raw) /\ EachOnce(f[i - 1])
        /\ ToSet(f[i - 1]) = Upto(i - 1)
    BY <1>2, <1>4
  <2>2. ToSet(f[i]) = ToSet(f[i - 1]) \union ({parts[i]} \ {Blank}) /\ EachOnce(f[i])
    BY <1>1, <1>2, <2>1, CollectOne
  <2>3. Upto(i) = Upto(i - 1) \union ({parts[i]} \ {Blank})
    <3>1. 1 .. i = (1 .. (i - 1)) \union {i}
      OBVIOUS
    <3> QED
      BY <3>1
  <2> QED
    BY <2>1, <2>2, <2>3
<1>5. n \in T
  <2> HIDE DEF T
  <2>1. 0 .. n \subseteq T
    BY <1>3, <1>4, InductionTo
  <2> QED
    BY <2>1
<1>6. n \in 0 .. n /\ ToSet(ids) = Upto(n) /\ Upto(n) = ToSet(parts) \ {Blank}
  BY <1>1, <1>2, <1>5 DEF ToSet
<1> QED
  BY <1>2, <1>5, <1>6

LEMMA AcceptedAdmins ==
  ASSUME NEW e \in Environment, Load(e).ok
  PROVE  LET ids == Load(e).AdminTgIDs IN
         /\ ids \in Seq(Nat)
         /\ EachOnce(ids)
         /\ ToSet(ids) = ToSet(e.admins) \ {Blank}
<1> DEFINE ids == Load(e).AdminTgIDs
<1>1. e.admins \in Seq(Raw) /\ ids = FoldLeft(Collect, <<>>, e.admins)
  BY DEF Environment, Load, ParseAdminIDs
<1>2. \A part \in ToSet(e.admins) : part = Blank \/ part \in Nat
  BY DEF Load, ParseAdminIDs
<1> HIDE DEF ids
<1>3. ids \in Seq(Raw) /\ EachOnce(ids) /\ ToSet(ids) = ToSet(e.admins) \ {Blank}
  BY <1>1, CollectAll
<1>4. Len(ids) \in Nat /\ ids \in [1 .. Len(ids) -> Nat]
  <2>1. Len(ids) \in Nat /\ ids \in [1 .. Len(ids) -> Raw] /\ DOMAIN ids = 1 .. Len(ids)
    BY <1>3, LenProperties
  <2>2. \A i \in 1 .. Len(ids) : ids[i] \in ToSet(ids)
    BY <2>1 DEF ToSet
  <2>3. \A i \in 1 .. Len(ids) : ids[i] \in Nat
    BY <1>2, <1>3, <2>2
  <2> QED
    BY <2>1, <2>3
<1>5. ids \in Seq(Nat)
  BY <1>4, SeqDef
<1> QED
  BY <1>3, <1>5 DEF ids

LEMMA AsManyAsElements ==
  ASSUME NEW S, NEW ids \in Seq(S), EachOnce(ids)
  PROVE  Cardinality(ToSet(ids)) = Len(ids)
<1>1. PICK n \in Nat : n = Len(ids) /\ ids \in [1 .. n -> S] /\ DOMAIN ids = 1 .. n
  BY LenProperties
<1>2. IsFiniteSet(1 .. n) /\ Cardinality(1 .. n) = n
  BY FS_Interval
<1>3. ids \in Bijection(1 .. n, ToSet(ids))
  BY <1>1 DEF EachOnce, ToSet, Bijection, Injection, Surjection, IsInjective
<1>4. Cardinality(ToSet(ids)) = Cardinality(1 .. n)
  BY <1>2, <1>3, FS_Bijection DEF ExistsBijection
<1> QED
  BY <1>1, <1>2, <1>4

(* The process has the list of the environment that was accepted.          *)
AdminInv ==
    /\ env \in Envs
    /\ pc \notin Stopped => Load(env).ok /\ adminIDs = Load(env).AdminTgIDs

Types ==
    /\ now \in 0 .. MaxNow
    /\ dbUp \in BOOLEAN
    /\ \A id \in admins : id \in Nat
    /\ pc \in Starting \union Stopped \union {"polling"}
    /\ tries \in 0 .. Attempts - 1
    /\ adminIDs \in Seq(Nat)
    /\ signalled \in BOOLEAN

LEMMA InitAdmins == Init => AdminInv /\ Types
<1> SUFFICES ASSUME Init PROVE AdminInv /\ Types
  OBVIOUS
<1>1. <<>> \in Seq(Nat)
  OBVIOUS
<1>2. 0 \in 0 .. MaxNow /\ 0 \in 0 .. Attempts - 1
  BY StartupAssumption
<1> QED
  BY <1>1, <1>2 DEF Init, AdminInv, Types, Stopped

LEMMA NextAdmins == AdminInv /\ Types /\ [Next]_vars => AdminInv' /\ Types'
<1> SUFFICES ASSUME AdminInv, Types, [Next]_vars PROVE AdminInv' /\ Types'
  OBVIOUS
<1> USE DEF AdminInv, Types
<1>0. 0 \in 0 .. Attempts - 1
  BY StartupAssumption
<1>1. CASE Launch
  <2>1. env' \in Envs /\ env' \in Environment
    BY <1>1, EnvsAssumption DEF Launch
  <2>2. /\ pc' = IF Load(env').ok THEN "migrate" ELSE "failed"
        /\ adminIDs' = IF Load(env').ok THEN Load(env').AdminTgIDs ELSE <<>>
    BY <1>1 DEF Launch
  <2>3. <<>> \in Seq(Nat)
    OBVIOUS
  <2>4. adminIDs' \in Seq(Nat)
    BY <2>1, <2>2, <2>3, AcceptedAdmins
  <2>5. AdminInv'
    BY <2>1, <2>2 DEF Stopped
  <2>6. pc' \in Starting \union Stopped
    BY <2>2 DEF Starting, Stopped
  <2> QED
    BY <1>1, <2>4, <2>5, <2>6 DEF Launch, tables
<1>2. CASE Migrate
  BY <1>2 DEF Migrate, cfg, tables, Starting, Stopped
<1>3. CASE PingOk
  BY <1>0, <1>3 DEF PingOk, cfg, tables, Starting, Stopped
<1>4. CASE PingFails
  <2>1. tries' \in 0 .. Attempts - 1
    BY <1>0, <1>4, StartupAssumption DEF PingFails, Exit
  <2> QED
    BY <1>4, <2>1 DEF PingFails, Exit, cfg, tables, Starting, Stopped
<1>5. CASE CountServices
  BY <1>5 DEF CountServices, cfg, tables, Starting, Stopped
<1>6. CASE Seed
  BY <1>0, <1>6 DEF Seed, Committed, Exit, cfg, Starting, Stopped
<1>7. CASE SyncAdmins
  <2>1. \A id \in ToSet(adminIDs) : id \in Nat
    BY LenProperties DEF ToSet
  <2>2. \A id \in admins' : id \in Nat
    BY <1>7, <2>1 DEF SyncAdmins
  <2> QED
    BY <1>0, <1>7, <2>2 DEF SyncAdmins, Committed, Exit, cfg, Starting, Stopped
<1>8. CASE NewBot
  BY <1>8 DEF NewBot, cfg, tables, Starting, Stopped
<1>9. CASE StageFails
  BY <1>0, <1>9 DEF StageFails, Exit, cfg, tables, Starting, Stopped
<1>10. CASE Signal
  BY <1>10 DEF Signal, cfg, tables, Starting, Stopped
<1>11. CASE Stop
  BY <1>0, <1>11 DEF Stop, Exit, cfg, tables, Starting, Stopped
<1>12. CASE DbChanges
  BY <1>12 DEF DbChanges, cfg, tables
<1>13. CASE Tick
  BY <1>13, StartupAssumption DEF Tick, cfg, tables
<1>14. CASE UNCHANGED vars
  BY <1>14 DEF vars
<1> QED
  BY <1>1, <1>2, <1>3, <1>4, <1>5, <1>6, <1>7, <1>8, <1>9, <1>10, <1>11, <1>12,
     <1>13, <1>14 DEF Next, Run

THEOREM AdminInvariance == Spec => [](AdminInv /\ Types)
  BY InitAdmins, NextAdmins, PTL DEF Spec

(* Every process that got past its configuration notifies every            *)
(* administrator of its environment once, whatever ADMIN_TG_IDS leaves     *)
(* blank or repeats, and however often the environment changed before.     *)
THEOREM AdminsAreNotifiedOnce == Spec => []EachAdminOnce
<1>1. AdminInv => EachAdminOnce
  <2> SUFFICES ASSUME AdminInv, pc \notin Stopped
               PROVE  /\ ToSet(adminIDs) = ToSet(env.admins) \ {Blank}
                      /\ Cardinality(ToSet(adminIDs)) = Len(adminIDs)
    BY DEF EachAdminOnce
  <2>1. env \in Environment /\ Load(env).ok /\ adminIDs = Load(env).AdminTgIDs
    BY EnvsAssumption DEF AdminInv
  <2>2. /\ adminIDs \in Seq(Nat) /\ EachOnce(adminIDs)
        /\ ToSet(adminIDs) = ToSet(env.admins) \ {Blank}
    BY <2>1, AcceptedAdmins
  <2> QED
    BY <2>2, AsManyAsElements
<1> QED
  BY <1>1, AdminInvariance, PTL

LEMMA SeededTypes ==
  ASSUME NEW z \in Zones, NEW t \in Int, NEW s \in SeedSlots(z, t)
  PROVE  s.svc \in Services /\ s.start \in Int
  BY StartupAssumption, ScheduleAssumption DEF SeedSlots, GenerateSlotStarts

(* The variables keep their types.                                         *)
THEOREM TypeCorrect == Spec => []TypeOK
<1>1. IInv /\ AdminInv /\ Types => TypeOK
  <2> SUFFICES ASSUME IInv, AdminInv, Types PROVE TypeOK
    OBVIOUS
  <2>1. \A s \in slots : s.svc \in Services /\ s.start \in Int
    <3>1. slots = {} \/ \E t \in 0 .. now : slots = SeedSlots(zone, t)
      BY DEF IInv, Tables
    <3> QED
      BY <3>1, SeededTypes DEF IInv
  <2> QED
    BY <2>1 DEF IInv, Tables, AdminInv, Types, TypeOK
<1> QED
  BY <1>1, Invariance, AdminInvariance, PTL

-----------------------------------------------------------------------------
(* Working hours in a zone that never changes its clock.                   *)

ZoneType == [at : Int, before : Int, after : Int]

LEMMA QuotientIsUnique ==
  ASSUME NEW n \in Nat \ {0}, NEW a \in Int, NEW b \in Int, NEW i \in 0 .. (n - 1),
         NEW j \in 0 .. (n - 1), a * n + i = b * n + j
  PROVE  a = b
<1>1. CASE a < b
  <2>1. (b - a) * n >= n
    BY <1>1, SMT
  <2> QED
    BY <2>1, SMT
<1>2. CASE b < a
  <2>1. (a - b) * n >= n
    BY <1>2, SMT
  <2> QED
    BY <2>1, SMT
<1> QED
  BY <1>1, <1>2

(* The day of a wall clock that shows k units after the midnight of day d. *)
LEMMA DayOfWall ==
  ASSUME NEW d \in Int, NEW k \in 0 .. (Day - 1)
  PROVE  (d * Day + k) \div Day = d
<1> DEFINE w == d * Day + k
<1>1. Day \in Nat \ {0} /\ w \in Int /\ w \div Day \in Int
  BY ScheduleAssumption
<1>2. w = (w \div Day) * Day + (w % Day) /\ w % Day \in 0 .. (Day - 1)
  BY <1>1
<1> QED
  BY <1>1, <1>2, QuotientIsUnique

LEMMA FixedZone ==
  ASSUME NEW z \in ZoneType, z.before = z.after, NEW t \in Int
  PROVE  /\ Wall(z, t) = t + z.before
         /\ Date(z, t) = t - z.before
  BY DEF ZoneType, Wall, Date, Offset

(* A day of the schedule begins at a midnight, and is its own beginning.   *)
LEMMA UpcomingDayIsMidnight ==
  ASSUME NEW z \in ZoneType, z.before = z.after, NEW t \in Int,
         NEW d \in UpcomingDays(z, t, SeedDays)
  PROVE  \E m \in Int : d = m * Day - z.before /\ DayStart(z, d) = d
<1>1. Day \in Nat \ {0} /\ SeedDays \in Nat \ {0} /\ z.before \in Int
  BY ScheduleAssumption DEF ZoneType
<1>2. PICK i \in 0 .. (SeedDays - 1) : d = AddDays(z, DayStart(z, t), i)
  BY DEF UpcomingDays
<1>3. PICK q \in Int : DayStart(z, t) = q * Day - z.before
  <2>1. FormatDay(z, t) \in Int
    BY <1>1, FixedZone DEF FormatDay
  <2>2. FormatDay(z, t) * Day \in Int
    BY <1>1, <2>1
  <2> QED
    BY <2>1, <2>2, FixedZone DEF DayStart
<1>4. d = (q + i) * Day - z.before
  <2>1. q * Day \in Int /\ i * Day \in Int /\ (q + i) * Day = q * Day + i * Day
    BY <1>1
  <2>2. Wall(z, DayStart(z, t)) = q * Day
    BY <1>1, <1>3, <2>1, FixedZone
  <2> QED
    BY <1>1, <1>2, <2>1, <2>2, FixedZone DEF AddDays
<1>5. DayStart(z, d) = d
  <2>1. q + i \in Int /\ (q + i) * Day \in Int /\ 0 \in 0 .. (Day - 1)
    BY <1>1
  <2>2. d \in Int /\ Wall(z, d) = (q + i) * Day + 0
    BY <1>1, <1>4, <2>1, FixedZone
  <2>3. FormatDay(z, d) = q + i
    BY <2>1, <2>2, DayOfWall DEF FormatDay
  <2> QED
    BY <1>1, <1>4, <2>1, <2>3, FixedZone DEF DayStart
<1> QED
  BY <1>4, <1>5

LEMMA SeedInWorkHours ==
  ASSUME NEW z \in ZoneType, z.before = z.after, NEW t \in Int,
         NEW s \in SeedSlots(z, t)
  PROVE  InWorkHours(z, s)
<1>1. PICK d \in UpcomingDays(z, t, SeedDays), v \in Services :
        \E u \in GenerateSlotStarts(z, d, Duration[v]) : s = [svc |-> v, start |-> u]
  BY DEF SeedSlots
<1>2. PICK u \in GenerateSlotStarts(z, d, Duration[v]) : s = [svc |-> v, start |-> u]
  BY <1>1
<1>3. PICK m \in Int : d = m * Day - z.before /\ DayStart(z, d) = d
  BY UpcomingDayIsMidnight
<1>4. /\ Day \in Nat \ {0} /\ z.before \in Int /\ m * Day \in Int
      /\ Duration[v] \in Nat \ {0}
      /\ WorkStart \in Nat /\ WorkEnd \in Nat /\ WorkEnd < Day
  BY ScheduleAssumption DEF ZoneType
<1>5. u \in Int /\ d + WorkStart <= u /\ u + Duration[v] <= d + WorkEnd
  BY <1>3, <1>4 DEF GenerateSlotStarts
<1>6. PICK k \in 0 .. (Day - 1) :
        u = d + k /\ WorkStart <= k /\ k + Duration[v] <= WorkEnd
  <2>1. /\ u - d \in 0 .. (Day - 1)
        /\ u = d + (u - d) /\ WorkStart <= u - d /\ u - d + Duration[v] <= WorkEnd
    BY <1>3, <1>4, <1>5
  <2> QED
    BY <2>1
<1>7. s.start = u /\ SlotEnd(s) = u + Duration[v]
  BY <1>2 DEF SlotEnd
<1>8. /\ Wall(z, s.start) = m * Day + k
      /\ Wall(z, SlotEnd(s)) = m * Day + k + Duration[v]
  BY <1>3, <1>4, <1>5, <1>6, <1>7, FixedZone
<1>9. FormatDay(z, s.start) = m
  BY <1>8, DayOfWall DEF FormatDay
<1> QED
  BY <1>4, <1>6, <1>8, <1>9 DEF InWorkHours

(* With a business time zone that does not change its clock, every slot of *)
(* the demo data lies in the working hours, whatever the durations.        *)
THEOREM FixedZonesKeepWorkHours ==
  ASSUME \A z \in Zones : z.before = z.after
  PROVE  Spec => []SlotsInWorkHours
<1>1. IInv => SlotsInWorkHours
  <2> SUFFICES ASSUME IInv, NEW s \in slots PROVE InWorkHours(zone, s)
    BY DEF SlotsInWorkHours
  <2>1. PICK t \in 0 .. now : slots = SeedSlots(zone, t)
    BY DEF IInv, Tables
  <2>2. zone \in ZoneType /\ zone.before = zone.after /\ t \in Int
    BY <2>1, StartupAssumption DEF IInv, ZoneType
  <2> QED
    BY <2>1, <2>2, SeedInWorkHours
<1> QED
  BY <1>1, Invariance, PTL

-----------------------------------------------------------------------------
(* Days in a zone whose clock changes between two midnights.               *)

(* The clock never changes, or it changes from a wall clock strictly       *)
(* between two midnights to another between the same two.                  *)
ChangesWithinADay(z) ==
    \/ z.before = z.after
    \/ \E d \in Int : \A offset \in {z.before, z.after} :
          d * Day < z.at + offset /\ z.at + offset < (d + 1) * Day

LEMMA DaysInOrder ==
  ASSUME NEW a \in Int, NEW b \in Int, a <= b
  PROVE  a * Day <= b * Day
<1>1. PICK n \in Nat \ {0} : n = Day
  BY ScheduleAssumption
<1>2. (b - a) * n >= 0 /\ (b - a) * n = b * n - a * n
  BY SMT
<1>3. a * n \in Int /\ b * n \in Int
  OBVIOUS
<1> QED
  BY <1>1, <1>2, <1>3

LEMMA DayOfInstant ==
  ASSUME NEW z \in ZoneType, NEW t \in Int, NEW d \in Int
  PROVE  /\ FormatDay(z, t) \in Int
         /\ FormatDay(z, t) >= d <=> Wall(z, t) >= d * Day
<1>1. Wall(z, t) \in Int /\ Day \in Nat \ {0}
  BY ScheduleAssumption DEF Wall, Offset, ZoneType
<1>2. PICK q \in Int : q = FormatDay(z, t)
  BY <1>1 DEF FormatDay
<1>3. /\ q * Day \in Int /\ d * Day \in Int /\ (q + 1) * Day = q * Day + Day
      /\ q * Day <= Wall(z, t) /\ Wall(z, t) < q * Day + Day
  <2>1. PICK w \in Int, n \in Nat \ {0} : w = Wall(z, t) /\ n = Day
    BY <1>1
  <2>2. q = w \div n
    BY <1>2, <2>1 DEF FormatDay
  <2>3. w = (w \div n) * n + (w % n) /\ w % n \in 0 .. (n - 1)
    OBVIOUS
  <2>4. q * n \in Int /\ d * n \in Int /\ (q + 1) * n = q * n + n
    OBVIOUS
  <2>5. w % n \in Int /\ 0 <= w % n /\ w % n < n /\ w = q * n + (w % n)
    BY <2>2, <2>3
  <2>6. q * n <= w /\ w < q * n + n
    BY <2>4, <2>5
  <2> QED
    BY <2>1, <2>4, <2>6
<1>4. CASE q >= d
  <2>1. d * Day <= q * Day
    BY <1>4, DaysInOrder
  <2> QED
    BY <1>1, <1>2, <1>3, <1>4, <2>1
<1>5. CASE q < d
  <2>1. (q + 1) * Day <= d * Day
    BY <1>5, DaysInOrder
  <2> QED
    BY <1>1, <1>2, <1>3, <1>5, <2>1
<1> QED
  BY <1>4, <1>5

(* Every day has a midnight, and it separates the day from those before.   *)
LEMMA MidnightSeparates ==
  ASSUME NEW z \in ZoneType, ChangesWithinADay(z), NEW d \in Int
  PROVE  /\ ParseDay(z, d) \in Int
         /\ Wall(z, ParseDay(z, d)) = d * Day
         /\ \A t \in Int : FormatDay(z, t) >= d <=> t >= ParseDay(z, d)
<1>1. z.at \in Int /\ z.before \in Int /\ z.after \in Int /\ d * Day \in Int
  BY ScheduleAssumption DEF ZoneType
<1>2. CASE z.before = z.after
  <2>1. /\ ParseDay(z, d) = d * Day - z.before
        /\ \A t \in Int : Wall(z, t) = t + z.before
    BY <1>1, <1>2, FixedZone DEF ParseDay
  <2> QED
    BY <1>1, <2>1, DayOfInstant
<1>3. CASE z.before # z.after
  <2>1. PICK e \in Int : \A offset \in {z.before, z.after} :
           e * Day < z.at + offset /\ z.at + offset < (e + 1) * Day
    BY <1>3 DEF ChangesWithinADay
  <2>2. CASE d <= e
    <3>1. d * Day < z.at + z.before /\ d * Day < z.at + z.after
      <4>1. d * Day <= e * Day /\ e * Day \in Int
        BY <2>2, DaysInOrder, ScheduleAssumption
      <4> QED
        BY <1>1, <2>1, <4>1
    <3>2. ParseDay(z, d) = d * Day - z.before
      BY <1>1, <3>1 DEF ParseDay, Date, Offset
    <3>3. Wall(z, ParseDay(z, d)) = d * Day
      BY <1>1, <3>1, <3>2 DEF Wall, Offset
    <3>4. \A t \in Int : Wall(z, t) >= d * Day <=> t >= ParseDay(z, d)
      BY <1>1, <3>1, <3>2 DEF Wall, Offset
    <3> QED
      BY <1>1, <3>2, <3>3, <3>4, DayOfInstant
  <2>3. CASE d > e
    <3>1. d * Day > z.at + z.before /\ d * Day > z.at + z.after
      <4>1. (e + 1) * Day <= d * Day /\ (e + 1) * Day \in Int
        BY <2>3, DaysInOrder, ScheduleAssumption
      <4> QED
        BY <1>1, <2>1, <4>1
    <3>2. ParseDay(z, d) = d * Day - z.after
      BY <1>1, <3>1 DEF ParseDay, Date, Offset
    <3>3. Wall(z, ParseDay(z, d)) = d * Day
      BY <1>1, <3>1, <3>2 DEF Wall, Offset
    <3>4. \A t \in Int : Wall(z, t) >= d * Day <=> t >= ParseDay(z, d)
      BY <1>1, <3>1, <3>2 DEF Wall, Offset
    <3> QED
      BY <1>1, <3>2, <3>3, <3>4, DayOfInstant
  <2> QED
    BY <2>2, <2>3
<1> QED
  BY <1>2, <1>3

(* DayBounds and AddDate lead from midnight to midnight.                   *)
LEMMA BoundsAreMidnights ==
  ASSUME NEW z \in ZoneType, ChangesWithinADay(z), NEW d \in Int
  PROVE  /\ FormatDay(z, ParseDay(z, d)) = d
         /\ DayStart(z, ParseDay(z, d)) = ParseDay(z, d)
         /\ DayEnd(z, ParseDay(z, d)) = ParseDay(z, d + 1)
         /\ \A i \in Int : AddDays(z, ParseDay(z, d), i) = ParseDay(z, d + i)
<1>1. Day \in Nat \ {0} /\ d * Day \in Int /\ d + 1 \in Int
  BY ScheduleAssumption
<1>2. ParseDay(z, d) \in Int /\ Wall(z, ParseDay(z, d)) = d * Day
  BY MidnightSeparates
<1>3. FormatDay(z, ParseDay(z, d)) = d
  <2>1. 0 \in 0 .. (Day - 1) /\ d * Day = d * Day + 0
    BY <1>1
  <2> QED
    BY <1>2, <2>1, DayOfWall DEF FormatDay
<1>4. DayStart(z, ParseDay(z, d)) = ParseDay(z, d)
  BY <1>3 DEF DayStart, ParseDay
<1>5. ASSUME NEW i \in Int
      PROVE  AddDays(z, ParseDay(z, d), i) = ParseDay(z, d + i)
  <2>1. d * Day + i * Day = (d + i) * Day
    BY <1>1
  <2> QED
    BY <1>2, <2>1, Zenon DEF AddDays, ParseDay
<1> QED
  BY <1>3, <1>4, <1>5 DEF DayEnd

(* The slots counted for a day are the list behind its button.             *)
LEMMA CountedSlotsAreListed ==
  ASSUME NEW z \in ZoneType, ChangesWithinADay(z), NEW free, NEW svc, NEW t \in Int,
         \A s \in free : s.start \in Int,
         NEW k \in Int, k = FormatDay(z, t), NEW d \in k .. (k + Horizon - 1)
  PROVE  {s \in FreeSlotsForDay(free, svc, ParseDay(z, k), ParseDay(z, k + Horizon), t) :
             FormatDay(z, s.start) = d} = SlotsOfButton(z, free, svc, d, t)
<1>1. Horizon \in Nat \ {0} /\ d \in Int /\ d + 1 \in Int /\ k + Horizon \in Int
  BY ScheduleAssumption
<1>2. SlotsOfButton(z, free, svc, d, t) =
         FreeSlotsForDay(free, svc, ParseDay(z, d), ParseDay(z, d + 1), t)
  BY <1>1, BoundsAreMidnights DEF SlotsOfButton
<1>3. ASSUME NEW s \in free
      PROVE  /\ FormatDay(z, s.start) \in Int
             /\ s.start >= ParseDay(z, k) <=> FormatDay(z, s.start) >= k
             /\ s.start >= ParseDay(z, k + Horizon) <=> FormatDay(z, s.start) >= k + Horizon
             /\ s.start >= ParseDay(z, d) <=> FormatDay(z, s.start) >= d
             /\ s.start >= ParseDay(z, d + 1) <=> FormatDay(z, s.start) >= d + 1
             /\ s.start \in Int
             /\ ParseDay(z, k) \in Int /\ ParseDay(z, k + Horizon) \in Int
             /\ ParseDay(z, d) \in Int /\ ParseDay(z, d + 1) \in Int
  BY <1>1, MidnightSeparates, DayOfInstant
<1>4. ASSUME NEW s \in free
      PROVE  ParseDay(z, k) <= s.start /\ s.start < ParseDay(z, k + Horizon)
                 /\ FormatDay(z, s.start) = d
             <=> ParseDay(z, d) <= s.start /\ s.start < ParseDay(z, d + 1)
  BY <1>1, <1>3
<1> QED
  BY <1>2, <1>4 DEF FreeSlotsForDay

LEMMA DayButtonsCount ==
  ASSUME NEW z \in ZoneType, ChangesWithinADay(z), NEW free, NEW svc, NEW t \in Int,
         \A s \in free : s.start \in Int
  PROVE  LET k == FormatDay(z, t)
             found == FreeSlotsForDay(free, svc, ParseDay(z, k), ParseDay(z, k + Horizon), t)
         IN DayButtons(z, free, svc, t) =
               {<<d, Cardinality(SlotsOfButton(z, free, svc, d, t))>> :
                   d \in (k .. (k + Horizon - 1)) \cap {FormatDay(z, s.start) : s \in found}}
<1> DEFINE k == FormatDay(z, t)
           found == FreeSlotsForDay(free, svc, ParseDay(z, k), ParseDay(z, k + Horizon), t)
           counts == DaysWithFreeSlots(z, free, svc, ParseDay(z, k), ParseDay(z, k + Horizon), t)
<1>1. Horizon \in Nat \ {0} /\ k \in Int /\ k + Horizon - 1 \in Int
  BY ScheduleAssumption, DayOfInstant
<1>2. DayStart(z, t) = ParseDay(z, k)
  BY DEF DayStart, ParseDay
<1> HIDE DEF k
<1>3. /\ DayStart(z, ParseDay(z, k)) = ParseDay(z, k)
      /\ AddDays(z, ParseDay(z, k), Horizon - 1) = ParseDay(z, k + Horizon - 1)
      /\ DayEnd(z, ParseDay(z, k + Horizon - 1)) = ParseDay(z, k + Horizon)
  <2>1. Horizon - 1 \in Int /\ k + (Horizon - 1) = k + Horizon - 1
        /\ (k + Horizon - 1) + 1 = k + Horizon
    BY <1>1
  <2> QED
    BY <1>1, <2>1, BoundsAreMidnights
<1>4. UpcomingDays(z, t, Horizon) = {ParseDay(z, k + i) : i \in 0 .. (Horizon - 1)}
  <2>1. \A i \in 0 .. (Horizon - 1) : AddDays(z, DayStart(z, t), i) = ParseDay(z, k + i)
    BY <1>1, <1>2, BoundsAreMidnights
  <2> QED
    BY <2>1, Zenon DEF UpcomingDays
<1>5. {FormatDay(z, u) : u \in UpcomingDays(z, t, Horizon)} = k .. (k + Horizon - 1)
  <2>1. \A i \in 0 .. (Horizon - 1) : k + i \in Int /\ FormatDay(z, ParseDay(z, k + i)) = k + i
    BY <1>1, BoundsAreMidnights
  <2>2. \A u \in UpcomingDays(z, t, Horizon) : FormatDay(z, u) \in k .. (k + Horizon - 1)
    BY <1>1, <1>4, <2>1
  <2>3. ASSUME NEW d \in k .. (k + Horizon - 1)
        PROVE  \E u \in UpcomingDays(z, t, Horizon) : d = FormatDay(z, u)
    <3>1. d - k \in 0 .. (Horizon - 1) /\ k + (d - k) = d
      BY <1>1
    <3> QED
      BY <1>4, <2>1, <3>1
  <2> QED
    BY <2>2, <2>3
<1>6. counts = [d \in {FormatDay(z, s.start) : s \in found} |->
                   Cardinality({s \in found : FormatDay(z, s.start) = d})]
  BY DEF DaysWithFreeSlots
<1>7. DayButtons(z, free, svc, t) =
         {<<d, counts[d]>> : d \in (k .. (k + Horizon - 1)) \cap DOMAIN counts}
  BY <1>2, <1>3, <1>5, Zenon DEF DayButtons
<1>8. ASSUME NEW d \in (k .. (k + Horizon - 1)) \cap DOMAIN counts
      PROVE  counts[d] = Cardinality(SlotsOfButton(z, free, svc, d, t))
  <2>1. {s \in found : FormatDay(z, s.start) = d} = SlotsOfButton(z, free, svc, d, t)
    BY <1>1, CountedSlotsAreListed DEF k
  <2>2. counts[d] = Cardinality({s \in found : FormatDay(z, s.start) = d})
    <3> HIDE DEF found, counts
    <3> QED
      BY <1>6
  <2> QED
    BY <2>1, <2>2
<1>9. DOMAIN counts = {FormatDay(z, s.start) : s \in found}
  <2> HIDE DEF found, counts
  <2> QED
    BY <1>6
<1> HIDE DEF found, counts
<1>10. DayButtons(z, free, svc, t) =
          {<<d, Cardinality(SlotsOfButton(z, free, svc, d, t))>> :
              d \in (k .. (k + Horizon - 1)) \cap {FormatDay(z, s.start) : s \in found}}
  BY <1>7, <1>8, <1>9
<1> QED
  BY <1>10, Zenon DEF k, found

LEMMA SeededStarts ==
  ASSUME NEW z \in ZoneType, ChangesWithinADay(z), NEW t \in Int, NEW s \in SeedSlots(z, t)
  PROVE  s.start \in Int
  BY DEF SeedSlots, GenerateSlotStarts

LEMMA SlotsInv ==
  ASSUME IInv, \A z \in Zones : ChangesWithinADay(z)
  PROVE  /\ zone \in ZoneType /\ ChangesWithinADay(zone) /\ now \in Int
         /\ \A s \in slots : s.start \in Int
<1>1. zone \in ZoneType /\ now \in Nat
  BY StartupAssumption DEF IInv, ZoneType
<1>2. slots = {} \/ \E t \in 0 .. now : slots = SeedSlots(zone, t)
  BY DEF IInv, Tables
<1> QED
  BY <1>1, <1>2, SeededStarts DEF IInv

(* Where the clock changes between two midnights, or never, the number on  *)
(* a day's button is the length of the list behind it.                     *)
THEOREM CountersAreRight ==
  ASSUME \A z \in Zones : ChangesWithinADay(z)
  PROVE  Spec => []ButtonsAgreeWithLists
<1>1. IInv => ButtonsAgreeWithLists
  <2> SUFFICES ASSUME IInv, NEW svc \in Services,
                      NEW button \in DayButtons(zone, slots, svc, now)
               PROVE  Cardinality(SlotsOfButton(zone, slots, svc, button[1], now)) = button[2]
    BY DEF ButtonsAgreeWithLists
  <2>1. \E d : button = <<d, Cardinality(SlotsOfButton(zone, slots, svc, d, now))>>
    BY SlotsInv, DayButtonsCount
  <2> QED
    BY <2>1
<1> QED
  BY <1>1, Invariance, PTL

(* In such a zone every free slot of the coming days is behind a button.   *)
THEOREM SlotsAreInReach ==
  ASSUME \A z \in Zones : ChangesWithinADay(z)
  PROVE  Spec => []EverySlotHasAButton
<1>1. IInv => EverySlotHasAButton
  <2> SUFFICES ASSUME IInv, NEW s \in slots, s.start > now,
                      FormatDay(zone, s.start) - FormatDay(zone, now) \in 0 .. Horizon - 1
               PROVE  \E button \in DayButtons(zone, slots, s.svc, now) :
                         s \in SlotsOfButton(zone, slots, s.svc, button[1], now)
    BY DEF EverySlotHasAButton
  <2> DEFINE k == FormatDay(zone, now)
             d == FormatDay(zone, s.start)
             found == FreeSlotsForDay(slots, s.svc, ParseDay(zone, k),
                                      ParseDay(zone, k + Horizon), now)
  <2>1. /\ zone \in ZoneType /\ ChangesWithinADay(zone) /\ now \in Int
        /\ \A x \in slots : x.start \in Int
    BY SlotsInv
  <2>2. k \in Int /\ d \in Int /\ Horizon \in Nat \ {0} /\ s.start \in Int
    BY <2>1, DayOfInstant, ScheduleAssumption
  <2>3. d \in k .. (k + Horizon - 1)
    <3> HIDE DEF k, d
    <3>1. d - k \in 0 .. (Horizon - 1)
      BY DEF k, d
    <3> QED
      BY <2>2, <3>1
  <2>4. s \in found
    <3>1. k + Horizon \in Int
      BY <2>2
    <3>2. /\ d >= k <=> s.start >= ParseDay(zone, k)
          /\ d >= k + Horizon <=> s.start >= ParseDay(zone, k + Horizon)
          /\ ParseDay(zone, k) \in Int /\ ParseDay(zone, k + Horizon) \in Int
      BY <2>1, <2>2, <3>1, MidnightSeparates
    <3>3. d >= k /\ ~(d >= k + Horizon)
      BY <2>2, <2>3
    <3>4. ParseDay(zone, k) <= s.start /\ s.start < ParseDay(zone, k + Horizon)
      BY <2>2, <3>2, <3>3
    <3> QED
      BY <3>4 DEF FreeSlotsForDay
  <2>5. s \in SlotsOfButton(zone, slots, s.svc, d, now)
    <3>1. {x \in found : FormatDay(zone, x.start) = d} = SlotsOfButton(zone, slots, s.svc, d, now)
      BY <2>1, <2>2, <2>3, CountedSlotsAreListed
    <3> QED
      BY <2>4, <3>1
  <2>6. <<d, Cardinality(SlotsOfButton(zone, slots, s.svc, d, now))>>
           \in DayButtons(zone, slots, s.svc, now)
    <3>1. d \in (k .. (k + Horizon - 1)) \cap {FormatDay(zone, x.start) : x \in found}
      BY <2>3, <2>4
    <3> QED
      BY <2>1, <3>1, DayButtonsCount
  <2> HIDE DEF d
  <2> QED
    BY <2>5, <2>6
<1> QED
  BY <1>1, Invariance, PTL
=============================================================================
