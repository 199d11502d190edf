------------------------------ MODULE MCStartup ------------------------------
(* Startup for TLC: a day of six units, working hours from midnight to one *)
(* unit before the next, and zones west and east of UTC.                   *)
EXTENDS Startup

CONSTANTS short, long

Durations == [v \in Services |-> IF v = short THEN 1 ELSE 2]

(* Environments: one that is accepted, with each value of one variable.    *)
Env(ids, start, end) ==
    [token |-> TRUE, url |-> TRUE, admins |-> ids, tz |-> TRUE, start |-> start, end |-> end]

AcceptedFrom(start) == {Env(<<1>>, start, 20), Env(<<2, Blank, 1, 2>>, start, Blank)}

Accepted == AcceptedFrom(0)

AcceptedFrom8 == AcceptedFrom(8)

Rejected ==
    {[Env(<<1>>, 0, 20) EXCEPT !.token = FALSE],
     [Env(<<1>>, 0, 20) EXCEPT !.url = FALSE],
     [Env(<<1>>, 0, 20) EXCEPT !.tz = FALSE],
     Env(<<1, Word>>, 0, 20),
     Env(<<0>>, 0, 20),
     Env(<<1>>, 20, Blank),
     Env(<<1>>, 0, 24),
     Env(<<1>>, Word, 20)}

SomeEnvs == Accepted \union {Env(<<>>, 0, 20)} \union Rejected

Zone(at, before, after) == [at |-> at, before |-> before, after |-> after]

NoChange == {Zone(0, 1, 1)}

(* Clocks that change between midnight and midnight.                       *)
Forward == {Zone(8, 0, 1), Zone(5, -2, -1)}
Back    == {Zone(8, 1, 0), Zone(5, -1, -2)}

(* Every day begins at midnight.  Zones whose clock skips midnight are not  *)
(* among these: there neither ParseDay nor AddDate finds the day.           *)
RegularZones == NoChange \union Forward \union Back

OneChange == {Zone(8, 0, 1)}

(* The clock goes forward at midnight, west of UTC, as in Havana.          *)
NoMidnight == {Zone(8, -2, -1)}

=============================================================================
