------------------------------- MODULE Config -------------------------------
(***************************************************************************)
(* Load of internal/config/config.go: the environment of a process is      *)
(* accepted as a configuration, or the process ends before it touches      *)
(* anything.                                                               *)
(*                                                                         *)
(* A variable is kept as what the code distinguishes: BOT_TOKEN and        *)
(* DATABASE_URL are set or not, BUSINESS_TZ names a known zone (or is not  *)
(* set) or not, an hour is Blank (unset), a number or something else, and  *)
(* ADMIN_TG_IDS is the sequence of its parts between the commas.           *)
(***************************************************************************)
EXTENDS Integers, SequencesExt

CONSTANTS
    Blank,       \* nothing but white space
    Word         \* text that is not a number, or not one of an int64

ASSUME ConfigAssumption == Blank \notin Int /\ Word \notin Int /\ Blank # Word

Raw == Int \union {Blank, Word}

Environment ==
    [token : BOOLEAN, url : BOOLEAN, admins : Seq(Raw), tz : BOOLEAN, start : Raw, end : Raw]

defaultWorkHoursStart == 10
defaultWorkHoursEnd   == 20

-----------------------------------------------------------------------------
(* The loop of ParseAdminIDs: blank parts and repeated ids are skipped.    *)
Collect(ids, part) ==
    IF part = Blank \/ part \in ToSet(ids) THEN ids ELSE Append(ids, part)

(* Mutant: repeated ids are kept.                                          *)
MutantParseAdminIDs(parts) ==
    [ok  |-> \A part \in ToSet(parts) : part = Blank \/ (part \in Int /\ part > 0),
     ids |-> SelectSeq(parts, LAMBDA part : part # Blank)]

ParseAdminIDs(parts) ==
    [ok  |-> \A part \in ToSet(parts) : part = Blank \/ (part \in Int /\ part > 0),
     ids |-> FoldLeft(Collect, <<>>, parts)]

envHour(raw, fallback) ==
    IF raw = Blank THEN [ok |-> TRUE, hour |-> fallback]
    ELSE IF raw \in Int /\ raw \in 0 .. 23
    THEN [ok |-> TRUE, hour |-> raw]
    ELSE [ok |-> FALSE, hour |-> fallback]

Load(env) ==
    LET ids   == ParseAdminIDs(env.admins)
        start == envHour(env.start, defaultWorkHoursStart)
        end   == envHour(env.end, defaultWorkHoursEnd)
    IN [ok             |-> /\ env.token /\ env.url /\ ids.ok /\ env.tz
                           /\ start.ok /\ end.ok
                           /\ start.hour < end.hour,
        AdminTgIDs     |-> ids.ids,
        WorkHoursStart |-> start.hour,
        WorkHoursEnd   |-> end.hour]
=============================================================================
