------------------------------ MODULE Shutdown ------------------------------
(***************************************************************************)
(* The end of the process: run of cmd/bot/main.go from b.Start on, with    *)
(* Wait and processMiddleware of internal/telegram/handler.go and the      *)
(* goroutines that serve updates.                                          *)
(*                                                                         *)
(* The library (external) reads updates in a worker, starts a goroutine    *)
(* for each and does not wait for it.  A goroutine counts itself in the    *)
(* WaitGroup only when it runs; its work is one transaction of the pool,   *)
(* in the context opCtx.                                                   *)
(***************************************************************************)
EXTENDS Naturals, FiniteSets

CONSTANT Handlers    \* goroutines, one per update (a bound)

ASSUME HandlersAssumption == IsFiniteSet(Handlers)

VARIABLES
    main,          \* where run is
    ctxCancelled,  \* the context of the signal
    opCancelled,   \* opCtx
    worker,        \* does the library still take updates from its channel?
    pool,          \* the connection pool
    task,          \* per goroutine: how far it is
    wg,            \* counter of the WaitGroup
    timedOut,      \* the grace period ended before the handlers did
    torn,          \* history: goroutines whose work the shutdown made fail
    early          \* history: goroutines counted when Wait was called

vars == <<main, ctxCancelled, opCancelled, worker, pool, task, wg, timedOut,
          torn, early>>

mainVars == <<main, ctxCancelled, opCancelled, worker, pool, timedOut, early>>

Counted == {h \in Handlers : task[h] \in {"counted", "tx"}}

Init ==
    /\ main = "polling"
    /\ ctxCancelled = FALSE
    /\ opCancelled = FALSE
    /\ worker = TRUE
    /\ pool = "open"
    /\ task = [h \in Handlers |-> "none"]
    /\ wg = 0
    /\ timedOut = FALSE
    /\ torn = {}
    /\ early = {}

-----------------------------------------------------------------------------
(* The goroutine of an update                                              *)

Alive == main # "exited"

(* The worker's select may still choose an update when the context is      *)
(* cancelled.                                                              *)
Dispatch(h) ==
    /\ Alive /\ worker
    /\ task[h] = "none"
    /\ task' = [task EXCEPT ![h] = "spawned"]
    /\ UNCHANGED <<mainVars, wg, torn>>

(* wg.Add(1), the first thing the goroutine does.                          *)
Count(h) ==
    /\ Alive
    /\ task[h] = "spawned"
    /\ task' = [task EXCEPT ![h] = "counted"]
    /\ wg' = wg + 1
    /\ UNCHANGED <<mainVars, torn>>

BeginTx(h) ==
    /\ Alive
    /\ task[h] = "counted"
    /\ pool = "open" /\ ~opCancelled
    /\ task' = [task EXCEPT ![h] = "tx"]
    /\ UNCHANGED <<mainVars, wg, torn>>

(* Mutant: Done is called only when no error was returned.                 *)
MutantEnd(h) ==
    /\ task' = [task EXCEPT ![h] = "ended"]
    /\ wg' = IF opCancelled THEN wg ELSE wg - 1
    /\ UNCHANGED mainVars

(* The deferred wg.Done, after a panic too.                                *)
EndTask(h) ==
    /\ task' = [task EXCEPT ![h] = "ended"]
    /\ wg' = wg - 1
    /\ UNCHANGED mainVars

(* The work is done, or there was none for the database.                   *)
Serve(h) ==
    /\ Alive
    /\ task[h] \in {"counted", "tx"}
    /\ EndTask(h)
    /\ UNCHANGED torn

(* Mutant: the handler keeps the context of the signal.                    *)
MutantAbort(h) ==
    /\ Alive
    /\ task[h] = "tx" /\ ctxCancelled
    /\ EndTask(h)
    /\ torn' = torn \union {h}

(* A statement in a cancelled context ends with an error.                  *)
Abort(h) ==
    /\ Alive
    /\ task[h] = "tx" /\ opCancelled
    /\ EndTask(h)
    /\ torn' = torn \union {h}

(* A transaction cannot begin any more.                                    *)
FailBegin(h) ==
    /\ Alive
    /\ task[h] = "counted"
    /\ opCancelled \/ pool # "open"
    /\ EndTask(h)
    /\ torn' = torn \union {h}

-----------------------------------------------------------------------------
(* The main goroutine and the library                                      *)

Signal ==
    /\ ~ctxCancelled
    /\ ctxCancelled' = TRUE
    /\ UNCHANGED <<main, opCancelled, worker, pool, task, wg, timedOut, torn, early>>

WorkerStops ==
    /\ worker /\ ctxCancelled
    /\ worker' = FALSE
    /\ UNCHANGED <<main, ctxCancelled, opCancelled, pool, task, wg, timedOut, torn, early>>

(* b.Start returns and Wait is called.                                     *)
StartReturns ==
    /\ main = "polling" /\ ~worker
    /\ main' = "waiting"
    /\ early' = Counted
    /\ UNCHANGED <<ctxCancelled, opCancelled, worker, pool, task, wg, timedOut, torn>>

(* wg.Wait returned and done is closed.                                    *)
WaitDone ==
    /\ main = "waiting" /\ wg = 0
    /\ main' = "waited"
    /\ UNCHANGED <<ctxCancelled, opCancelled, worker, pool, task, wg, timedOut, torn, early>>

(* time.After(shutdownGrace).                                              *)
GraceExpires ==
    /\ main = "waiting"
    /\ main' = "waited"
    /\ timedOut' = TRUE
    /\ UNCHANGED <<ctxCancelled, opCancelled, worker, pool, task, wg, torn, early>>

(* Mutant: opCancel is deferred before db.Close, and so runs after it.     *)
MutantCloseFirst ==
    /\ main = "waited"
    /\ main' = "cancelled"
    /\ UNCHANGED <<ctxCancelled, opCancelled, worker, pool, task, wg, timedOut, torn, early>>

(* The deferred calls, last one first: opCancel ...                        *)
OpCancel ==
    /\ main = "waited"
    /\ opCancelled' = TRUE
    /\ main' = "cancelled"
    /\ UNCHANGED <<ctxCancelled, worker, pool, task, wg, timedOut, torn, early>>

(* ... and db.Close, which refuses new connections and waits for those in  *)
(* use.                                                                    *)
ClosePool ==
    /\ main = "cancelled"
    /\ main' = "closing"
    /\ pool' = "closing"
    /\ UNCHANGED <<ctxCancelled, opCancelled, worker, task, wg, timedOut, torn, early>>

Exit ==
    /\ main = "closing"
    /\ \A h \in Handlers : task[h] # "tx"
    /\ pool' = "closed"
    /\ main' = "exited"
    /\ UNCHANGED <<ctxCancelled, opCancelled, worker, task, wg, timedOut, torn, early>>

Main == StartReturns \/ WaitDone \/ GraceExpires \/ OpCancel \/ ClosePool \/ Exit

Handle(h) == Dispatch(h) \/ Count(h) \/ BeginTx(h) \/ Serve(h)

Interrupted(h) == Abort(h) \/ FailBegin(h)

Next ==
    \/ Signal
    \/ WorkerStops
    \/ Main
    \/ \E h \in Handlers : Handle(h) \/ Interrupted(h)

Spec == Init /\ [][Next]_vars

(* The main goroutine, the worker and the timer go on, and a statement in  *)
(* a cancelled context returns.  A handler may be stuck in a call for      *)
(* ever: no fairness for its progress.                                     *)
FairSpec ==
    /\ Spec
    /\ WF_vars(WorkerStops)
    /\ WF_vars(Main)
    /\ \A h \in Handlers : WF_vars(Interrupted(h))

-----------------------------------------------------------------------------
TypeOK ==
    /\ main \in {"polling", "waiting", "waited", "cancelled", "closing", "exited"}
    /\ ctxCancelled \in BOOLEAN
    /\ opCancelled \in BOOLEAN
    /\ worker \in BOOLEAN
    /\ pool \in {"open", "closing", "closed"}
    /\ task \in [Handlers -> {"none", "spawned", "counted", "tx", "ended"}]
    /\ wg = Cardinality(Counted)
    /\ timedOut \in BOOLEAN
    /\ torn \subseteq Handlers
    /\ early \subseteq Handlers

Stopping == main \in {"cancelled", "closing", "exited"}

(* Work that was being done when the signal came is completed before       *)
(* anything is taken from it, unless the grace period is over: the signal  *)
(* alone never breaks a booking off (comments of opCtx and of run).        *)
StartedWorkIsFinished ==
    Stopping /\ ~timedOut => \A h \in early : task[h] = "ended" /\ h \notin torn

(* "so that the database is not closed under a goroutine that works"       *)
(* (comment of Wait), for every goroutine the library has started.         *)
PoolOutlivesHandlers ==
    Stopping /\ ~timedOut => \A h \in Handlers : task[h] \in {"none", "ended"}

(* After the signal the process ends, even when a handler hangs in the     *)
(* middle of a transaction.                                                *)
SignalEndsProcess == ctxCancelled ~> main = "exited"
=============================================================================
