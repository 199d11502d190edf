--------------------------- MODULE ShutdownProofs ---------------------------
(***************************************************************************)
(* Theorems about Shutdown, for any finite number of handlers.             *)
(***************************************************************************)
EXTENDS Shutdown, FiniteSetTheorems, TLAPS

(* Nothing is taken from the handlers before main stops waiting.           *)
NothingTaken == ~Stopping => ~opCancelled /\ pool = "open" /\ torn = {}

(* The handlers main waits for are those that counted themselves, and they *)
(* have ended when the wait ends in time.                                  *)
WaitedFor ==
    /\ main = "polling" => early = {}
    /\ main \in {"polling", "waiting"} =>
         ~timedOut /\ \A h \in early : task[h] \in {"counted", "tx", "ended"}
    /\ main \notin {"polling", "waiting"} /\ ~timedOut =>
         \A h \in early : task[h] = "ended" /\ h \notin torn

IInv == TypeOK /\ NothingTaken /\ WaitedFor

LEMMA InitIInv == Init => IInv
<1> SUFFICES ASSUME Init PROVE IInv
  OBVIOUS
<1>1. Counted = {}
  BY DEF Init, Counted
<1>2. Cardinality(Counted) = 0
  BY <1>1, FS_EmptySet
<1> QED
  BY <1>2 DEF Init, IInv, TypeOK, NothingTaken, WaitedFor, Stopping

(* The counter follows the goroutines that are counted.                    *)
LEMMA CountedGrows ==
  ASSUME TypeOK, NEW h \in Handlers, task[h] = "spawned",
         task' = [task EXCEPT ![h] = "counted"], wg' = wg + 1
  PROVE  wg' = Cardinality(Counted')
<1>1. IsFiniteSet(Counted) /\ h \notin Counted
  BY HandlersAssumption, FS_Subset DEF Counted
<1>2. Counted' = Counted \union {h}
  BY DEF Counted, TypeOK
<1>3. Cardinality(Counted \union {h}) = Cardinality(Counted) + 1
  BY <1>1, FS_AddElement
<1> QED
  BY <1>2, <1>3 DEF TypeOK

LEMMA CountedShrinks ==
  ASSUME TypeOK, NEW h \in Handlers, task[h] \in {"counted", "tx"}, EndTask(h)
  PROVE  wg' = Cardinality(Counted') /\ wg' \in Int
<1>1. IsFiniteSet(Counted) /\ h \in Counted
  BY HandlersAssumption, FS_Subset DEF Counted
<1>2. Counted' = Counted \ {h}
  BY DEF Counted, TypeOK, EndTask
<1>3. Cardinality(Counted \ {h}) = Cardinality(Counted) - 1 /\ Cardinality(Counted) \in Nat
  BY <1>1, FS_RemoveElement, FS_CardinalityType
<1> QED
  BY <1>2, <1>3 DEF TypeOK, EndTask

(* Steps of the goroutine of an update.                                    *)
LEMMA HandlerStep ==
  ASSUME IInv, NEW h \in Handlers, Handle(h) \/ Interrupted(h)
  PROVE  IInv'
<1>1. CASE Dispatch(h)
  <2>1. Counted' = Counted
    BY <1>1 DEF Dispatch, Counted, IInv, TypeOK
  <2> QED
    BY <1>1, <2>1 DEF Dispatch, mainVars, IInv, TypeOK, NothingTaken, WaitedFor, Stopping
<1>2. CASE Count(h)
  <2>1. wg' = Cardinality(Counted')
    BY <1>2, CountedGrows DEF Count, IInv
  <2> QED
    BY <1>2, <2>1 DEF Count, mainVars, IInv, TypeOK, NothingTaken, WaitedFor, Stopping
<1>3. CASE BeginTx(h)
  <2>1. Counted' = Counted
    BY <1>3 DEF BeginTx, Counted, IInv, TypeOK
  <2> QED
    BY <1>3, <2>1 DEF BeginTx, mainVars, IInv, TypeOK, NothingTaken, WaitedFor, Stopping
<1>4. CASE Serve(h)
  <2>1. wg' = Cardinality(Counted')
    BY <1>4, CountedShrinks DEF Serve, IInv
  <2> QED
    BY <1>4, <2>1
    DEF Serve, EndTask, mainVars, IInv, TypeOK, NothingTaken, WaitedFor, Stopping
<1>5. CASE Abort(h)
  <2>1. wg' = Cardinality(Counted')
    BY <1>5, CountedShrinks DEF Abort, IInv
  <2> QED
    BY <1>5, <2>1
    DEF Abort, EndTask, mainVars, IInv, TypeOK, NothingTaken, WaitedFor, Stopping
<1>6. CASE FailBegin(h)
  <2>1. wg' = Cardinality(Counted')
    BY <1>6, CountedShrinks DEF FailBegin, IInv
  <2> QED
    BY <1>6, <2>1
    DEF FailBegin, EndTask, mainVars, IInv, TypeOK, NothingTaken, WaitedFor, Stopping
<1> QED
  BY <1>1, <1>2, <1>3, <1>4, <1>5, <1>6 DEF Handle, Interrupted

(* Steps of the main goroutine, the worker and the operator.               *)
LEMMA MainStep ==
  ASSUME IInv, Signal \/ WorkerStops \/ Main \/ UNCHANGED vars
  PROVE  IInv'
<1> USE DEF IInv, TypeOK, NothingTaken, WaitedFor, Stopping, Counted
<1>1. CASE Signal
  BY <1>1 DEF Signal
<1>2. CASE WorkerStops
  BY <1>2 DEF WorkerStops
<1>3. CASE StartReturns
  BY <1>3 DEF StartReturns
<1>4. CASE WaitDone
  <2>1. Counted = {}
    BY <1>4, HandlersAssumption, FS_Subset, FS_EmptySet DEF WaitDone
  <2> QED
    BY <1>4, <2>1 DEF WaitDone
<1>5. CASE GraceExpires
  BY <1>5 DEF GraceExpires
<1>6. CASE OpCancel
  BY <1>6 DEF OpCancel
<1>7. CASE ClosePool
  BY <1>7 DEF ClosePool
<1>8. CASE Exit
  BY <1>8 DEF Exit
<1>9. CASE UNCHANGED vars
  BY <1>9 DEF vars
<1> QED
  BY <1>1, <1>2, <1>3, <1>4, <1>5, <1>6, <1>7, <1>8, <1>9 DEF Main

(* IInv is an inductive invariant.                                         *)
THEOREM Invariance == Spec => []IInv
<1>1. IInv /\ [Next]_vars => IInv'
  BY HandlerStep, MainStep DEF Next
<1> QED
  BY <1>1, InitIInv, PTL DEF Spec

(* Every variable keeps its type, and the WaitGroup counts exactly the     *)
(* handlers between Add and Done.                                          *)
THEOREM TypeCorrect == Spec => []TypeOK
  BY Invariance, PTL DEF IInv

(* A handler that was counted when Wait was called has ended, and not      *)
(* because its context or the pool was taken from it, unless the grace     *)
(* period is over.                                                         *)
THEOREM CountedWorkIsFinished == Spec => []StartedWorkIsFinished
<1>1. IInv => StartedWorkIsFinished
  BY DEF IInv, WaitedFor, StartedWorkIsFinished, Stopping
<1> QED
  BY <1>1, Invariance, PTL
=============================================================================
