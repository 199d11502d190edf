-------------------------- MODULE BookingTxProofs --------------------------
(***************************************************************************)
(* Theorems about BookingTx for every number of goroutines, slots, clients *)
(* and bookings.                                                           *)
(*                                                                         *)
(* SlotMatchesBookings is not inductive: a commit keeps it only because of *)
(* what the transaction knows of its slot and its row since it locked      *)
(* them.  IInv adds exactly that: who holds which lock at which statement, *)
(* that a slot claimed is still committed as free, that a row selected for *)
(* cancellation is still active, and that the id of an INSERT is unused.   *)
(***************************************************************************)
EXTENDS BookingTx, TLAPS

(* The variables of a call that its statement uses are set.                *)
ArgsSet ==
    \A t \in Calls :
        /\ call[t].pc \in CreatePcs => call[t].slot \in Slots /\ call[t].by \in Clients
        /\ call[t].pc \in CancelPcs => /\ call[t].id \in BookingIds
                                       /\ call[t].by \in Clients \union {Admin}
        /\ At(t, "commitCreate") => call[t].id \in BookingIds

HoldsSlot(t) == call[t].pc \in {"insert", "commitCreate", "commitCancel"}
HoldsRow(t)  == call[t].pc \in {"mark", "free", "commitCancel"}

SlotLocks ==
    \A t \in Calls, s \in Slots :
        slotLock[s] = t <=> HoldsSlot(t) /\ call[t].slot = s

RowLocks ==
    \A t \in Calls, b \in BookingIds :
        rowLock[b] = t <=> HoldsRow(t) /\ call[t].id = b

(* A claimed slot is free in the committed table until its own commit.     *)
ClaimedIsFree ==
    \A t \in Calls :
        call[t].pc \in {"insert", "commitCreate"} => ~isBooked[call[t].slot]

(* A row selected for cancellation stays as it was selected.               *)
SelectedIsActive ==
    \A t \in Calls : HoldsRow(t) =>
        /\ ActiveRow(call[t].id)
        /\ bookings[call[t].id].slot = call[t].slot
        /\ Permitted(call[t].id, call[t].by)

(* The sequence never hands out an id twice.                               *)
IdsFresh ==
    /\ \A b \in BookingIds : bookings[b] # None => b \in drawn
    /\ \A t \in Calls : At(t, "commitCreate") =>
          call[t].id \in drawn /\ bookings[call[t].id] = None
    /\ \A t, u \in Calls :
          /\ At(t, "commitCreate")
          /\ At(u, "commitCreate")
          /\ call[t].id = call[u].id
          => t = u

IInv ==
    /\ TypeOK
    /\ ArgsSet
    /\ SlotLocks
    /\ RowLocks
    /\ ClaimedIsFree
    /\ SelectedIsActive
    /\ IdsFresh
    /\ SlotMatchesBookings

-----------------------------------------------------------------------------
(* Bookings and slots keep their types through every step.                 *)
LEMMA TypeInit == Init => TypeOK
  BY NoneAssumption DEF Init, TypeOK, Call, Answers

LEMMA ReturnType ==
  ASSUME TypeOK, NEW t \in Calls, NEW answer \in Answers, Return(t, answer)
  PROVE  call' \in [Calls -> Call]
  BY DEF TypeOK, Return, Call

LEMMA ReleaseType ==
  ASSUME TypeOK, NEW t \in Calls, ReleaseLocks(t)
  PROVE  /\ slotLock' \in [Slots -> Calls \union {None}]
         /\ rowLock' \in [BookingIds -> Calls \union {None}]
  BY DEF TypeOK, ReleaseLocks

LEMMA RowType ==
  ASSUME TypeOK, NEW b \in BookingIds, bookings[b] # None
  PROVE  /\ bookings[b] \in Row
         /\ bookings[b].slot \in Slots
         /\ bookings[b].client \in Clients
         /\ bookings[b].status \in {"active", "cancelled"}
  BY DEF TypeOK, Row

-----------------------------------------------------------------------------
(* One lemma per action: it preserves the inductive invariant.             *)

(* A call that holds no lock before and after its step, and changes only   *)
(* itself: the beginnings and the refusals.                                *)
Unlocked(pc) == pc \in {"claim", "select"} \union Answers

LEMMA UnlockedMove ==
  ASSUME IInv, NEW t \in Calls, NEW r \in Call,
         call' = [call EXCEPT ![t] = r],
         UNCHANGED <<isBooked, bookings, drawn, slotLock, rowLock>>,
         Unlocked(call[t].pc), Unlocked(r.pc),
         r.pc = "claim" => r.slot \in Slots /\ r.by \in Clients,
         r.pc = "select" => r.id \in BookingIds /\ r.by \in Clients \union {Admin}
  PROVE  IInv'
<1>1. /\ call' \in [Calls -> Call]
      /\ call'[t] = r
      /\ \A u \in Calls \ {t} : call'[u] = call[u]
  BY DEF IInv, TypeOK
<1>2. TypeOK'
  BY <1>1 DEF IInv, TypeOK
<1>3. ArgsSet'
  BY <1>1 DEF IInv, ArgsSet, At, CreatePcs, CancelPcs, Unlocked, Answers
<1>4. SlotLocks' /\ RowLocks'
  BY <1>1 DEF IInv, SlotLocks, RowLocks, HoldsSlot, HoldsRow, Unlocked, Answers
<1>5. ClaimedIsFree'
  BY <1>1 DEF IInv, ClaimedIsFree, Unlocked, Answers
<1>6. SelectedIsActive'
  BY <1>1 DEF IInv, SelectedIsActive, HoldsRow, ActiveRow, Permitted, Unlocked, Answers
<1>7. IdsFresh'
  BY <1>1 DEF IInv, IdsFresh, At, Unlocked, Answers
<1>8. SlotMatchesBookings'
  BY DEF IInv, SlotMatchesBookings, IndexConflict, ActiveRow
<1> QED
  BY <1>2, <1>3, <1>4, <1>5, <1>6, <1>7, <1>8 DEF IInv

LEMMA CallPc ==
  ASSUME TypeOK, NEW t \in Calls
  PROVE  call[t].pc \in CreatePcs \union CancelPcs \union Answers
  BY DEF TypeOK, Call

LEMMA BeginInv ==
  ASSUME IInv, NEW t \in Calls, Begin(t)
  PROVE  IInv'
<1>1. Unlocked(call[t].pc)
  BY CallPc DEF IInv, Begin, BeginCreate, BeginCancel, Running, Unlocked
<1>2. ASSUME NEW s \in Slots, NEW c \in Clients, BeginCreate(t, s, c)
      PROVE  IInv'
  <2> DEFINE r == [pc |-> "claim", slot |-> s, by |-> c, id |-> None]
  <2>1. r \in Call
    BY DEF Call, CreatePcs
  <2> QED
    BY <1>1, <1>2, <2>1, UnlockedMove DEF BeginCreate, Unlocked
<1>3. ASSUME NEW b \in BookingIds, NEW by \in Clients \union {Admin},
             BeginCancel(t, b, by)
      PROVE  IInv'
  <2> DEFINE r == [pc |-> "select", slot |-> None, by |-> by, id |-> b]
  <2>1. r \in Call
    BY DEF Call, CancelPcs
  <2> QED
    BY <1>1, <1>3, <2>1, UnlockedMove DEF BeginCancel, Unlocked
<1> QED
  BY <1>2, <1>3 DEF Begin

LEMMA RefusalInv ==
  ASSUME IInv, NEW t \in Calls, RefuseTaken(t) \/ RefuseCancel(t)
  PROVE  IInv'
<1>1. PICK answer \in Answers : Return(t, answer)
  BY DEF RefuseTaken, RefuseCancel, Refusal, Answers
<1> DEFINE r == [pc |-> answer, slot |-> None, by |-> None, id |-> None]
<1>2. r \in Call
  BY DEF Call
<1>3. Unlocked(call[t].pc) /\ Unlocked(r.pc)
  BY DEF RefuseTaken, RefuseCancel, At, Unlocked
<1>4. r.pc \notin {"claim", "select"}
  BY DEF Answers
<1>5. UNCHANGED <<isBooked, bookings, drawn, slotLock, rowLock>>
  BY DEF RefuseTaken, RefuseCancel
<1> QED
  BY <1>1, <1>2, <1>3, <1>4, <1>5, UnlockedMove DEF Return

LEMMA ClaimSlotInv ==
  ASSUME IInv, NEW t \in Calls, ClaimSlot(t)
  PROVE  IInv'
<1> USE NoneAssumption
<1> DEFINE s == call[t].slot
<1>1. /\ s \in Slots /\ ~isBooked[s] /\ slotLock[s] = None
      /\ slotLock' = [slotLock EXCEPT ![s] = t]
      /\ call' \in [Calls -> Call]
      /\ call[t].pc = "claim"
      /\ call'[t].pc = "insert" /\ call'[t].slot = call[t].slot
      /\ call'[t].id = call[t].id /\ call'[t].by = call[t].by
      /\ \A u \in Calls \ {t} : call'[u] = call[u]
      /\ UNCHANGED <<isBooked, bookings, drawn, rowLock>>
  BY DEF IInv, TypeOK, ArgsSet, ClaimSlot, At, Goto, Call, CreatePcs
<1>2. TypeOK'
  BY <1>1 DEF IInv, TypeOK
<1>3. ArgsSet'
  BY <1>1 DEF IInv, ArgsSet, At, CreatePcs, CancelPcs
<1>4. SlotLocks'
  BY <1>1 DEF IInv, TypeOK, SlotLocks, HoldsSlot
<1>5. RowLocks'
  BY <1>1 DEF IInv, TypeOK, RowLocks, HoldsRow
<1>6. ClaimedIsFree'
  BY <1>1 DEF IInv, ClaimedIsFree
<1>7. SelectedIsActive'
  BY <1>1 DEF IInv, SelectedIsActive, HoldsRow, ActiveRow, Permitted
<1>8. IdsFresh'
  BY <1>1 DEF IInv, TypeOK, IdsFresh, At
<1>9. SlotMatchesBookings'
  BY <1>1 DEF IInv, SlotMatchesBookings, IndexConflict, ActiveRow
<1> QED
  BY <1>2, <1>3, <1>4, <1>5, <1>6, <1>7, <1>8, <1>9 DEF IInv

LEMMA InsertRowInv ==
  ASSUME IInv, NEW t \in Calls, InsertRow(t)
  PROVE  IInv'
<1> USE NoneAssumption
<1>1. PICK b \in BookingIds \ drawn :
      /\ drawn' = drawn \union {b}
      /\ call' \in [Calls -> Call]
      /\ call[t].pc = "insert"
      /\ call'[t].pc = "commitCreate" /\ call'[t].slot = call[t].slot
      /\ call'[t].id = b /\ call'[t].by = call[t].by
      /\ \A u \in Calls \ {t} : call'[u] = call[u]
      /\ UNCHANGED <<isBooked, bookings, slotLock, rowLock>>
  <2>1. call \in [Calls -> Call] /\ call[t].pc = "insert"
    BY DEF IInv, TypeOK, InsertRow, At
  <2>2. PICK b \in BookingIds \ drawn :
          /\ drawn' = drawn \union {b}
          /\ call' = [call EXCEPT ![t].pc = "commitCreate", ![t].id = b]
    BY DEF InsertRow
  <2>3. call' \in [Calls -> Call]
    BY <2>1, <2>2, ZenonT(60) DEF Call, CreatePcs
  <2> QED
    BY <2>1, <2>2, <2>3 DEF Call, InsertRow
<1>2. TypeOK'
  BY <1>1 DEF IInv, TypeOK
<1>3. ArgsSet'
  BY <1>1 DEF IInv, ArgsSet, At, CreatePcs, CancelPcs
<1>4. SlotLocks'
  BY <1>1 DEF IInv, TypeOK, SlotLocks, HoldsSlot
<1>5. RowLocks'
  BY <1>1 DEF IInv, TypeOK, RowLocks, HoldsRow
<1>6. ClaimedIsFree'
  BY <1>1 DEF IInv, ClaimedIsFree
<1>7. SelectedIsActive'
  BY <1>1 DEF IInv, SelectedIsActive, HoldsRow, ActiveRow, Permitted
<1>8. IdsFresh'
  BY <1>1 DEF IInv, TypeOK, IdsFresh, At
<1>9. SlotMatchesBookings'
  BY <1>1 DEF IInv, SlotMatchesBookings, IndexConflict, ActiveRow
<1> QED
  BY <1>2, <1>3, <1>4, <1>5, <1>6, <1>7, <1>8, <1>9 DEF IInv

LEMMA SelectForUpdateInv ==
  ASSUME IInv, NEW t \in Calls, SelectForUpdate(t)
  PROVE  IInv'
<1> USE NoneAssumption
<1> DEFINE b == call[t].id
<1>1. /\ b \in BookingIds /\ bookings[b] # None /\ rowLock[b] = None
      /\ bookings[b].slot \in Slots
      /\ ActiveRow(b) /\ Permitted(b, call[t].by)
      /\ rowLock' = [rowLock EXCEPT ![b] = t]
      /\ call' \in [Calls -> Call]
      /\ call[t].pc = "select"
      /\ call'[t].pc = "mark" /\ call'[t].slot = bookings[b].slot
      /\ call'[t].id = call[t].id /\ call'[t].by = call[t].by
      /\ \A u \in Calls \ {t} : call'[u] = call[u]
      /\ UNCHANGED <<isBooked, bookings, drawn, slotLock>>
  <2>1. /\ call \in [Calls -> Call] /\ call[t].pc = "select" /\ b \in BookingIds
        /\ bookings[b] # None
        /\ bookings[b].slot \in Slots
    BY RowType DEF IInv, TypeOK, ArgsSet, SelectForUpdate, At, CancelPcs
  <2>2. call' = [call EXCEPT ![t] = [pc |-> "mark", slot |-> bookings[b].slot,
                                     by |-> call[t].by, id |-> b]]
    BY DEF SelectForUpdate
  <2> QED
    BY <2>1, <2>2 DEF Call, CancelPcs, SelectForUpdate
<1>2. TypeOK'
  BY <1>1 DEF IInv, TypeOK
<1>3. ArgsSet'
  BY <1>1 DEF IInv, ArgsSet, At, CreatePcs, CancelPcs
<1>4. SlotLocks'
  BY <1>1 DEF IInv, TypeOK, SlotLocks, HoldsSlot
<1>5. RowLocks'
  BY <1>1 DEF IInv, TypeOK, RowLocks, HoldsRow
<1>6. ClaimedIsFree'
  BY <1>1 DEF IInv, ClaimedIsFree
<1>7. SelectedIsActive'
  BY <1>1 DEF IInv, SelectedIsActive, HoldsRow, ActiveRow, Permitted
<1>8. IdsFresh'
  BY <1>1 DEF IInv, TypeOK, IdsFresh, At
<1>9. SlotMatchesBookings'
  BY <1>1 DEF IInv, SlotMatchesBookings, IndexConflict, ActiveRow
<1> QED
  BY <1>2, <1>3, <1>4, <1>5, <1>6, <1>7, <1>8, <1>9 DEF IInv

LEMMA MarkCancelledInv ==
  ASSUME IInv, NEW t \in Calls, MarkCancelled(t)
  PROVE  IInv'
<1>1. /\ call' \in [Calls -> Call]
      /\ call[t].pc = "mark"
      /\ call'[t].pc = "free" /\ call'[t].slot = call[t].slot
      /\ call'[t].id = call[t].id /\ call'[t].by = call[t].by
      /\ \A u \in Calls \ {t} : call'[u] = call[u]
      /\ UNCHANGED <<isBooked, bookings, drawn, slotLock, rowLock>>
  BY DEF IInv, TypeOK, MarkCancelled, At, Goto, Call, CancelPcs
<1>2. TypeOK'
  BY <1>1 DEF IInv, TypeOK
<1>3. ArgsSet'
  BY <1>1 DEF IInv, ArgsSet, At, CreatePcs, CancelPcs
<1>4. SlotLocks'
  BY <1>1 DEF IInv, TypeOK, SlotLocks, HoldsSlot
<1>5. RowLocks'
  BY <1>1 DEF IInv, TypeOK, RowLocks, HoldsRow
<1>6. ClaimedIsFree'
  BY <1>1 DEF IInv, ClaimedIsFree
<1>7. SelectedIsActive'
  BY <1>1 DEF IInv, SelectedIsActive, HoldsRow, ActiveRow, Permitted
<1>8. IdsFresh'
  BY <1>1 DEF IInv, TypeOK, IdsFresh, At
<1>9. SlotMatchesBookings'
  BY <1>1 DEF IInv, SlotMatchesBookings, IndexConflict, ActiveRow
<1> QED
  BY <1>2, <1>3, <1>4, <1>5, <1>6, <1>7, <1>8, <1>9 DEF IInv

LEMMA FreeSlotInv ==
  ASSUME IInv, NEW t \in Calls, FreeSlot(t)
  PROVE  IInv'
<1> USE NoneAssumption
<1> DEFINE s == call[t].slot
<1>1. /\ s \in Slots /\ slotLock[s] = None
      /\ slotLock' = [slotLock EXCEPT ![s] = t]
      /\ call' \in [Calls -> Call]
      /\ call[t].pc = "free"
      /\ call'[t].pc = "commitCancel" /\ call'[t].slot = call[t].slot
      /\ call'[t].id = call[t].id /\ call'[t].by = call[t].by
      /\ \A u \in Calls \ {t} : call'[u] = call[u]
      /\ UNCHANGED <<isBooked, bookings, drawn, rowLock>>
  BY RowType, CallPc DEF IInv, TypeOK, ArgsSet, SelectedIsActive, HoldsRow,
     ActiveRow, FreeSlot, At, Goto, Call, CancelPcs
<1>2. TypeOK'
  BY <1>1 DEF IInv, TypeOK
<1>3. ArgsSet'
  BY <1>1 DEF IInv, ArgsSet, At, CreatePcs, CancelPcs
<1>4. SlotLocks'
  BY <1>1 DEF IInv, TypeOK, SlotLocks, HoldsSlot
<1>5. RowLocks'
  BY <1>1 DEF IInv, TypeOK, RowLocks, HoldsRow
<1>6. ClaimedIsFree'
  BY <1>1 DEF IInv, ClaimedIsFree
<1>7. SelectedIsActive'
  BY <1>1 DEF IInv, SelectedIsActive, HoldsRow, ActiveRow, Permitted
<1>8. IdsFresh'
  BY <1>1 DEF IInv, TypeOK, IdsFresh, At
<1>9. SlotMatchesBookings'
  BY <1>1 DEF IInv, SlotMatchesBookings, IndexConflict, ActiveRow
<1> QED
  BY <1>2, <1>3, <1>4, <1>5, <1>6, <1>7, <1>8, <1>9 DEF IInv

(* A return with the locks released.                                       *)
LEMMA ReleaseFacts ==
  ASSUME IInv, NEW t \in Calls, NEW answer \in Answers,
         Return(t, answer), ReleaseLocks(t)
  PROVE  /\ slotLock' \in [Slots -> Calls \union {None}]
         /\ rowLock' \in [BookingIds -> Calls \union {None}]
         /\ call' \in [Calls -> Call]
         /\ call'[t].pc \in Answers
         /\ \A u \in Calls \ {t} : call'[u] = call[u]
         /\ SlotLocks' /\ RowLocks'
<1> USE NoneAssumption
<1>1. /\ call' \in [Calls -> Call] /\ call'[t].pc = answer
      /\ \A u \in Calls \ {t} : call'[u] = call[u]
  BY ReturnType DEF IInv, TypeOK, Return
<1>2. /\ slotLock' \in [Slots -> Calls \union {None}]
      /\ rowLock' \in [BookingIds -> Calls \union {None}]
  BY ReleaseType DEF IInv
<1>3. SlotLocks'
  BY <1>1 DEF IInv, TypeOK, SlotLocks, HoldsSlot, ReleaseLocks, Answers
<1>4. RowLocks'
  BY <1>1 DEF IInv, TypeOK, RowLocks, HoldsRow, ReleaseLocks, Answers
<1> QED
  BY <1>1, <1>2, <1>3, <1>4

LEMMA FailInv ==
  ASSUME IInv, NEW t \in Calls, Fail(t)
  PROVE  IInv'
<1>1. /\ TypeOK' /\ SlotLocks' /\ RowLocks'
      /\ call'[t].pc \in Answers
      /\ \A u \in Calls \ {t} : call'[u] = call[u]
      /\ UNCHANGED <<isBooked, bookings, drawn>>
  BY ReleaseFacts DEF IInv, TypeOK, Fail, Answers
<1>2. ArgsSet'
  BY <1>1 DEF IInv, ArgsSet, At, CreatePcs, CancelPcs, Answers
<1>3. ClaimedIsFree'
  BY <1>1 DEF IInv, ClaimedIsFree, Answers
<1>4. SelectedIsActive'
  BY <1>1 DEF IInv, SelectedIsActive, HoldsRow, ActiveRow, Permitted, Answers
<1>5. IdsFresh'
  BY <1>1 DEF IInv, TypeOK, IdsFresh, At, Answers
<1>6. SlotMatchesBookings'
  BY <1>1 DEF IInv, SlotMatchesBookings, IndexConflict, ActiveRow
<1> QED
  BY <1>1, <1>2, <1>3, <1>4, <1>5, <1>6 DEF IInv

(* The commit of a creation: no one else knows the new row, and no one     *)
(* else has claimed the slot, whose lock this call holds.                  *)
LEMMA CommitCreateInv ==
  ASSUME IInv, NEW t \in Calls, CommitCreate(t)
  PROVE  IInv'
<1> USE NoneAssumption
<1> DEFINE s == call[t].slot
           b == call[t].id
           row == [slot |-> s, client |-> call[t].by, status |-> "active"]
<1>1. /\ s \in Slots /\ b \in BookingIds /\ row \in Row /\ row # None
      /\ call[t].pc = "commitCreate"
      /\ b \in drawn /\ bookings[b] = None /\ ~isBooked[s]
      /\ slotLock[s] = t
  BY DEF IInv, TypeOK, ArgsSet, CommitCreate, At, IdsFresh, ClaimedIsFree,
         CreatePcs, Row, SlotLocks, HoldsSlot
<1>2. /\ isBooked' = [isBooked EXCEPT ![s] = TRUE]
      /\ bookings' = [bookings EXCEPT ![b] = row]
      /\ drawn' = drawn
  BY DEF CommitCreate
<1>3. /\ slotLock' \in [Slots -> Calls \union {None}]
      /\ rowLock' \in [BookingIds -> Calls \union {None}]
      /\ call' \in [Calls -> Call]
      /\ call'[t].pc \in Answers
      /\ \A u \in Calls \ {t} : call'[u] = call[u]
      /\ SlotLocks' /\ RowLocks'
  BY ReleaseFacts DEF CommitCreate, Answers
<1>4. TypeOK'
  BY <1>1, <1>2, <1>3 DEF IInv, TypeOK
<1>5. ArgsSet'
  BY <1>3 DEF IInv, ArgsSet, At, CreatePcs, CancelPcs, Answers
<1>6. ClaimedIsFree'
  <2>1. \A u \in Calls \ {t} : call[u].pc \in {"insert", "commitCreate"}
                                => call[u].slot \in Slots /\ call[u].slot # s
    BY <1>1 DEF IInv, ArgsSet, CreatePcs, SlotLocks, HoldsSlot
  <2> QED
    BY <1>1, <1>2, <1>3, <2>1 DEF IInv, TypeOK, ClaimedIsFree, Answers
<1>7. SelectedIsActive'
  <2>1. \A u \in Calls \ {t} : HoldsRow(u) => call[u].id \in BookingIds /\ call[u].id # b
    BY <1>1 DEF IInv, ArgsSet, HoldsRow, CancelPcs, SelectedIsActive, ActiveRow
  <2> QED
    BY <1>1, <1>2, <1>3, <2>1
    DEF IInv, TypeOK, SelectedIsActive, HoldsRow, ActiveRow, Permitted, Answers
<1>8. IdsFresh'
  BY <1>1, <1>2, <1>3 DEF IInv, TypeOK, ArgsSet, IdsFresh, At, Answers
<1>9. SlotMatchesBookings'
  <2>1. \A a \in BookingIds \ {b} : bookings'[a] = bookings[a]
    BY <1>1, <1>2 DEF IInv, TypeOK
  <2>2. /\ bookings'[b].slot = s /\ bookings'[b].status = "active"
        /\ bookings'[b] # None
    BY <1>1, <1>2 DEF IInv, TypeOK
  <2>3. \A a \in BookingIds : ActiveRow(a) => bookings[a].slot # s
    BY <1>1 DEF IInv, SlotMatchesBookings, IndexConflict
  <2>4. \A x \in Slots : isBooked'[x] <=> IndexConflict(x)'
    BY <1>1, <1>2, <2>1, <2>2, <2>3
    DEF IInv, TypeOK, SlotMatchesBookings, IndexConflict, ActiveRow
  <2>5. ASSUME NEW a \in BookingIds, NEW c \in BookingIds,
               ActiveRow(a)', ActiveRow(c)', bookings'[a].slot = bookings'[c].slot
        PROVE  a = c
    BY <2>1, <2>2, <2>3, <2>5 DEF IInv, SlotMatchesBookings, ActiveRow
  <2> QED
    BY <2>4, <2>5 DEF SlotMatchesBookings
<1> QED
  BY <1>3, <1>4, <1>5, <1>6, <1>7, <1>8, <1>9 DEF IInv

(* The commit of a cancellation: the row it selected is still the active   *)
(* booking of the slot, so freeing the slot takes it from no one else.     *)
LEMMA CommitCancelInv ==
  ASSUME IInv, NEW t \in Calls, CommitCancel(t)
  PROVE  IInv'
<1> USE NoneAssumption
<1> DEFINE s == call[t].slot
           b == call[t].id
<1>1. /\ b \in BookingIds /\ ActiveRow(b) /\ bookings[b].slot = s
      /\ s \in Slots
      /\ call[t].pc = "commitCancel"
      /\ rowLock[b] = t /\ slotLock[s] = t
  BY RowType DEF IInv, ArgsSet, CommitCancel, At, SelectedIsActive,
         HoldsRow, HoldsSlot, CancelPcs, SlotLocks, RowLocks, ActiveRow
<1>2. /\ isBooked' = [isBooked EXCEPT ![s] = FALSE]
      /\ bookings' = [bookings EXCEPT ![b].status = "cancelled"]
      /\ drawn' = drawn
  BY DEF CommitCancel
<1>3. /\ slotLock' \in [Slots -> Calls \union {None}]
      /\ rowLock' \in [BookingIds -> Calls \union {None}]
      /\ call' \in [Calls -> Call]
      /\ call'[t].pc \in Answers
      /\ \A u \in Calls \ {t} : call'[u] = call[u]
      /\ SlotLocks' /\ RowLocks'
  BY ReleaseFacts DEF CommitCancel, Answers
<1>4. /\ bookings' \in [BookingIds -> Row \union {None}]
      /\ bookings'[b] \in Row /\ bookings'[b].status = "cancelled"
      /\ \A a \in BookingIds \ {b} : bookings'[a] = bookings[a]
  BY <1>1, <1>2, RowType DEF IInv, TypeOK, ActiveRow, Row
<1>5. TypeOK'
  BY <1>1, <1>2, <1>3, <1>4 DEF IInv, TypeOK
<1>6. ArgsSet'
  BY <1>3 DEF IInv, ArgsSet, At, CreatePcs, CancelPcs, Answers
<1>7. ClaimedIsFree'
  BY <1>1, <1>2, <1>3 DEF IInv, TypeOK, ArgsSet, CreatePcs, ClaimedIsFree, Answers
<1>8. SelectedIsActive'
  <2>1. \A u \in Calls \ {t} : HoldsRow(u) => call[u].id \in BookingIds /\ call[u].id # b
    BY <1>1 DEF IInv, ArgsSet, HoldsRow, CancelPcs, RowLocks
  <2> QED
    BY <1>3, <1>4, <2>1
    DEF IInv, SelectedIsActive, HoldsRow, ActiveRow, Permitted, Answers
<1>9. IdsFresh'
  <2>1. \A u \in Calls : At(u, "commitCreate") => call[u].id \in BookingIds /\ call[u].id # b
    BY <1>1 DEF IInv, ArgsSet, IdsFresh, ActiveRow
  <2>2. b \in drawn
    BY <1>1 DEF IInv, IdsFresh, ActiveRow
  <2> QED
    BY <1>1, <1>2, <1>3, <1>4, <2>1, <2>2 DEF IInv, IdsFresh, At, Answers
<1>10. SlotMatchesBookings'
  <2>1. \A a \in BookingIds : ActiveRow(a)' =>
            a # b /\ ActiveRow(a) /\ bookings'[a].slot = bookings[a].slot
    BY <1>4 DEF ActiveRow
  <2>2. \A a \in BookingIds \ {b} : ActiveRow(a) => bookings[a].slot # s
    BY <1>1 DEF IInv, SlotMatchesBookings
  <2>3. \A x \in Slots : isBooked'[x] <=> IndexConflict(x)'
    <3> TAKE x \in Slots
    <3>1. CASE x = s
      BY <1>1, <1>2, <2>1, <2>2, <3>1 DEF IInv, TypeOK, IndexConflict
    <3>2. CASE x # s
      <4>1. isBooked'[x] = isBooked[x]
        BY <1>2, <3>2 DEF IInv, TypeOK
      <4>2. \A a \in BookingIds : ActiveRow(a) /\ bookings[a].slot = x
                 => ActiveRow(a)' /\ bookings'[a].slot = x
        BY <1>1, <1>4, <3>2 DEF ActiveRow
      <4> QED
        BY <2>1, <4>1, <4>2 DEF IInv, SlotMatchesBookings, IndexConflict
    <3> QED
      BY <3>1, <3>2
  <2> QED
    BY <2>1, <2>3 DEF IInv, SlotMatchesBookings
<1> QED
  BY <1>3, <1>5, <1>6, <1>7, <1>8, <1>9, <1>10 DEF IInv

-----------------------------------------------------------------------------

LEMMA InitInv == Init => IInv
<1> SUFFICES ASSUME Init PROVE IInv
  OBVIOUS
<1> USE NoneAssumption DEF Init
<1>1. TypeOK
  BY TypeInit
<1>2. ArgsSet /\ SlotLocks /\ RowLocks
  BY DEF ArgsSet, SlotLocks, RowLocks, HoldsSlot, HoldsRow, At, CreatePcs, CancelPcs
<1>3. ClaimedIsFree /\ SelectedIsActive /\ IdsFresh
  BY DEF ClaimedIsFree, SelectedIsActive, HoldsRow, IdsFresh, At
<1>4. SlotMatchesBookings
  BY DEF SlotMatchesBookings, IndexConflict, ActiveRow
<1> QED
  BY <1>1, <1>2, <1>3, <1>4 DEF IInv

LEMMA StutterInv == IInv /\ UNCHANGED vars => IInv'
  BY DEF IInv, vars, TypeOK, ArgsSet, SlotLocks, RowLocks, HoldsSlot, HoldsRow,
         ClaimedIsFree, SelectedIsActive, Permitted, IdsFresh, At,
         SlotMatchesBookings, IndexConflict, ActiveRow

LEMMA NextInv == IInv /\ [Next]_vars => IInv'
<1> SUFFICES ASSUME IInv, [Next]_vars PROVE IInv'
  OBVIOUS
<1>1. ASSUME NEW t \in Calls, Begin(t) PROVE IInv'
  BY <1>1, BeginInv
<1>2. ASSUME NEW t \in Calls, Step(t) PROVE IInv'
  BY <1>2, ClaimSlotInv, RefusalInv, InsertRowInv, CommitCreateInv,
     SelectForUpdateInv, MarkCancelledInv, FreeSlotInv, CommitCancelInv DEF Step
<1>3. ASSUME NEW t \in Calls, Fail(t) PROVE IInv'
  BY <1>3, FailInv
<1>4. CASE UNCHANGED vars
  BY <1>4, StutterInv
<1> QED
  BY <1>1, <1>2, <1>3, <1>4 DEF Next

(* The inductive invariant holds in every reachable state.                 *)
THEOREM Invariance == Spec => []IInv
  BY InitInv, NextInv, PTL DEF Spec

(* Every variable keeps its type, whatever fails and in whatever order.    *)
THEOREM TypeCorrect == Spec => []TypeOK
<1>1. IInv => TypeOK
  BY DEF IInv
<1> QED
  BY <1>1, Invariance, PTL

(* No double booking, no lost slot, no free slot with an active booking:   *)
(* CreateBooking and CancelBooking keep schedule_slots.is_booked and the   *)
(* active bookings in agreement.                                           *)
THEOREM SlotsAndBookingsAgree == Spec => []SlotMatchesBookings
<1>1. IInv => SlotMatchesBookings
  BY DEF IInv
<1> QED
  BY <1>1, Invariance, PTL

(* An INSERT that is reached never meets the partial unique index.         *)
LEMMA IndexClear == IInv => IndexNeverFires
<1> SUFFICES ASSUME IInv, NEW t \in Calls, At(t, "insert")
             PROVE  /\ ~IndexConflict(call[t].slot)
                    /\ ~IndexBusy(t, call[t].slot)
  BY DEF IndexNeverFires
<1>1. /\ call[t].slot \in Slots /\ ~isBooked[call[t].slot]
      /\ slotLock[call[t].slot] = t
  BY DEF IInv, ArgsSet, At, CreatePcs, ClaimedIsFree, SlotLocks, HoldsSlot
<1>2. ~IndexConflict(call[t].slot)
  BY <1>1 DEF IInv, SlotMatchesBookings
<1>3. ASSUME NEW u \in Calls \ {t}, call[u].slot = call[t].slot,
             call[u].pc \in {"commitCreate", "free", "commitCancel"}
      PROVE  FALSE
  <2>1. CASE call[u].pc = "commitCreate"
    BY <1>1, <1>3, <2>1 DEF IInv, SlotLocks, HoldsSlot
  <2>2. CASE call[u].pc \in {"free", "commitCancel"}
    BY <1>2, <1>3, <2>2
    DEF IInv, ArgsSet, CancelPcs, SelectedIsActive, HoldsRow, IndexConflict
  <2> QED
    BY <1>3, <2>1, <2>2
<1> QED
  BY <1>2, <1>3 DEF IndexBusy

(* The conditional UPDATE alone decides who gets a slot: no client sees    *)
(* the error of uniq_active_booking for a lost race.                       *)
THEOREM IndexIsOnlyABackstop == Spec => []IndexNeverFires
  BY IndexClear, Invariance, PTL

(* A transaction that holds a lock never waits for another one: at INSERT  *)
(* the index is clear, and CancelBooking finds the slot of the booking it  *)
(* has locked unlocked.                                                    *)
LEMMA HoldersNeverWait ==
  ASSUME IInv, NEW t \in Calls, NEW u \in Calls,
         HoldsSlot(t) \/ HoldsRow(t)
  PROVE  ~WaitsFor(t, u)
<1>1. CASE At(t, "insert")
  BY <1>1, IndexClear DEF IndexNeverFires, IndexBusy, WaitsFor, At
<1>2. CASE At(t, "free")
  <2> DEFINE s == call[t].slot
             b == call[t].id
  <2>1. /\ b \in BookingIds /\ ActiveRow(b) /\ bookings[b].slot = s
        /\ s \in Slots /\ rowLock[b] = t
    BY <1>2, RowType DEF IInv, ArgsSet, At, CancelPcs, SelectedIsActive,
       HoldsRow, RowLocks, ActiveRow
  <2>2. isBooked[s]
    BY <2>1 DEF IInv, SlotMatchesBookings, IndexConflict
  <2>3. ASSUME slotLock[s] = u PROVE FALSE
    <3>1. HoldsSlot(u) /\ call[u].slot = s
      BY <2>1, <2>3 DEF IInv, SlotLocks
    <3>2. call[u].pc = "commitCancel"
      BY <2>2, <3>1 DEF IInv, ClaimedIsFree, HoldsSlot
    <3>3. call[u].id = b
      BY <2>1, <3>1, <3>2 DEF IInv, ArgsSet, CancelPcs, SelectedIsActive,
         HoldsRow, SlotMatchesBookings
    <3>4. u = t
      BY <2>1, <3>2, <3>3 DEF IInv, RowLocks, HoldsRow
    <3> QED
      BY <1>2, <3>2, <3>4 DEF At
  <2> QED
    BY <1>2, <2>3 DEF WaitsFor, At
<1>3. CASE call[t].pc \in {"commitCreate", "mark", "commitCancel"}
  BY <1>3 DEF WaitsFor, At
<1> QED
  BY <1>1, <1>2, <1>3 DEF HoldsSlot, HoldsRow, At

(* Only the holder of a lock is waited for.                                *)
LEMMA OnlyHoldersAreWaitedFor ==
  ASSUME IInv, NEW t \in Calls, NEW u \in Calls, WaitsFor(t, u)
  PROVE  HoldsSlot(u) \/ HoldsRow(u)
<1>1. CASE At(t, "claim") /\ slotLock[call[t].slot] = u
  BY <1>1 DEF IInv, ArgsSet, At, CreatePcs, SlotLocks
<1>2. CASE At(t, "select") /\ rowLock[call[t].id] = u
  BY <1>2 DEF IInv, ArgsSet, At, CancelPcs, RowLocks
<1>3. CASE At(t, "insert") \/ At(t, "free")
  BY <1>3, HoldersNeverWait DEF At, HoldsSlot, HoldsRow
<1> QED
  BY <1>1, <1>2, <1>3 DEF WaitsFor

(* CreateBooking and CancelBooking, which lock in opposite orders, never   *)
(* deadlock: in every set of calls some call waits for none of the others. *)
THEOREM DeadlockFree == Spec => []NoDeadlock
<1>1. IInv => NoDeadlock
  <2> SUFFICES ASSUME IInv, NEW D \in (SUBSET Calls) \ {{}}
               PROVE  \E t \in D : \A u \in D : ~WaitsFor(t, u)
    BY DEF NoDeadlock
  <2>1. PICK t \in D : TRUE
    OBVIOUS
  <2>2. CASE \A u \in D : ~WaitsFor(t, u)
    BY <2>2
  <2>3. CASE \E u \in D : WaitsFor(t, u)
    <3>1. PICK u \in D : WaitsFor(t, u)
      BY <2>3
    <3>2. HoldsSlot(u) \/ HoldsRow(u)
      BY <3>1, OnlyHoldersAreWaitedFor
    <3> QED
      BY <3>2, HoldersNeverWait
  <2> QED
    BY <2>2, <2>3
<1> QED
  BY <1>1, Invariance, PTL

-----------------------------------------------------------------------------
(* ErrSlotTaken is answered only when an active booking holds the slot.    *)
THEOREM RefusalsAreTruthful == Spec => RefusalIsTruthful
<1> DEFINE Truthful ==
      \A t \in Calls : At(t, "claim") /\ call'[t].pc = "taken"
                           => IndexConflict(call[t].slot)
<1>1. IInv /\ [Next]_vars => [Truthful]_vars
  <2> SUFFICES ASSUME IInv, Next, NEW t \in Calls,
                      At(t, "claim"), call'[t].pc = "taken"
               PROVE  IndexConflict(call[t].slot)
    OBVIOUS
  <2>1. PICK u \in Calls : Begin(u) \/ Step(u) \/ Fail(u)
    BY DEF Next
  <2>2. RefuseTaken(t)
    <3>1. call \in [Calls -> Call]
      BY DEF IInv, TypeOK
    <3>2. u = t
      BY <2>1, <3>1 DEF At, Begin, BeginCreate, BeginCancel, Step, ClaimSlot, RefuseTaken,
         InsertRow, CommitCreate, SelectForUpdate, RefuseCancel, MarkCancelled,
         FreeSlot, CommitCancel, Fail, Return, Goto
    <3>3. ~Begin(t)
      BY DEF Begin, BeginCreate, BeginCancel, Running, At, CreatePcs
    <3>4. ~Fail(t)
      BY <3>1 DEF Fail, Return
    <3>5. ~ClaimSlot(t)
      BY <3>1 DEF ClaimSlot, Goto, Call
    <3> QED
      BY <2>1, <3>2, <3>3, <3>4, <3>5 DEF Step, At, InsertRow, CommitCreate,
         SelectForUpdate, RefuseCancel, MarkCancelled, FreeSlot, CommitCancel
  <2> QED
    BY <2>2 DEF RefuseTaken, IInv, ArgsSet, CreatePcs, At, SlotMatchesBookings
<1> QED
  BY <1>1, Invariance, PTL DEF Spec, RefusalIsTruthful

-----------------------------------------------------------------------------
(* The refinement: a commit is the step of the ledger, every other         *)
(* statement is a stuttering step.                                         *)
LEMMA LedgerInit == Init => Ledger!Init
  BY DEF Init, Ledger!Init

LEMMA CreateIsBook ==
  ASSUME IInv, NEW t \in Calls, CommitCreate(t)
  PROVE  Ledger!Next
<1> DEFINE s == call[t].slot
           c == call[t].by
           b == call[t].id
<1>1. /\ s \in Slots /\ b \in BookingIds /\ c \in Clients
      /\ bookings[b] = None /\ ~isBooked[s]
  BY DEF IInv, ArgsSet, CommitCreate, At, IdsFresh, ClaimedIsFree, CreatePcs
<1>2. /\ isBooked' = [isBooked EXCEPT ![s] = TRUE]
      /\ bookings' = [bookings EXCEPT ![b] =
                        [slot |-> s, client |-> c, status |-> "active"]]
  BY DEF CommitCreate
<1>3. {x \in Slots : ~isBooked'[x]} = {x \in Slots : ~isBooked[x]} \ {s}
  BY <1>1, <1>2 DEF IInv, TypeOK
<1> HIDE DEF s, c, b
<1> QED
  BY <1>1, <1>2, <1>3 DEF Ledger!Next, Ledger!Book

LEMMA CancelIsCancel ==
  ASSUME IInv, NEW t \in Calls, CommitCancel(t)
  PROVE  Ledger!Next
<1> DEFINE s == call[t].slot
           by == call[t].by
           b == call[t].id
<1>1. /\ b \in BookingIds /\ ActiveRow(b) /\ bookings[b].slot = s
      /\ s \in Slots /\ by \in Clients \union {Admin}
      /\ by \in {bookings[b].client, Admin}
  BY RowType DEF IInv, ArgsSet, CommitCancel, At, SelectedIsActive,
         HoldsRow, CancelPcs, ActiveRow, Permitted
<1>2. /\ isBooked' = [isBooked EXCEPT ![s] = FALSE]
      /\ bookings' = [bookings EXCEPT ![b].status = "cancelled"]
  BY DEF CommitCancel
<1>3. {x \in Slots : ~isBooked'[x]} = {x \in Slots : ~isBooked[x]} \union {s}
  BY <1>1, <1>2 DEF IInv, TypeOK
<1> HIDE DEF s, by, b
<1> QED
  BY <1>1, <1>2, <1>3 DEF Ledger!Next, Ledger!Cancel, Ledger!ActiveRow, ActiveRow

LEMMA LedgerStep == IInv /\ [Next]_vars => [Ledger!Next]_Ledger!ledgerVars
<1> SUFFICES ASSUME IInv, [Next]_vars PROVE [Ledger!Next]_Ledger!ledgerVars
  OBVIOUS
<1>1. ASSUME NEW t \in Calls, CommitCreate(t) PROVE Ledger!Next
  BY <1>1, CreateIsBook
<1>2. ASSUME NEW t \in Calls, CommitCancel(t) PROVE Ledger!Next
  BY <1>2, CancelIsCancel
<1>3. ASSUME UNCHANGED <<isBooked, bookings>> PROVE UNCHANGED Ledger!ledgerVars
  BY <1>3 DEF Ledger!ledgerVars
<1>4. ASSUME NEW t \in Calls, Begin(t) \/ Step(t) \/ Fail(t),
             ~CommitCreate(t), ~CommitCancel(t)
      PROVE  UNCHANGED <<isBooked, bookings>>
  BY <1>4 DEF Begin, BeginCreate, BeginCancel, Step, ClaimSlot, RefuseTaken,
     InsertRow, SelectForUpdate, RefuseCancel, MarkCancelled, FreeSlot, Fail
<1>5. CASE UNCHANGED vars
  BY <1>3, <1>5 DEF vars
<1> QED
  BY <1>1, <1>2, <1>3, <1>4, <1>5 DEF Next

(* The transactions of bookings.go implement the ledger: each call takes   *)
(* effect at once or not at all, and only an owner or an administrator     *)
(* cancels.                                                                *)
THEOREM TransactionsImplementLedger == Spec => ImplementsLedger
<1>1. Ledger!Spec <=> Ledger!Init /\ [][Ledger!Next]_Ledger!ledgerVars
  BY DEF Ledger!Spec
<1> QED
  BY LedgerInit, LedgerStep, Invariance, <1>1, PTL DEF Spec, ImplementsLedger
=============================================================================
