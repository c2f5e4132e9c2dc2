--------------------------- MODULE LiveExitProofs ---------------------------
(***************************************************************************)
(* Theorems about LiveExit, for any number of watches, orders, workers and *)
(* restarts and any set of faults.                                         *)
(***************************************************************************)
EXTENDS LiveExitLifecycle, TLAPS

(***************************************************************************)
(* Type correctness.                                                       *)
(***************************************************************************)
LEMMA RowTypes ==
  /\ NoRow \in Rows
  /\ \A o \in OrderIds \cup {None} : NewRow(o) \in Rows
  /\ \A r \in Rows : /\ \A x \in ExitPrices : RecordExit(r, x) \in Rows
                     /\ MarkExitPending(r) \in Rows
                     /\ ClearExitPending(r) \in Rows
                     /\ StartCoolingOff(r) \in Rows
                     /\ Seal(r) \in Rows
BY DEF NoRow, NewRow, Rows, Statuses, ExitPrices, RecordExit, MarkExitPending,
       ClearExitPending, StartCoolingOff, Seal

LEMMA LocalTypes ==
  /\ Idle \in Locals /\ Done \in Locals
  /\ \A pc \in Pcs, w \in WatchIds, r \in Rows : At(pc, w, r) \in Locals
BY RowTypes DEF Idle, Done, At, Locals, Pcs, ExitPrices

LEMMA UpdateType ==
  ASSUME NEW w, NEW r \in Rows, row \in [WatchIds -> Rows], Update(w, r)
  PROVE  row' \in [WatchIds -> Rows]
BY DEF Update

LEMMA GuardedUpdateType ==
  ASSUME NEW w, NEW r \in Rows, NEW e, row \in [WatchIds -> Rows],
         UpdateIfCurrentStatus(w, r, e)
  PROVE  row' \in [WatchIds -> Rows]
BY DEF UpdateIfCurrentStatus

LEMMA InitType == Init => TypeOK
<1>1. FirstWatch \in WatchIds /\ FirstOrder \in OrderIds
  BY SomeWatch, SomeOrder DEF FirstWatch, FirstOrder
<1>2. \A o \in {None, FirstOrder} :
        [w \in WatchIds |-> IF w = FirstWatch THEN NewRow(o) ELSE NoRow] \in [WatchIds -> Rows]
  BY <1>1, RowTypes
<1>3. [id |-> FirstOrder, kind |-> "stop"] \in OpenOrders
  BY <1>1 DEF OpenOrders, OrderKinds
<1> SUFFICES ASSUME Init PROVE TypeOK
  OBVIOUS
<1>4. row \in [WatchIds -> Rows]
  BY <1>2 DEF Init
<1>5. open \in OpenOrders
  BY <1>3 DEF Init, OpenOrders
<1>6. sold \in BOOLEAN
  BY DEF Init
<1>7. buyEvents \subseteq WatchIds /\ crashes \in 0 .. MaxCrashes
  BY <1>1, CrashesBounded DEF Init
<1>8. seller \in [Sellers -> Locals]
  BY LocalTypes DEF Init
<1> QED
  BY <1>4, <1>5, <1>6, <1>7, <1>8, LocalTypes DEF Init, TypeOK

LEMMA PlaceType ==
  ASSUME NEW kind \in OrderKinds, Place(kind)
  PROVE  /\ open' \in OpenOrders
         /\ open'.id \in OrderIds
         /\ UNCHANGED <<held, filled, sold>>
<1>1. FreshId \in OrderIds
  BY DEF Place, FreshIds, FreshId
<1> QED
  BY <1>1 DEF Place, OpenOrders

LEMMA EnvironmentType == TypeOK /\ Environment => TypeOK'
<1> SUFFICES ASSUME TypeOK, Environment PROVE TypeOK'
  OBVIOUS
<1>1. CASE FillOrder
  <2>1. open.id \in OrderIds /\ open' \in OpenOrders
    BY <1>1 DEF FillOrder, TypeOK, OpenOrders
  <2> QED
    BY <1>1, <2>1 DEF FillOrder, TypeOK
<1>2. CASE OrderDies
  BY <1>2 DEF OrderDies, TypeOK, OpenOrders
<1>3. CASE LoseEvent
  BY <1>3 DEF LoseEvent, TypeOK, account
<1>4. CASE Liquidate
  BY <1>4, PlaceType DEF Liquidate, ClosePosition, TypeOK, OrderKinds
<1>5. CASE Crash
  BY <1>5, LocalTypes, CrashesBounded DEF Crash, TypeOK
<1>6. CASE \E w \in WatchIds : SignalFires(w)
  BY <1>6 DEF SignalFires, TypeOK, account
<1> QED
  BY <1>1, <1>2, <1>3, <1>4, <1>5, <1>6 DEF Environment

LEMMA MonitorType ==
  ASSUME TypeOK, NEW w \in WatchIds,
         \/ MonitorRead(w) \/ MonitorKeep(w) \/ MonitorExit(w)
         \/ TransitionToCoolingOff(w) \/ SealWatch(w) \/ StillCoolingOff(w)
  PROVE  TypeOK'
<1> DEFINE m == seller[Monitor]
<1>1. m \in Locals /\ m.row \in Rows /\ row[w] \in Rows
  BY DEF TypeOK, Sellers, Locals
<1>2. \A l \in Locals : Become(Monitor, l) => seller' \in [Sellers -> Locals]
  BY DEF TypeOK, Become
<1>3. SUFFICES /\ row' \in [WatchIds -> Rows]
               /\ seller' \in [Sellers -> Locals]
               /\ UNCHANGED unmoved
  BY DEF TypeOK, unmoved, account
<1>4. CASE MonitorRead(w)
  BY <1>1, <1>2, <1>4, LocalTypes DEF MonitorRead, Pcs, TypeOK
<1>5. CASE MonitorKeep(w)
  BY <1>1, <1>2, <1>5, LocalTypes, GuardedUpdateType DEF MonitorKeep, TypeOK
<1>6. CASE MonitorExit(w)
  <2>1. [m EXCEPT !.pc = "cancel", !.price = "estimate"] \in Locals
    BY <1>1 DEF Locals, Pcs, ExitPrices
  <2> QED
    BY <1>2, <1>6, <2>1 DEF MonitorExit, TypeOK
<1>7. CASE TransitionToCoolingOff(w)
  BY <1>1, <1>2, <1>7, LocalTypes, RowTypes, GuardedUpdateType
     DEF TransitionToCoolingOff, TypeOK
<1>8. CASE SealWatch(w)
  BY <1>1, <1>2, <1>8, LocalTypes, RowTypes, GuardedUpdateType DEF SealWatch, TypeOK
<1>9. CASE StillCoolingOff(w)
  BY <1>1, <1>2, <1>9, LocalTypes DEF StillCoolingOff, TypeOK
<1> QED
  BY <1>4, <1>5, <1>6, <1>7, <1>8, <1>9

(* The updates of a thread's record that the steps of a seller and of      *)
(* reconcile make.                                                         *)
LEMMA LocalUpdates ==
  ASSUME NEW l \in Locals, NEW pc \in Pcs
  PROVE  /\ [l EXCEPT !.pc = pc] \in Locals
         /\ \A o \in OrderIds \cup {None} :
              /\ [l EXCEPT !.pc = pc, !.row.stop = o] \in Locals
              /\ [l EXCEPT !.pc = pc, !.row.sell = o] \in Locals
         /\ \A r \in Rows : /\ [l EXCEPT !.row = r] \in Locals
                            /\ [l EXCEPT !.pc = pc, !.row = r] \in Locals
                            /\ \A x \in ExitPrices :
                                 [l EXCEPT !.pc = pc, !.price = x, !.row = r] \in Locals
BY DEF Locals, Rows

LEMMA SellerType ==
  ASSUME TypeOK, NEW p \in Sellers, SellerStep(p)
  PROVE  TypeOK'
<1> DEFINE m == seller[p]
<1>1. m \in Locals /\ m.row \in Rows
  BY DEF TypeOK, Locals
<1>2. \A l \in Locals : Become(p, l) => seller' \in [Sellers -> Locals]
  BY DEF TypeOK, Become
<1>3. Finished(p) \in Locals /\ \A l \in Locals : GiveUp(p, l) \in Locals
  <2>1. \A l \in Locals : [l EXCEPT !.pc = "commit"] \in Locals
    BY LocalUpdates DEF Pcs
  <2> QED
    BY <2>1, LocalTypes DEF Finished, GiveUp
<1>4. CASE CancelStop(p)
  <2>1. [m EXCEPT !.pc = "pend", !.row.stop = None] \in Locals
    BY <1>1, LocalUpdates DEF Pcs
  <2>2. open' \in OpenOrders
    BY <1>4 DEF CancelStop, TypeOK, OpenOrders
  <2> QED
    BY <1>2, <1>4, <2>1, <2>2 DEF CancelStop, TypeOK
<1>5. CASE PersistPending(p)
  <2>1. MarkExitPending(m.row) \in Rows
    BY <1>1, RowTypes
  <2>2. [m EXCEPT !.pc = "submit", !.row = MarkExitPending(m.row)] \in Locals
    BY <1>1, <2>1, LocalUpdates DEF Pcs
  <2>3. row' \in [WatchIds -> Rows]
    BY <1>5, <2>1, UpdateType DEF PersistPending, TypeOK
  <2> QED
    BY <1>2, <1>5, <2>2, <2>3 DEF PersistPending, TypeOK, unmoved, account
<1>6. CASE SubmitSell(p)
  <2>1. open' \in OpenOrders /\ open'.id \in OrderIds /\ UNCHANGED <<held, filled, sold>>
    BY <1>6, PlaceType DEF SubmitSell, ClosePosition, OrderKinds
  <2>2. [m EXCEPT !.pc = "persist", !.row.sell = open'.id] \in Locals
    BY <1>1, <2>1, LocalUpdates DEF Pcs
  <2> QED
    BY <1>2, <1>6, <2>1, <2>2 DEF SubmitSell, TypeOK
<1>7. CASE NothingToSell(p)
  <2>1. [m EXCEPT !.pc = "commit"] \in Locals
    BY <1>1, LocalUpdates DEF Pcs
  <2> QED
    BY <1>2, <1>7, <2>1 DEF NothingToSell, TypeOK, unmoved, account
<1>8. CASE SubmitFails(p)
  <2>1. open' \in OpenOrders /\ UNCHANGED <<held, filled, sold>>
    BY <1>8 DEF SubmitFails, ClosePositionFails, TypeOK, OpenOrders
  <2>2. [m EXCEPT !.pc = "clear"] \in Locals /\ GiveUp(p, m) \in Locals
    BY <1>1, <1>3, LocalUpdates DEF Pcs
  <2> QED
    BY <1>2, <1>8, <2>1, <2>2 DEF SubmitFails, TypeOK
<1>9. CASE ClearPending(p)
  <2>1. ClearExitPending(m.row) \in Rows
    BY <1>1, RowTypes
  <2>2. GiveUp(p, [m EXCEPT !.row = ClearExitPending(m.row)]) \in Locals
    BY <1>1, <1>3, <2>1, LocalUpdates DEF Pcs
  <2>3. row' \in [WatchIds -> Rows]
    BY <1>9, <2>1, UpdateType DEF ClearPending, TypeOK
  <2> QED
    BY <1>2, <1>9, <2>2, <2>3 DEF ClearPending, TypeOK, unmoved, account
<1>10. CASE PersistSellId(p)
  <2>1. [m EXCEPT !.pc = "wait"] \in Locals
    BY <1>1, LocalUpdates DEF Pcs
  <2>2. row' \in [WatchIds -> Rows]
    BY <1>1, <1>10, UpdateType DEF PersistSellId, TypeOK
  <2> QED
    BY <1>2, <1>10, <2>1, <2>2 DEF PersistSellId, TypeOK, unmoved, account
<1>11. CASE SellConfirmed(p)
  <2>1. ClearExitPending(m.row) \in Rows
    BY <1>1, RowTypes
  <2>2. [m EXCEPT !.pc = "commit", !.price = "fill", !.row = ClearExitPending(m.row)] \in Locals
    BY <1>1, <2>1, LocalUpdates DEF Pcs, ExitPrices
  <2> QED
    BY <1>2, <1>11, <2>2 DEF SellConfirmed, TypeOK
<1>12. CASE SellUnconfirmed(p)
  BY <1>1, <1>2, <1>3, <1>12 DEF SellUnconfirmed, TypeOK
<1>13. CASE CommitExit(p)
  <2>1. RecordExit(m.row, m.price) \in Rows
    BY <1>1, RowTypes DEF Locals
  <2>2. row' \in [WatchIds -> Rows]
    BY <1>13, <2>1, GuardedUpdateType DEF CommitExit, TypeOK
  <2> QED
    BY <1>2, <1>3, <1>13, <2>2 DEF CommitExit, TypeOK, unmoved, account
<1> QED
  BY <1>4, <1>5, <1>6, <1>7, <1>8, <1>9, <1>10, <1>11, <1>12, <1>13 DEF SellerStep

LEMMA VictimType ==
  ASSUME TypeOK, NEW p \in Workers, NEW w \in WatchIds, VictimRead(p, w)
  PROVE  TypeOK'
<1>1. [At("cancel", w, row[w]) EXCEPT !.price = "estimate"] \in Locals
  BY RowTypes DEF TypeOK, At, Idle, Locals, Pcs, ExitPrices
<1> QED
  BY <1>1 DEF VictimRead, Become, TypeOK, unmoved, account

LEMMA StreamType ==
  ASSUME TypeOK, StreamStep
  PROVE  TypeOK'
<1>1. \A w \in WatchIds, r \in Rows : At("write", w, r) \in Locals
  BY LocalTypes DEF Pcs
<1>2. CASE \E o \in OrderIds : StreamSellFill(o)
  <2> PICK o \in OrderIds : StreamSellFill(o)
    BY <1>2
  <2>1. \A w \in WatchIds :
          /\ ClearExitPending(RecordExit(row[w], "fill")) \in Rows
          /\ [row[w] EXCEPT !.exit = "fill"] \in Rows
          /\ ClearExitPending([row[w] EXCEPT !.exit = "fill"]) \in Rows
    BY DEF TypeOK, Rows, ExitPrices, Statuses, ClearExitPending, RecordExit
  <2>2. stream' \in Locals
    BY <1>1, <2>1 DEF StreamSellFill, TypeOK
  <2> QED
    BY <2>2 DEF StreamSellFill, TypeOK, account
<1>3. CASE \E w \in WatchIds : StreamBuyFill(w)
  BY <1>1, <1>3 DEF StreamBuyFill, TypeOK, account
<1>4. CASE StreamWrite
  <2>1. stream.row \in Rows
    BY DEF TypeOK, Locals
  <2>2. row' \in [WatchIds -> Rows]
    BY <1>4, <2>1, UpdateType DEF StreamWrite, TypeOK
  <2> QED
    BY <1>4, <2>2, LocalTypes DEF StreamWrite, TypeOK, account
<1> QED
  BY <1>2, <1>3, <1>4 DEF StreamStep

LEMMA ReconcileType ==
  ASSUME TypeOK, ReconcileStep
  PROVE  TypeOK'
<1>1. rec \in Locals /\ rec.row \in Rows
  BY DEF TypeOK, Locals
<1>2. \A pc \in Pcs : [Idle EXCEPT !.pc = pc] \in Locals /\ [rec EXCEPT !.pc = pc] \in Locals
  BY <1>1, LocalTypes, LocalUpdates
<1>3. \A pc \in Pcs, w \in WatchIds : At(pc, w, row[w]) \in Locals
  BY LocalTypes DEF TypeOK
<1>4. SUFFICES /\ row' \in [WatchIds -> Rows]
               /\ rec' \in Locals
               /\ open' \in OpenOrders
               /\ UNCHANGED <<held, filled, sold, others>>
  BY DEF TypeOK, others
<1>5. CASE ReconcileStart
  BY <1>2, <1>5 DEF ReconcileStart, TypeOK, account, others, Pcs
<1>6. CASE ReconcileRead
  BY <1>2, <1>3, <1>6, LocalTypes DEF ReconcileRead, TypeOK, account, others, Pcs
<1>7. CASE ReconcileSync
  BY <1>1, <1>7, LocalTypes, GuardedUpdateType DEF ReconcileSync, TypeOK, account, others
<1>8. CASE ReconcileVerify
  BY <1>2, <1>8, LocalTypes DEF ReconcileVerify, TypeOK, account, others, Pcs
<1>9. CASE ReconcileForceExit
  <2>1. RecordExit(rec.row, "history") \in Rows
    BY <1>1, RowTypes DEF ExitPrices
  <2> QED
    BY <1>9, <2>1, LocalTypes, GuardedUpdateType
       DEF ReconcileForceExit, TypeOK, account, others
<1>10. CASE ReconcileAdopt
  <2>1. NewRow(None) \in Rows
    BY RowTypes
  <2> QED
    BY <1>10, <2>1, LocalTypes, UpdateType DEF ReconcileAdopt, TypeOK, account, others
<1>11. CASE EnsureStart
  BY <1>2, <1>11 DEF EnsureStart, TypeOK, account, others, Pcs
<1>12. CASE EnsureRead
  BY <1>3, <1>12, LocalTypes DEF EnsureRead, TypeOK, account, others, Pcs
<1>13. CASE EnsureOrders
  <2>1. open.id \in OrderIds \cup {None}
    BY DEF TypeOK, OpenOrders, NoOrder
  <2>2. [rec EXCEPT !.pc = "sync", !.row.stop = open.id] \in Locals
    BY <1>1, <2>1, LocalUpdates DEF Pcs
  <2> QED
    BY <1>2, <1>13, <2>2, LocalTypes DEF EnsureOrders, TypeOK, account, others, Pcs
<1>14. CASE EnsurePlace
  <2>1. CASE Place("stop") /\ rec' = [rec EXCEPT !.pc = "sync", !.row.stop = open'.id]
    <3>1. open' \in OpenOrders /\ open'.id \in OrderIds /\ UNCHANGED <<held, filled, sold>>
      BY <2>1, PlaceType DEF OrderKinds
    <3>2. rec' \in Locals
      BY <1>1, <2>1, <3>1, LocalUpdates DEF Pcs
    <3> QED
      BY <1>14, <3>1, <3>2 DEF EnsurePlace, TypeOK, others
  <2>2. CASE rec' = Idle /\ UNCHANGED account
    BY <1>14, <2>2, LocalTypes DEF EnsurePlace, TypeOK, account, others
  <2> QED
    BY <1>14, <2>1, <2>2 DEF EnsurePlace
<1>15. CASE EnsureBreach
  <2>1. rec' \in Locals
    BY <1>2, <1>15, LocalTypes DEF EnsureBreach, Pcs
  <2>2. open' \in OpenOrders /\ UNCHANGED <<held, filled, sold>>
    <3>1. CASE ClosePosition
      BY <3>1, PlaceType DEF ClosePosition, OrderKinds
    <3>2. CASE UNCHANGED account
      BY <3>2 DEF TypeOK, account
    <3>3. CASE ClosePositionFails
      BY <3>3 DEF ClosePositionFails, TypeOK, OpenOrders
    <3> QED
      BY <1>15, <3>1, <3>2, <3>3 DEF EnsureBreach
  <2> QED
    BY <1>15, <2>1, <2>2 DEF EnsureBreach, TypeOK
<1>16. CASE EnsureBreachExit
  <2>1. RecordExit(rec.row, "estimate") \in Rows
    BY <1>1, RowTypes DEF ExitPrices
  <2> QED
    BY <1>16, <2>1, LocalTypes, GuardedUpdateType
       DEF EnsureBreachExit, TypeOK, account, others
<1> QED
  BY <1>5, <1>6, <1>7, <1>8, <1>9, <1>10, <1>11, <1>12, <1>13, <1>14, <1>15, <1>16
     DEF ReconcileStep

LEMMA WebType ==
  ASSUME TypeOK, WebStep
  PROVE  TypeOK'
<1>1. CASE \E w \in WatchIds : ForceExitRead(w)
  <2>1. \A w \in WatchIds : At("write", w, RecordExit(row[w], "estimate")) \in Locals
    BY RowTypes, LocalTypes DEF TypeOK, Pcs, ExitPrices
  <2> QED
    BY <1>1, <2>1 DEF ForceExitRead, TypeOK, market, account
<1>2. CASE ForceExitWrite
  <2>1. web.row \in Rows
    BY DEF TypeOK, Locals
  <2> QED
    BY <1>2, <2>1, LocalTypes, UpdateType DEF ForceExitWrite, TypeOK, market, account
<1> QED
  BY <1>1, <1>2 DEF WebStep

LEMMA StepType == TypeOK /\ [Next]_vars => TypeOK'
<1> SUFFICES ASSUME TypeOK, [Next]_vars PROVE TypeOK'
  OBVIOUS
<1>1. CASE MonitorStep
  BY <1>1, MonitorType, SellerType DEF MonitorStep, Sellers
<1>2. CASE \E p \in Workers : WorkerStep(p)
  BY <1>2, VictimType, SellerType DEF WorkerStep, Sellers
<1>3. CASE UNCHANGED vars
  BY <1>3 DEF vars, TypeOK
<1> QED
  BY <1>1, <1>2, <1>3, EnvironmentType, StreamType, ReconcileType, WebType DEF Next

(* Every variable, and every copy a thread holds, keeps its type: no row   *)
(* the trader writes is one that from_dict could not read back.            *)
THEOREM TypeCorrect == Spec => []TypeOK
BY InitType, StepType, PTL DEF Spec

-----------------------------------------------------------------------------
(***************************************************************************)
(* The rows.  The invariant says what a thread may have in its hands: a    *)
(* coherent copy that is not sealed, of a watch that is not sealed, and    *)
(* where it will write, a copy in the state its write supposes.            *)
(***************************************************************************)
SellingPcs == {"cancel", "pend", "submit", "clear", "persist", "wait", "commit"}

RepairPcs == {"sync", "verify", "force", "orders", "place", "breach", "breached"}

CopyOK(t) == Coherent(t.row) /\ t.row.status # "sealed"

SellerOK(t) ==
  t.pc \in SellingPcs => t.row.status = "holding" /\ t.price # "none" /\ t.watch \in WatchIds

StreamOK == stream.pc = "write" => stream.row.status # "absent" /\ stream.watch \in WatchIds

RecOK == rec.pc \in RepairPcs => rec.row.status = "holding" /\ rec.watch \in WatchIds

WebOK == web.pc = "write" => web.row.status = "exited" /\ web.watch \in WatchIds

CopiesOK ==
  /\ \A p \in Sellers : CopyOK(seller[p]) /\ SellerOK(seller[p])
  /\ CopyOK(stream) /\ CopyOK(rec) /\ CopyOK(web)
  /\ StreamOK /\ RecOK /\ WebOK

(* No thread is at work on a watch that is absent or sealed.               *)
Attached(t) == t.watch \in WatchIds => row[t.watch].status \in ActiveStatuses

ThreadsAttached ==
  /\ \A p \in Sellers : Attached(seller[p])
  /\ Attached(stream) /\ Attached(rec) /\ Attached(web)

RowInv == TypeOK /\ RowsCoherent /\ CopiesOK /\ ThreadsAttached

(* Nobody but the monitor, which then drops it, is at work on w.           *)
LeftAlone(w) ==
  /\ seller'[Monitor].watch = None
  /\ \A p \in Workers : seller'[p].watch # w
  /\ stream'.watch # w /\ rec'.watch # w /\ web'.watch # w

(* One row is replaced, and how its status may change.                     *)
RowMove(w, r) ==
  /\ row' = [row EXCEPT ![w] = r]
  /\ Coherent(r)
  /\ \/ r.status = row[w].status /\ r.status # "sealed"
     \/ <<row[w].status, r.status>> \in Lifecycle!Forward \cup StaleJumps
  /\ r.status = "sealed" => LeftAlone(w)
  /\ row[w].status \in {"exited", "cooling_off", "sealed"} /\ r.status = "holding"
       => UnguardedWrite(w)

RowStep == row' = row \/ \E w \in WatchIds, r \in Rows : RowMove(w, r)

LEMMA CoherentOps ==
  ASSUME NEW r \in Rows, Coherent(r)
  PROVE  /\ \A x \in ExitPrices \ {"none"} : /\ Coherent(RecordExit(r, x))
                                              /\ RecordExit(r, x).status = "exited"
         /\ Coherent(MarkExitPending(r)) /\ MarkExitPending(r).status = r.status
         /\ Coherent(ClearExitPending(r)) /\ ClearExitPending(r).status = r.status
         /\ r.status = "exited" => /\ Coherent(StartCoolingOff(r))
                                   /\ StartCoolingOff(r).status = "cooling_off"
         /\ r.status = "cooling_off" => Coherent(Seal(r)) /\ Seal(r).status = "sealed"
BY DEF Rows, Coherent, RecordExit, MarkExitPending, ClearExitPending, StartCoolingOff,
       Seal, ExitPrices

LEMMA NewRowCoherent ==
  /\ Coherent(NoRow) /\ NoRow.status = "absent"
  /\ Coherent(NewRow(None)) /\ NewRow(None).status = "holding"
  /\ \A o \in OrderIds : Coherent(NewRow(o)) /\ NewRow(o).status = "holding"
BY DEF NewRow, NoRow, Coherent

(* A guarded write of a coherent row, from the expected status.            *)
LEMMA GuardedMove ==
  ASSUME TypeOK, NEW w \in WatchIds, NEW r \in Rows, NEW e, Coherent(r),
         UpdateIfCurrentStatus(w, r, e),
         \/ e = "holding" /\ r.status \in {"holding", "exited"}
         \/ e = "exited" /\ r.status = "cooling_off"
         \/ e = "cooling_off" /\ r.status = "sealed" /\ LeftAlone(w)
  PROVE  RowStep
<1>1. CASE row[w].status = e
  <2>1. row' = [row EXCEPT ![w] = r]
    BY <1>1 DEF UpdateIfCurrentStatus
  <2>2. \/ r.status = row[w].status /\ r.status # "sealed"
        \/ <<row[w].status, r.status>> \in Lifecycle!Forward \cup StaleJumps
    BY <1>1 DEF Lifecycle!Forward
  <2>3. RowMove(w, r)
    BY <1>1, <2>1, <2>2 DEF RowMove
  <2> QED
    BY <2>3 DEF RowStep
<1>2. CASE row[w].status # e
  BY <1>2 DEF UpdateIfCurrentStatus, RowStep
<1> QED
  BY <1>1, <1>2

(* An unguarded write of a coherent row that is not sealed, over one that  *)
(* is active.                                                              *)
LEMMA UnguardedMove ==
  ASSUME TypeOK, NEW w \in WatchIds, NEW r \in Rows, Coherent(r), Update(w, r),
         r.status \in ActiveStatuses, row[w].status \in ActiveStatuses,
         r.status = "holding" => UnguardedWrite(w)
  PROVE  RowStep
<1>1. \/ r.status = row[w].status /\ r.status # "sealed"
      \/ <<row[w].status, r.status>> \in Lifecycle!Forward \cup StaleJumps
  BY DEF ActiveStatuses, Lifecycle!Forward, StaleJumps
<1>2. RowMove(w, r)
  BY <1>1 DEF RowMove, Update, ActiveStatuses
<1> QED
  BY <1>2 DEF RowStep

LEMMA MonitorRowStep ==
  ASSUME RowInv, NEW w \in WatchIds,
         \/ MonitorRead(w) \/ MonitorKeep(w) \/ MonitorExit(w)
         \/ TransitionToCoolingOff(w) \/ SealWatch(w) \/ StillCoolingOff(w)
  PROVE  RowStep
<1> DEFINE m == seller[Monitor]
<1>1. m \in Locals /\ m.row \in Rows /\ Coherent(m.row)
  BY DEF RowInv, TypeOK, CopiesOK, CopyOK, Sellers, Locals
<1>2. CASE MonitorRead(w) \/ MonitorExit(w) \/ StillCoolingOff(w)
  BY <1>2 DEF MonitorRead, MonitorExit, StillCoolingOff, RowStep
<1>3. CASE MonitorKeep(w)
  BY <1>1, <1>3, GuardedMove DEF MonitorKeep, RowInv, RowStep
<1>4. CASE TransitionToCoolingOff(w)
  <2>1. /\ StartCoolingOff(m.row) \in Rows /\ Coherent(StartCoolingOff(m.row))
        /\ StartCoolingOff(m.row).status = "cooling_off"
    BY <1>1, <1>4, RowTypes, CoherentOps DEF TransitionToCoolingOff
  <2> QED
    BY <1>4, <2>1, GuardedMove DEF TransitionToCoolingOff, RowInv
<1>5. CASE SealWatch(w)
  <2>1. /\ Seal(m.row) \in Rows /\ Coherent(Seal(m.row))
        /\ Seal(m.row).status = "sealed"
    BY <1>1, <1>5, RowTypes, CoherentOps DEF SealWatch
  <2>2. seller' = [seller EXCEPT ![Monitor] = Idle] /\ Monitor \in Sellers
        /\ seller \in [Sellers -> Locals]
    BY <1>5 DEF SealWatch, Become, RowInv, TypeOK, Sellers
  <2>3. seller'[Monitor].watch = None /\ \A p \in Workers : seller'[p] = seller[p]
    BY <2>2, ThreadsDistinct DEF Idle, Sellers
  <2>4. LeftAlone(w)
    BY <1>5, <2>3 DEF SealWatch, CoolingOffElapsed, LeftAlone, unmoved
  <2> QED
    BY <1>5, <2>1, <2>4, GuardedMove DEF SealWatch, RowInv
<1> QED
  BY <1>2, <1>3, <1>4, <1>5

LEMMA SellerRowStep ==
  ASSUME RowInv, NEW p \in Sellers, SellerStep(p)
  PROVE  RowStep
<1> DEFINE m == seller[p]
<1>1. m \in Locals /\ m.row \in Rows /\ Coherent(m.row) /\ SellerOK(m) /\ Attached(m)
  BY DEF RowInv, TypeOK, CopiesOK, CopyOK, ThreadsAttached, Locals
<1>2. \/ UNCHANGED row
      \/ PersistPending(p) \/ ClearPending(p) \/ PersistSellId(p) \/ CommitExit(p)
  BY DEF SellerStep, CancelStop, SubmitSell, NothingToSell, SubmitFails, SellConfirmed,
         SellUnconfirmed
<1>3. CASE PersistPending(p) \/ ClearPending(p) \/ PersistSellId(p)
  <2> DEFINE r == IF m.pc = "pend" THEN MarkExitPending(m.row)
                  ELSE IF m.pc = "clear" THEN ClearExitPending(m.row) ELSE m.row
  <2>1. /\ m.pc \in {"pend", "clear", "persist"}
        /\ Update(m.watch, r)
        /\ \E l : l.pc # m.pc /\ Become(p, l)
    <3>1. CASE PersistPending(p)
      <4>1. [m EXCEPT !.pc = "submit", !.row = MarkExitPending(m.row)].pc = "submit"
        BY <1>1 DEF Locals
      <4> QED
        BY <3>1, <4>1 DEF PersistPending
    <3>2. CASE ClearPending(p)
      <4>1. GiveUp(p, [m EXCEPT !.row = ClearExitPending(m.row)]).pc \in {"commit", "done"}
        BY <1>1 DEF GiveUp, Done, Idle, Locals
      <4> QED
        BY <3>2, <4>1 DEF ClearPending
    <3>3. CASE PersistSellId(p)
      <4>1. [m EXCEPT !.pc = "wait"].pc = "wait"
        BY <1>1 DEF Locals
      <4> QED
        BY <3>3, <4>1 DEF PersistSellId
    <3> QED
      BY <1>3, <3>1, <3>2, <3>3
  <2>2. m.row.status = "holding" /\ m.watch \in WatchIds
    BY <1>1, <2>1 DEF SellerOK, SellingPcs
  <2>3. r \in Rows /\ Coherent(r) /\ r.status = "holding"
    BY <1>1, <2>2, RowTypes, CoherentOps
  <2>4. row[m.watch].status \in ActiveStatuses
    BY <1>1, <2>2 DEF Attached
  <2>5. UnguardedWrite(m.watch)
    <3>1. seller'[p] # seller[p]
      BY <2>1 DEF Become, RowInv, TypeOK
    <3> QED
      BY <2>1, <3>1 DEF UnguardedWrite
  <2> QED
    BY <2>1, <2>2, <2>3, <2>4, <2>5, UnguardedMove DEF RowInv, ActiveStatuses
<1>4. CASE CommitExit(p)
  <2>1. m.watch \in WatchIds /\ m.price # "none" /\ m.price \in ExitPrices
    BY <1>1, <1>4 DEF CommitExit, SellerOK, SellingPcs, Locals
  <2>2. /\ RecordExit(m.row, m.price) \in Rows /\ Coherent(RecordExit(m.row, m.price))
        /\ RecordExit(m.row, m.price).status = "exited"
    BY <1>1, <2>1, RowTypes, CoherentOps
  <2> QED
    BY <1>4, <2>1, <2>2, GuardedMove DEF CommitExit, RowInv
<1> QED
  BY <1>2, <1>3, <1>4 DEF RowStep

LEMMA StreamRowStep ==
  ASSUME RowInv, StreamStep
  PROVE  RowStep
<1>1. CASE StreamWrite
  <2>1. /\ stream.row \in Rows /\ Coherent(stream.row) /\ stream.row.status \in ActiveStatuses
        /\ stream.watch \in WatchIds
    BY <1>1 DEF StreamWrite, RowInv, TypeOK, CopiesOK, CopyOK, StreamOK, Locals, Rows,
                Statuses, ActiveStatuses
  <2>2. row[stream.watch].status \in ActiveStatuses
    BY <2>1 DEF RowInv, ThreadsAttached, Attached
  <2>3. UnguardedWrite(stream.watch)
    BY <1>1 DEF StreamWrite, UnguardedWrite, Idle
  <2> QED
    BY <1>1, <2>1, <2>2, <2>3, UnguardedMove DEF StreamWrite, RowInv
<1>2. CASE UNCHANGED row
  BY <1>2 DEF RowStep
<1> QED
  BY <1>1, <1>2 DEF StreamStep, StreamSellFill, StreamBuyFill

LEMMA ReconcileRowStep ==
  ASSUME RowInv, ReconcileStep
  PROVE  RowStep
<1>1. /\ rec.row \in Rows /\ Coherent(rec.row)
      /\ rec.pc \in RepairPcs => rec.row.status = "holding" /\ rec.watch \in WatchIds
  BY DEF RowInv, TypeOK, CopiesOK, CopyOK, RecOK, Locals
<1>2. \/ UNCHANGED row
      \/ ReconcileSync \/ ReconcileForceExit \/ ReconcileAdopt \/ EnsureBreachExit
  BY DEF ReconcileStep, ReconcileStart, ReconcileRead, ReconcileVerify, EnsureStart,
         EnsureRead, EnsureOrders, EnsurePlace, EnsureBreach
<1>3. CASE ReconcileSync
  BY <1>1, <1>3, GuardedMove DEF ReconcileSync, RepairPcs, RowInv
<1>4. CASE ReconcileForceExit \/ EnsureBreachExit
  <2>1. \A x \in ExitPrices \ {"none"} :
          /\ RecordExit(rec.row, x) \in Rows /\ Coherent(RecordExit(rec.row, x))
          /\ RecordExit(rec.row, x).status = "exited"
    BY <1>1, RowTypes, CoherentOps
  <2> QED
    BY <1>1, <1>4, <2>1, GuardedMove
       DEF ReconcileForceExit, EnsureBreachExit, RepairPcs, RowInv, ExitPrices
<1>5. CASE ReconcileAdopt
  <2>1. CASE Unused = {}
    BY <1>5, <2>1 DEF ReconcileAdopt, RowStep
  <2>2. ASSUME NEW w \in Unused, Update(w, NewRow(None))
        PROVE  RowStep
    <3>1. w \in WatchIds /\ row[w].status = "absent"
      BY <2>2 DEF Unused
    <3>2. NewRow(None) \in Rows
      BY RowTypes
    <3>3. RowMove(w, NewRow(None))
      BY <2>2, <3>1, NewRowCoherent DEF RowMove, Update, Lifecycle!Forward
    <3> QED
      BY <3>1, <3>2, <3>3 DEF RowStep
  <2> QED
    BY <1>5, <2>1, <2>2 DEF ReconcileAdopt
<1> QED
  BY <1>2, <1>3, <1>4, <1>5 DEF RowStep

LEMMA WebRowStep ==
  ASSUME RowInv, WebStep
  PROVE  RowStep
<1>1. CASE ForceExitWrite
  <2>1. /\ web.row \in Rows /\ Coherent(web.row) /\ web.row.status = "exited"
        /\ web.watch \in WatchIds
    BY <1>1 DEF ForceExitWrite, RowInv, TypeOK, CopiesOK, CopyOK, WebOK, Locals
  <2>2. row[web.watch].status \in ActiveStatuses
    BY <2>1 DEF RowInv, ThreadsAttached, Attached
  <2> QED
    BY <1>1, <2>1, <2>2, UnguardedMove DEF ForceExitWrite, RowInv, ActiveStatuses
<1>2. CASE UNCHANGED row
  BY <1>2 DEF RowStep
<1> QED
  BY <1>1, <1>2 DEF WebStep, ForceExitRead

(* Every step replaces at most one row, and moves its status along the     *)
(* lifecycle or along a jump of a stale write.                             *)
LEMMA RowSteps == RowInv /\ [Next]_vars => RowStep
<1> SUFFICES ASSUME RowInv, [Next]_vars PROVE RowStep
  OBVIOUS
<1>1. CASE MonitorStep
  BY <1>1, MonitorRowStep, SellerRowStep DEF MonitorStep, Sellers
<1>2. CASE \E p \in Workers : WorkerStep(p)
  BY <1>2, SellerRowStep DEF WorkerStep, Sellers, VictimRead, RowStep
<1>3. CASE UNCHANGED vars \/ Environment
  BY <1>3 DEF vars, Environment, FillOrder, OrderDies, LoseEvent, Liquidate, Crash,
              SignalFires, RowStep
<1> QED
  BY <1>1, <1>2, <1>3, StreamRowStep, ReconcileRowStep, WebRowStep DEF Next

(* The threads after a step, attached to the rows before it.               *)
ThreadsStep ==
  /\ \A p \in Sellers : CopyOK(seller'[p]) /\ SellerOK(seller'[p]) /\ Attached(seller'[p])
  /\ CopyOK(stream') /\ Attached(stream') /\ StreamOK'
  /\ CopyOK(rec') /\ Attached(rec') /\ RecOK'
  /\ CopyOK(web') /\ Attached(web') /\ WebOK'

LEMMA BecomeOK ==
  ASSUME RowInv, NEW p \in Sellers, NEW l \in Locals, Become(p, l),
         CopyOK(l), SellerOK(l), Attached(l), UNCHANGED <<stream, rec, web>>
  PROVE  ThreadsStep
BY DEF RowInv, TypeOK, Become, ThreadsStep, CopiesOK, ThreadsAttached, StreamOK, RecOK, WebOK

LEMMA IdleOK ==
  /\ CopyOK(Idle) /\ SellerOK(Idle) /\ Attached(Idle)
  /\ CopyOK(Done) /\ SellerOK(Done) /\ Attached(Done)
BY NewRowCoherent, NoneIsNoWatch DEF Idle, Done, CopyOK, SellerOK, Attached, SellingPcs

(* A thread that takes up an active watch, or sets out to sell it.         *)
LEMMA TakeUp ==
  ASSUME RowInv, NEW w \in WatchIds, row[w].status \in ActiveStatuses, NEW pc \in Pcs
  PROVE  LET t == At(pc, w, row[w])
         IN  /\ t \in Locals /\ t.pc = pc /\ t.row = row[w] /\ t.watch = w
             /\ CopyOK(t) /\ Attached(t)
<1>1. row[w] \in Rows /\ Coherent(row[w]) /\ row[w].status # "sealed"
  BY DEF RowInv, TypeOK, RowsCoherent, ActiveStatuses
<1>2. /\ At(pc, w, row[w]).pc = pc /\ At(pc, w, row[w]).row = row[w]
      /\ At(pc, w, row[w]).watch = w /\ At(pc, w, row[w]) \in Locals
  BY <1>1, LocalTypes DEF At, Idle
<1> QED
  BY <1>1, <1>2 DEF CopyOK, Attached

LEMMA TakeUpToSell ==
  ASSUME RowInv, NEW w \in WatchIds, row[w].status = "holding"
  PROVE  LET t == [At("cancel", w, row[w]) EXCEPT !.price = "estimate"]
         IN  t \in Locals /\ CopyOK(t) /\ Attached(t) /\ SellerOK(t)
<1> DEFINE t == [At("cancel", w, row[w]) EXCEPT !.price = "estimate"]
<1>1. row[w] \in Rows /\ Coherent(row[w])
  BY DEF RowInv, TypeOK, RowsCoherent
<1>2. t \in Locals /\ t.row = row[w] /\ t.watch = w /\ t.price = "estimate"
  BY <1>1 DEF At, Idle, Locals, Pcs, ExitPrices
<1> QED
  BY <1>1, <1>2 DEF CopyOK, Attached, SellerOK, ActiveStatuses

(* A thread that goes on with its watch.                                   *)
LEMMA GoOn ==
  ASSUME NEW l \in Locals, NEW k \in Locals, CopyOK(l), Attached(l),
         k.watch = l.watch, k.row.status = l.row.status, k.row.exit = l.row.exit
  PROVE  CopyOK(k) /\ Attached(k)
BY DEF CopyOK, Attached, Coherent

LEMMA MonitorThreads ==
  ASSUME RowInv, NEW w \in WatchIds,
         \/ MonitorRead(w) \/ MonitorKeep(w) \/ MonitorExit(w)
         \/ TransitionToCoolingOff(w) \/ SealWatch(w) \/ StillCoolingOff(w)
  PROVE  ThreadsStep
<1> DEFINE m == seller[Monitor]
<1>1. /\ Monitor \in Sellers /\ m \in Locals /\ CopyOK(m) /\ Attached(m)
      /\ UNCHANGED <<stream, rec, web>>
  BY DEF RowInv, TypeOK, CopiesOK, ThreadsAttached, Sellers, unmoved, MonitorRead,
         MonitorKeep, MonitorExit, TransitionToCoolingOff, SealWatch, StillCoolingOff
<1>2. CASE MonitorRead(w)
  <2>1. row[w].status \in ActiveStatuses
    BY <1>2 DEF MonitorRead, Active
  <2>2. /\ At("check", w, row[w]) \in Locals /\ CopyOK(At("check", w, row[w]))
        /\ Attached(At("check", w, row[w])) /\ At("check", w, row[w]).pc = "check"
    BY <2>1, TakeUp DEF Pcs
  <2> QED
    BY <1>1, <1>2, <2>2, BecomeOK DEF MonitorRead, SellerOK, SellingPcs
<1>3. CASE MonitorExit(w)
  <2> DEFINE k == [m EXCEPT !.pc = "cancel", !.price = "estimate"]
  <2>1. k \in Locals /\ k.watch = w /\ k.row = m.row /\ k.price = "estimate"
    BY <1>1, <1>3 DEF MonitorExit, Locals, Pcs, ExitPrices
  <2>2. CopyOK(k) /\ Attached(k)
    BY <1>1, <1>3, <2>1, GoOn DEF MonitorExit
  <2>3. SellerOK(k)
    BY <1>3, <2>1 DEF MonitorExit, SellerOK
  <2> QED
    BY <1>1, <1>3, <2>1, <2>2, <2>3, BecomeOK DEF MonitorExit
<1>4. CASE Become(Monitor, Idle)
  BY <1>1, <1>4, IdleOK, LocalTypes, BecomeOK
<1> QED
  BY <1>2, <1>3, <1>4 DEF MonitorKeep, TransitionToCoolingOff, SealWatch, StillCoolingOff

LEMMA SellerThreads ==
  ASSUME RowInv, NEW p \in Sellers, SellerStep(p)
  PROVE  ThreadsStep
<1> DEFINE m == seller[p]
           Follows(l) == /\ l \in Locals /\ l.watch = m.watch /\ l.price # "none"
                         /\ l.row.status = m.row.status /\ l.row.exit = m.row.exit
<1>1. /\ m \in Locals /\ CopyOK(m) /\ Attached(m) /\ SellerOK(m)
      /\ UNCHANGED <<stream, rec, web>>
  BY DEF RowInv, TypeOK, CopiesOK, ThreadsAttached, unmoved, SellerStep, CancelStop,
         PersistPending, SubmitSell, NothingToSell, SubmitFails, ClearPending,
         PersistSellId, SellConfirmed, SellUnconfirmed, CommitExit
<1>2. m.pc \in SellingPcs
  BY DEF SellerStep, CancelStop, PersistPending, SubmitSell, NothingToSell, SubmitFails,
         ClearPending, PersistSellId, SellConfirmed, SellUnconfirmed, CommitExit, SellingPcs
<1>3. m.row.status = "holding" /\ m.price # "none" /\ m.watch \in WatchIds
  BY <1>1, <1>2 DEF SellerOK
<1>4. ASSUME NEW l, Follows(l), Become(p, l) PROVE ThreadsStep
  <2>1. CopyOK(l) /\ Attached(l)
    BY <1>1, <1>4, GoOn
  <2>2. SellerOK(l)
    BY <1>3, <1>4 DEF SellerOK
  <2> QED
    BY <1>1, <1>4, <2>1, <2>2, BecomeOK
<1>5. ASSUME Become(p, Idle) \/ Become(p, Done) PROVE ThreadsStep
  BY <1>1, <1>5, IdleOK, LocalTypes, BecomeOK
<1>6. \A l : Follows(l) => GiveUp(p, l) = Done \/ Follows(GiveUp(p, l))
  <2>1. \A l : Follows(l) => Follows([l EXCEPT !.pc = "commit"])
    BY DEF Locals, Pcs
  <2> QED
    BY <2>1 DEF GiveUp
<1>7. Follows(m) /\ \A pc \in Pcs : Follows([m EXCEPT !.pc = pc])
  BY <1>1, <1>3 DEF Locals
<1>8. Follows([m EXCEPT !.row = ClearExitPending(m.row)])
  BY <1>1, <1>3 DEF Locals, ClearExitPending, Rows
<1>9. CASE CancelStop(p)
  <2>1. Follows([m EXCEPT !.pc = "pend", !.row.stop = None])
    BY <1>1, <1>3 DEF Locals, Rows, Pcs
  <2> QED
    BY <1>4, <1>9, <2>1 DEF CancelStop
<1>10. CASE PersistPending(p)
  <2>1. Follows([m EXCEPT !.pc = "submit", !.row = MarkExitPending(m.row)])
    BY <1>1, <1>3 DEF Locals, Rows, Pcs, MarkExitPending
  <2> QED
    BY <1>4, <1>10, <2>1 DEF PersistPending
<1>11. CASE SubmitSell(p)
  <2>1. open'.id \in OrderIds
    BY <1>11, PlaceType DEF SubmitSell, ClosePosition, OrderKinds
  <2>2. Follows([m EXCEPT !.pc = "persist", !.row.sell = open'.id])
    BY <1>1, <1>3, <2>1 DEF Locals, Rows, Pcs
  <2> QED
    BY <1>4, <1>11, <2>2 DEF SubmitSell
<1>12. CASE NothingToSell(p)
  BY <1>4, <1>7, <1>12 DEF NothingToSell, Pcs
<1>13. CASE SubmitFails(p)
  BY <1>4, <1>5, <1>6, <1>7, <1>13 DEF SubmitFails, Pcs
<1>14. CASE ClearPending(p)
  BY <1>4, <1>5, <1>6, <1>8, <1>14 DEF ClearPending
<1>15. CASE PersistSellId(p)
  BY <1>4, <1>7, <1>15 DEF PersistSellId, Pcs
<1>16. CASE SellConfirmed(p)
  <2>1. Follows([m EXCEPT !.pc = "commit", !.price = "fill", !.row = ClearExitPending(m.row)])
    BY <1>1, <1>3 DEF Locals, Rows, Pcs, ExitPrices, ClearExitPending
  <2> QED
    BY <1>4, <1>16, <2>1 DEF SellConfirmed
<1>17. CASE SellUnconfirmed(p)
  BY <1>4, <1>5, <1>6, <1>7, <1>17 DEF SellUnconfirmed
<1>18. CASE CommitExit(p)
  BY <1>5, <1>18 DEF CommitExit, Finished
<1> QED
  BY <1>9, <1>10, <1>11, <1>12, <1>13, <1>14, <1>15, <1>16, <1>17, <1>18 DEF SellerStep

LEMMA VictimThreads ==
  ASSUME RowInv, NEW p \in Workers, NEW w \in WatchIds, VictimRead(p, w)
  PROVE  ThreadsStep
BY TakeUpToSell, BecomeOK DEF VictimRead, Holding, Sellers, unmoved

LEMMA StreamThreads ==
  ASSUME RowInv, StreamStep
  PROVE  ThreadsStep
<1>1. SUFFICES CopyOK(stream') /\ Attached(stream') /\ StreamOK'
  BY DEF StreamStep, StreamSellFill, StreamBuyFill, StreamWrite, ThreadsStep, RowInv,
         CopiesOK, ThreadsAttached, RecOK, WebOK
<1>2. CASE stream' = Idle
  BY <1>2, IdleOK DEF StreamOK, Idle
<1>3. CASE stream' = stream
  BY <1>3 DEF RowInv, CopiesOK, ThreadsAttached, StreamOK
<1>4. ASSUME NEW w \in WatchIds, NEW r \in Rows, row[w].status \in ActiveStatuses,
             Coherent(r), r.status \in ActiveStatuses, stream' = At("write", w, r)
      PROVE  CopyOK(stream') /\ Attached(stream') /\ StreamOK'
  BY <1>4 DEF At, Idle, CopyOK, Attached, StreamOK, ActiveStatuses
<1>5. CASE \E o \in OrderIds : StreamSellFill(o)
  <2> DEFINE fill(w) == ClearExitPending(RecordExit(row[w], "fill"))
             reprice(w) == ClearExitPending(
                             IF row[w].exit = "none" THEN RecordExit(row[w], "fill")
                                                     ELSE [row[w] EXCEPT !.exit = "fill"])
  <2>1. ASSUME NEW w \in WatchIds, row[w].status \in ActiveStatuses
        PROVE  /\ fill(w) \in Rows /\ Coherent(fill(w)) /\ fill(w).status \in ActiveStatuses
               /\ reprice(w) \in Rows /\ Coherent(reprice(w))
               /\ reprice(w).status \in ActiveStatuses
    <3>1. row[w] \in Rows /\ Coherent(row[w])
      BY DEF RowInv, TypeOK, RowsCoherent
    <3> QED
      BY <2>1, <3>1 DEF Rows, Coherent, ClearExitPending, RecordExit, ActiveStatuses,
                        Statuses, ExitPrices
  <2>2. CASE stream' = stream
    BY <1>3, <2>2
  <2>3. CASE \E w \in WatchIds :
               Active(w) /\ stream' \in {At("write", w, fill(w)), At("write", w, reprice(w))}
    BY <1>4, <2>1, <2>3 DEF Active
  <2> QED
    BY <1>5, <2>2, <2>3 DEF StreamSellFill, Active, Holding, ActiveStatuses
<1>6. CASE \E w \in WatchIds : StreamBuyFill(w)
  BY <1>3, <1>4, <1>6 DEF StreamBuyFill, Active, RowInv, TypeOK, RowsCoherent
<1> QED
  BY <1>2, <1>5, <1>6 DEF StreamStep, StreamWrite

LEMMA ReconcileThreads ==
  ASSUME RowInv, ReconcileStep
  PROVE  ThreadsStep
<1>1. SUFFICES CopyOK(rec') /\ Attached(rec') /\ RecOK'
  <2>1. UNCHANGED <<seller, stream, web>>
    BY DEF ReconcileStep, ReconcileStart, ReconcileRead, ReconcileSync, ReconcileVerify,
           ReconcileForceExit, ReconcileAdopt, EnsureStart, EnsureRead, EnsureOrders,
           EnsurePlace, EnsureBreach, EnsureBreachExit, others
  <2> QED
    BY <2>1 DEF ThreadsStep, RowInv, CopiesOK, ThreadsAttached, StreamOK, WebOK
<1>2. ASSUME rec' = Idle PROVE CopyOK(rec') /\ Attached(rec') /\ RecOK'
  BY <1>2, IdleOK DEF RecOK, Idle, RepairPcs
<1>3. ASSUME NEW pc \in {"listed", "missed", "adopt", "holdings"},
             rec' = [Idle EXCEPT !.pc = pc]
      PROVE  CopyOK(rec') /\ Attached(rec') /\ RecOK'
  BY <1>3, NewRowCoherent, NoneIsNoWatch DEF Idle, CopyOK, Attached, RecOK, RepairPcs
<1>4. ASSUME NEW w \in WatchIds, Holding(w), NEW pc \in RepairPcs, rec' = At(pc, w, row[w])
      PROVE  CopyOK(rec') /\ Attached(rec') /\ RecOK'
  <2>1. row[w].status \in ActiveStatuses /\ pc \in Pcs
    BY <1>4 DEF Holding, ActiveStatuses, RepairPcs, Pcs
  <2> QED
    BY <1>4, <2>1, TakeUp DEF Holding, RecOK
<1>5. ASSUME rec.pc \in RepairPcs, rec'.watch = rec.watch, rec' \in Locals,
             rec'.row.status = rec.row.status, rec'.row.exit = rec.row.exit
      PROVE  CopyOK(rec') /\ Attached(rec') /\ RecOK'
  BY <1>5, GoOn DEF RowInv, TypeOK, CopiesOK, ThreadsAttached, RecOK
<1>6. ASSUME rec.pc \in RepairPcs, NEW pc \in Pcs, rec' = [rec EXCEPT !.pc = pc]
      PROVE  CopyOK(rec') /\ Attached(rec') /\ RecOK'
  BY <1>5, <1>6 DEF RowInv, TypeOK, Locals
<1>7. ASSUME rec.pc \in RepairPcs, NEW pc \in Pcs, NEW o \in OrderIds \cup {None},
             rec' = [rec EXCEPT !.pc = pc, !.row.stop = o]
      PROVE  CopyOK(rec') /\ Attached(rec') /\ RecOK'
  BY <1>5, <1>7 DEF RowInv, TypeOK, Locals, Rows
<1>8. CASE ReconcileStart \/ EnsureStart
  BY <1>3, <1>8 DEF ReconcileStart, EnsureStart
<1>9. CASE ReconcileRead
  BY <1>2, <1>3, <1>4, <1>9 DEF ReconcileRead, RepairPcs
<1>10. CASE ReconcileVerify
  BY <1>2, <1>6, <1>10 DEF ReconcileVerify, RepairPcs, Pcs
<1>11. CASE EnsureRead
  BY <1>2, <1>4, <1>11 DEF EnsureRead, RepairPcs
<1>12. CASE EnsureOrders
  <2>1. open.id \in OrderIds \cup {None}
    BY DEF RowInv, TypeOK, OpenOrders, NoOrder
  <2> QED
    BY <1>2, <1>6, <1>7, <1>12, <2>1 DEF EnsureOrders, RepairPcs, Pcs
<1>13. CASE EnsurePlace
  <2>1. CASE rec' = Idle
    BY <1>2, <2>1
  <2>2. CASE Place("stop") /\ rec' = [rec EXCEPT !.pc = "sync", !.row.stop = open'.id]
    <3>1. open'.id \in OrderIds
      BY <2>2, PlaceType DEF OrderKinds
    <3> QED
      BY <1>7, <1>13, <2>2, <3>1 DEF EnsurePlace, RepairPcs, Pcs
  <2> QED
    BY <1>13, <2>1, <2>2 DEF EnsurePlace
<1>14. CASE EnsureBreach
  BY <1>2, <1>6, <1>14 DEF EnsureBreach, RepairPcs, Pcs
<1> QED
  BY <1>2, <1>8, <1>9, <1>10, <1>11, <1>12, <1>13, <1>14
     DEF ReconcileStep, ReconcileSync, ReconcileForceExit, ReconcileAdopt, EnsureBreachExit

LEMMA WebThreads ==
  ASSUME RowInv, WebStep
  PROVE  ThreadsStep
<1>1. SUFFICES CopyOK(web') /\ Attached(web') /\ WebOK'
  BY DEF WebStep, ForceExitRead, ForceExitWrite, ThreadsStep, RowInv, CopiesOK,
         ThreadsAttached, StreamOK, RecOK
<1>2. CASE \E w \in WatchIds : ForceExitRead(w)
  <2> PICK w \in WatchIds : ForceExitRead(w)
    BY <1>2
  <2>1. /\ row[w] \in Rows /\ Coherent(row[w]) /\ row[w].status \in ActiveStatuses
        /\ web' = At("write", w, RecordExit(row[w], "estimate"))
    BY DEF ForceExitRead, Holding, ActiveStatuses, RowInv, TypeOK, RowsCoherent
  <2>2. Coherent(RecordExit(row[w], "estimate")) /\ RecordExit(row[w], "estimate").status = "exited"
    BY <2>1, CoherentOps DEF ExitPrices
  <2> QED
    BY <2>1, <2>2 DEF At, Idle, CopyOK, Attached, WebOK
<1>3. CASE ForceExitWrite
  BY <1>3, IdleOK DEF ForceExitWrite, WebOK, Idle
<1> QED
  BY <1>2, <1>3 DEF WebStep

LEMMA EnvironmentThreads ==
  ASSUME RowInv, Environment \/ UNCHANGED vars
  PROVE  ThreadsStep
<1>1. CASE Crash
  BY <1>1, IdleOK DEF Crash, ThreadsStep, StreamOK, RecOK, WebOK, RepairPcs, Idle
<1>2. CASE UNCHANGED <<seller, stream, rec, web>>
  BY <1>2 DEF ThreadsStep, RowInv, CopiesOK, ThreadsAttached, StreamOK, RecOK, WebOK
<1> QED
  BY <1>1, <1>2 DEF Environment, FillOrder, OrderDies, LoseEvent, Liquidate, SignalFires, vars

LEMMA ThreadSteps == RowInv /\ [Next]_vars => ThreadsStep
<1> SUFFICES ASSUME RowInv, [Next]_vars PROVE ThreadsStep
  OBVIOUS
<1>1. CASE MonitorStep
  BY <1>1, MonitorThreads, SellerThreads DEF MonitorStep, Sellers
<1>2. CASE \E p \in Workers : WorkerStep(p)
  BY <1>2, VictimThreads, SellerThreads DEF WorkerStep, Sellers
<1> QED
  BY <1>1, <1>2, StreamThreads, ReconcileThreads, WebThreads, EnvironmentThreads DEF Next

LEMMA RowInvInit == Init => RowInv
<1> SUFFICES ASSUME Init PROVE RowInv
  OBVIOUS
<1>1. TypeOK
  BY InitType
<1>2. \A w \in WatchIds : Coherent(row[w])
  BY SomeOrder, NewRowCoherent DEF Init, FirstOrder
<1>3. CopiesOK /\ ThreadsAttached
  BY IdleOK DEF Init, CopiesOK, ThreadsAttached, StreamOK, RecOK, WebOK, Idle, RepairPcs
<1> QED
  BY <1>1, <1>2, <1>3 DEF RowInv, RowsCoherent

LEMMA RowInvStep == RowInv /\ [Next]_vars => RowInv'
<1> SUFFICES ASSUME RowInv, [Next]_vars PROVE RowInv'
  OBVIOUS
<1>1. TypeOK' /\ RowStep /\ ThreadsStep
  BY StepType, RowSteps, ThreadSteps DEF RowInv
<1>2. RowsCoherent'
  BY <1>1 DEF RowInv, RowsCoherent, TypeOK, RowStep, RowMove
<1>3. CopiesOK'
  BY <1>1 DEF ThreadsStep, CopiesOK, CopyOK, SellerOK
<1>4. ThreadsAttached'
  <2>1. CASE row' = row
    BY <1>1, <2>1 DEF ThreadsStep, ThreadsAttached, Attached
  <2>2. ASSUME NEW w \in WatchIds, NEW r \in Rows, RowMove(w, r)
        PROVE  ThreadsAttached'
    <3>1. \A v \in WatchIds : row'[v] = IF v = w THEN r ELSE row[v]
      BY <2>2 DEF RowMove, RowInv, TypeOK
    <3>2. \/ r.status \in ActiveStatuses
          \/ r.status = "sealed" /\ LeftAlone(w)
          \/ r.status = "absent" /\ row[w].status = "absent"
      BY <2>2 DEF RowMove, Rows, Statuses, ActiveStatuses, Lifecycle!Forward, StaleJumps
    <3>3. CASE r.status \in ActiveStatuses
      BY <1>1, <3>1, <3>3 DEF ThreadsStep, ThreadsAttached, Attached
    <3>4. CASE r.status = "sealed" /\ LeftAlone(w)
      BY <1>1, <3>1, <3>4, NoneIsNoWatch
         DEF ThreadsStep, ThreadsAttached, Attached, LeftAlone, Sellers
    <3>5. CASE r.status = "absent" /\ row[w].status = "absent"
      BY <1>1, <3>1, <3>5 DEF ThreadsStep, ThreadsAttached, Attached
    <3> QED
      BY <3>2, <3>3, <3>4, <3>5
  <2> QED
    BY <1>1, <2>1, <2>2 DEF RowStep
<1> QED
  BY <1>1, <1>2, <1>3, <1>4 DEF RowInv

LEMMA RowInvariant == Spec => []RowInv
BY RowInvInit, RowInvStep, PTL DEF Spec

(* A row's status and its exit never disagree, whatever the threads        *)
(* overwrite.                                                              *)
THEOREM RowsStayCoherent == Spec => []RowsCoherent
<1>1. RowInv => RowsCoherent
  BY DEF RowInv
<1> QED
  BY <1>1, RowInvariant, PTL

(* No write of any thread reaches a sealed watch.                          *)
THEOREM SealedStaysSealed == Spec => SealedIsFinal
<1>1. RowInv /\ [Next]_vars =>
        [\A w \in WatchIds : row[w].status = "sealed" => row'[w] = row[w]]_vars
  <2> SUFFICES ASSUME RowInv, [Next]_vars, NEW w \in WatchIds, row[w].status = "sealed"
               PROVE  row'[w] = row[w]
    OBVIOUS
  <2>1. RowStep
    BY RowSteps
  <2>2. ASSUME NEW v \in WatchIds, NEW r \in Rows, RowMove(v, r) PROVE v # w
    BY <2>2 DEF RowMove, Lifecycle!Forward, StaleJumps
  <2>3. ASSUME NEW v \in WatchIds, NEW r \in Rows, RowMove(v, r) PROVE row'[w] = row[w]
    BY <2>2, <2>3 DEF RowMove, RowInv, TypeOK
  <2> QED
    BY <2>1, <2>3 DEF RowStep
<1> QED
  BY <1>1, RowInvariant, PTL DEF Spec, SealedIsFinal

(* Only the writes of update_watch reopen an exited watch: every guarded   *)
(* write leaves it exited.                                                 *)
THEOREM GuardedWritesKeepExits == Spec => OnlyUnguardedWritesReopen
<1>1. RowInv /\ [Next]_vars =>
        [\A w \in WatchIds :
           row[w].status \in {"exited", "cooling_off", "sealed"} /\ row'[w].status = "holding"
             => UnguardedWrite(w)]_vars
  <2> SUFFICES ASSUME RowInv, [Next]_vars, NEW w \in WatchIds,
                      row[w].status \in {"exited", "cooling_off", "sealed"},
                      row'[w].status = "holding"
               PROVE  UnguardedWrite(w)
    OBVIOUS
  <2>1. RowStep
    BY RowSteps
  <2>2. ASSUME NEW v \in WatchIds, NEW r \in Rows, RowMove(v, r) PROVE UnguardedWrite(w)
    <3>1. row'[w] = IF v = w THEN r ELSE row[w]
      BY <2>2 DEF RowMove, RowInv, TypeOK
    <3> QED
      BY <2>2, <3>1 DEF RowMove
  <2> QED
    BY <2>1, <2>2 DEF RowStep
<1> QED
  BY <1>1, RowInvariant, PTL DEF Spec, OnlyUnguardedWritesReopen

(* LiveExit implements the lifecycle of a watch with the jumps of stale    *)
(* writes.                                                                 *)
THEOREM ImplementsLifecycle ==
  ASSUME StaleJumps \subseteq Jumps
  PROVE  Spec => LifecycleSpec
<1> DEFINE status == [w \in WatchIds |-> row[w].status]
<1>1. Init => Lifecycle!Init
  <2> SUFFICES ASSUME Init PROVE Lifecycle!Init
    OBVIOUS
  <2>1. \A w \in WatchIds : row[w].status \in {"absent", "holding"}
    BY SomeOrder, NewRowCoherent DEF Init, FirstOrder
  <2> QED
    BY <2>1 DEF Lifecycle!Init
<1>2. RowInv /\ [Next]_vars => [Lifecycle!Next]_status
  <2> SUFFICES ASSUME RowInv, [Next]_vars PROVE [Lifecycle!Next]_status
    OBVIOUS
  <2>1. CASE row' = row
    BY <2>1
  <2>2. ASSUME NEW w \in WatchIds, NEW r \in Rows, RowMove(w, r)
        PROVE  [Lifecycle!Next]_status
    <3>1. status' = [status EXCEPT ![w] = r.status]
      BY <2>2 DEF RowMove, RowInv, TypeOK
    <3>2. CASE r.status = row[w].status
      BY <3>1, <3>2
    <3>3. CASE <<row[w].status, r.status>> \in Lifecycle!Forward \cup StaleJumps
      <4>1. <<row[w].status, r.status>> \in
              Lifecycle!Forward \cup (Jumps \cap (Lifecycle!LiveStates \X Lifecycle!LiveStates))
        BY <3>3 DEF StaleJumps, Lifecycle!LiveStates, Lifecycle!States
      <4>2. status[w] = row[w].status /\ r.status \in Lifecycle!States
        BY DEF Rows, Statuses, Lifecycle!States
      <4>3. Lifecycle!Move(w, r.status)
        BY <3>1, <4>1, <4>2 DEF Lifecycle!Move
      <4> QED
        BY <4>2, <4>3 DEF Lifecycle!Next
    <3> QED
      BY <2>2, <3>2, <3>3 DEF RowMove
  <2> QED
    BY <2>1, <2>2, RowSteps DEF RowStep
<1> QED
  BY <1>1, <1>2, RowInvariant, PTL DEF Spec, LifecycleSpec, Lifecycle!Spec

-----------------------------------------------------------------------------
(***************************************************************************)
(* The exit prices.  While the position is held there is no fill anywhere: *)
(* no event, no order seen filled, no such price in a row or in a copy; and*)
(* what history there is, is an earlier position's.                        *)
(***************************************************************************)
RealPrices == {"fill"} \cup IF HistoryIsTrusted THEN {"history"} ELSE {}

Unpriced(t) == t.row.exit \notin RealPrices /\ t.price \notin RealPrices

NoSale ==
  /\ events = {} /\ filled = {}
  /\ sold => "old_sell" \in Faults
  /\ \A w \in WatchIds : row[w].exit \notin RealPrices
  /\ \A p \in Sellers : Unpriced(seller[p])
  /\ Unpriced(stream) /\ Unpriced(rec) /\ Unpriced(web)
  /\ HistoryIsTrusted => rec.pc # "force"

HeldUnsold == held => NoSale

LEMMA EstimatesAreUnreal == "none" \notin RealPrices /\ "estimate" \notin RealPrices
BY DEF RealPrices

LEMMA ExitOf ==
  ASSUME NEW r \in Rows
  PROVE  /\ \A x : RecordExit(r, x).exit = x
         /\ MarkExitPending(r).exit = r.exit /\ ClearExitPending(r).exit = r.exit
         /\ StartCoolingOff(r).exit = r.exit /\ Seal(r).exit = r.exit
         /\ NewRow(None).exit = "none" /\ Idle.row.exit = "none" /\ Idle.price = "none"
         /\ Done.row.exit = "none" /\ Done.price = "none"
BY DEF Rows, RecordExit, MarkExitPending, ClearExitPending, StartCoolingOff, Seal,
       NewRow, NoRow, Idle, Done

LEMMA HeldSeller ==
  ASSUME TypeOK, held, NoSale, NEW p \in Sellers, SellerStep(p)
  PROVE  NoSale'
<1> DEFINE m == seller[p]
<1>1. /\ m \in Locals /\ m.row \in Rows /\ m.row.exit \notin RealPrices
      /\ m.price \notin RealPrices
  BY DEF TypeOK, NoSale, Unpriced, Locals
<1>2. Unpriced(Idle) /\ Unpriced(Done)
  BY <1>1, ExitOf, EstimatesAreUnreal DEF Unpriced
<1>3. \A l \in Locals : Unpriced(l) => Unpriced(GiveUp(p, l))
  BY <1>2 DEF GiveUp, Unpriced, Locals
<1>4. ASSUME NEW l, Unpriced(l), Become(p, l), UNCHANGED <<events, filled, sold, stream, rec, web>>,
             \A w \in WatchIds : row'[w].exit \notin RealPrices
      PROVE  NoSale'
  BY <1>4 DEF NoSale, Become, TypeOK, Unpriced
<1>5. CASE CancelStop(p)
  <2>1. Unpriced([m EXCEPT !.pc = "pend", !.row.stop = None])
    BY <1>1 DEF Unpriced, Locals, Rows
  <2> QED
    BY <1>4, <1>5, <2>1 DEF CancelStop, NoSale
<1>6. CASE PersistPending(p)
  <2>1. Unpriced([m EXCEPT !.pc = "submit", !.row = MarkExitPending(m.row)])
    BY <1>1, ExitOf DEF Unpriced, Locals
  <2>2. \A w \in WatchIds : row'[w].exit \notin RealPrices
    BY <1>1, <1>6, ExitOf DEF PersistPending, Update, NoSale, TypeOK
  <2> QED
    BY <1>4, <1>6, <2>1, <2>2 DEF PersistPending, unmoved, account
<1>7. CASE SubmitSell(p)
  <2>1. Unpriced([m EXCEPT !.pc = "persist", !.row.sell = open'.id])
    BY <1>1 DEF Unpriced, Locals, Rows
  <2> QED
    BY <1>4, <1>7, <2>1 DEF SubmitSell, ClosePosition, Place, NoSale
<1>8. CASE SubmitFails(p)
  <2>1. Unpriced([m EXCEPT !.pc = "clear"]) /\ Unpriced(GiveUp(p, m))
    BY <1>1, <1>3 DEF Unpriced, Locals
  <2> QED
    BY <1>4, <1>8, <2>1 DEF SubmitFails, ClosePositionFails, NoSale
<1>9. CASE ClearPending(p)
  <2>1. /\ [m EXCEPT !.row = ClearExitPending(m.row)] \in Locals
        /\ Unpriced([m EXCEPT !.row = ClearExitPending(m.row)])
    BY <1>1, ExitOf, RowTypes DEF Unpriced, Locals
  <2>2. \A w \in WatchIds : row'[w].exit \notin RealPrices
    BY <1>1, <1>9, ExitOf DEF ClearPending, Update, NoSale, TypeOK
  <2> QED
    BY <1>3, <1>4, <1>9, <2>1, <2>2 DEF ClearPending, unmoved, account
<1>10. CASE PersistSellId(p)
  <2>1. Unpriced([m EXCEPT !.pc = "wait"])
    BY <1>1 DEF Unpriced, Locals
  <2>2. \A w \in WatchIds : row'[w].exit \notin RealPrices
    BY <1>1, <1>10 DEF PersistSellId, Update, NoSale, TypeOK
  <2> QED
    BY <1>4, <1>10, <2>1, <2>2 DEF PersistSellId, unmoved, account
<1>11. CASE SellUnconfirmed(p)
  <2>1. filled' = filled
    BY <1>11 DEF SellUnconfirmed, NoSale
  <2>2. Unpriced(GiveUp(p, m))
    BY <1>1, <1>3 DEF Unpriced
  <2> QED
    BY <1>4, <1>11, <2>1, <2>2 DEF SellUnconfirmed, NoSale
<1>12. CASE CommitExit(p)
  <2>1. \A w \in WatchIds : row'[w].exit \notin RealPrices
    BY <1>1, <1>12, ExitOf DEF CommitExit, UpdateIfCurrentStatus, NoSale, TypeOK
  <2> QED
    BY <1>2, <1>4, <1>12, <2>1 DEF CommitExit, Finished, unmoved, account
<1>13. ~SellConfirmed(p) /\ ~NothingToSell(p)
  BY DEF SellConfirmed, NothingToSell, NoSale
<1> QED
  BY <1>5, <1>6, <1>7, <1>8, <1>9, <1>10, <1>11, <1>12, <1>13 DEF SellerStep

LEMMA HeldMonitor ==
  ASSUME TypeOK, held, NoSale, NEW w \in WatchIds,
         \/ MonitorRead(w) \/ MonitorKeep(w) \/ MonitorExit(w)
         \/ TransitionToCoolingOff(w) \/ SealWatch(w) \/ StillCoolingOff(w)
  PROVE  NoSale'
<1> DEFINE m == seller[Monitor]
<1>1. /\ Monitor \in Sellers /\ m \in Locals /\ m.row \in Rows
      /\ m.row.exit \notin RealPrices /\ m.price \notin RealPrices
      /\ UNCHANGED <<events, filled, sold, stream, rec, web>>
  BY DEF TypeOK, NoSale, Unpriced, Locals, Sellers, unmoved, account, MonitorRead,
         MonitorKeep, MonitorExit, TransitionToCoolingOff, SealWatch, StillCoolingOff
<1>2. ASSUME NEW l, Unpriced(l), Become(Monitor, l),
             \A v \in WatchIds : row'[v].exit \notin RealPrices
      PROVE  NoSale'
  BY <1>1, <1>2 DEF NoSale, Become, TypeOK, Unpriced
<1>3. Unpriced(Idle)
  BY <1>1, ExitOf, EstimatesAreUnreal DEF Unpriced
<1>4. CASE MonitorRead(w)
  <2>1. Unpriced(At("check", w, row[w]))
    BY EstimatesAreUnreal DEF NoSale, Unpriced, At, Idle
  <2> QED
    BY <1>2, <1>4, <2>1 DEF MonitorRead, NoSale
<1>5. CASE MonitorExit(w)
  <2>1. Unpriced([m EXCEPT !.pc = "cancel", !.price = "estimate"])
    BY <1>1, EstimatesAreUnreal DEF Unpriced, Locals
  <2> QED
    BY <1>2, <1>5, <2>1 DEF MonitorExit, NoSale
<1>6. CASE \/ MonitorKeep(w) \/ TransitionToCoolingOff(w)
           \/ SealWatch(w) \/ StillCoolingOff(w)
  <2>1. \A v \in WatchIds : row'[v].exit \notin RealPrices
    BY <1>1, <1>6, ExitOf DEF MonitorKeep, TransitionToCoolingOff, SealWatch,
       StillCoolingOff, UpdateIfCurrentStatus, NoSale, TypeOK
  <2> QED
    BY <1>2, <1>3, <1>6, <2>1
       DEF MonitorKeep, TransitionToCoolingOff, SealWatch, StillCoolingOff
<1> QED
  BY <1>4, <1>5, <1>6

LEMMA HeldStream ==
  ASSUME TypeOK, held, NoSale, StreamStep
  PROVE  NoSale'
<1>1. Unpriced(Idle) /\ \A w \in WatchIds : Unpriced(At("write", w, row[w]))
  BY EstimatesAreUnreal DEF NoSale, Unpriced, At, Idle, NoRow
<1>2. ~\E o \in OrderIds : StreamSellFill(o)
  BY DEF StreamSellFill, NoSale
<1>3. CASE \E w \in WatchIds : StreamBuyFill(w)
  BY <1>1, <1>3 DEF StreamBuyFill, NoSale, Unpriced, account
<1>4. CASE StreamWrite
  <2>1. \A w \in WatchIds : row'[w].exit \notin RealPrices
    BY <1>4 DEF StreamWrite, Update, NoSale, Unpriced, TypeOK
  <2> QED
    BY <1>1, <1>4, <2>1 DEF StreamWrite, NoSale, Unpriced, account
<1> QED
  BY <1>2, <1>3, <1>4 DEF StreamStep

LEMMA HeldReconcile ==
  ASSUME TypeOK, held, NoSale, ReconcileStep
  PROVE  NoSale'
<1>1. /\ rec \in Locals /\ rec.row \in Rows /\ rec.row.exit \notin RealPrices
      /\ rec.price \notin RealPrices
  BY DEF TypeOK, NoSale, Unpriced, Locals
<1>2. Unpriced(Idle) /\ Idle.pc = "idle"
  BY EstimatesAreUnreal DEF Unpriced, Idle, NoRow
<1>3. \A pc \in Pcs :
        /\ Unpriced([Idle EXCEPT !.pc = pc]) /\ [Idle EXCEPT !.pc = pc].pc = pc
        /\ Unpriced([rec EXCEPT !.pc = pc]) /\ [rec EXCEPT !.pc = pc].pc = pc
        /\ \A w \in WatchIds : Unpriced(At(pc, w, row[w])) /\ At(pc, w, row[w]).pc = pc
  BY <1>1, <1>2, EstimatesAreUnreal DEF NoSale, Unpriced, At, Idle, Locals, NoRow
<1>4. \A o : /\ Unpriced([rec EXCEPT !.pc = "sync", !.row.stop = o])
             /\ [rec EXCEPT !.pc = "sync", !.row.stop = o].pc = "sync"
  BY <1>1 DEF Unpriced, Locals, Rows
<1>5. UNCHANGED <<events, filled, sold, seller, stream, web>>
  BY DEF ReconcileStep, ReconcileStart, ReconcileRead, ReconcileSync, ReconcileVerify,
         ReconcileForceExit, ReconcileAdopt, EnsureStart, EnsureRead, EnsureOrders,
         EnsurePlace, EnsureBreach, EnsureBreachExit, ClosePosition, ClosePositionFails,
         Place, account, others
<1> DEFINE Fine == Unpriced(rec') /\ (HistoryIsTrusted => rec'.pc # "force")
<1>6. Fine
  <2>1. CASE rec' = Idle
    BY <1>2, <2>1
  <2>2. ASSUME NEW pc \in Pcs, pc # "force",
               rec' = [Idle EXCEPT !.pc = pc] \/ rec' = [rec EXCEPT !.pc = pc]
        PROVE  Fine
    <3>1. CASE rec' = [Idle EXCEPT !.pc = pc]
      BY <1>3, <2>2, <3>1
    <3>2. CASE rec' = [rec EXCEPT !.pc = pc]
      BY <1>3, <2>2, <3>2
    <3> QED
      BY <2>2, <3>1, <3>2
  <2>3. ASSUME NEW pc \in Pcs, pc # "force", NEW w \in WatchIds, rec' = At(pc, w, row[w])
        PROVE  Fine
    BY <1>3, <2>3
  <2>4. ASSUME NEW o, rec' = [rec EXCEPT !.pc = "sync", !.row.stop = o]
        PROVE  Fine
    BY <1>4, <2>4
  <2>5. CASE ReconcileStart \/ EnsureStart
    BY <2>2, <2>5 DEF ReconcileStart, EnsureStart, Pcs
  <2>6. CASE ReconcileRead
    BY <2>1, <2>2, <2>3, <2>6 DEF ReconcileRead, Pcs
  <2>7. CASE ReconcileVerify
    <3>1. CASE sold /\ "api_error" \in Faults /\ rec' = [rec EXCEPT !.pc = "force"]
      BY <1>3, <3>1 DEF NoSale, HistoryIsTrusted, Pcs
    <3> QED
      BY <2>1, <2>7, <3>1 DEF ReconcileVerify
  <2>8. CASE EnsureRead
    BY <2>1, <2>3, <2>8 DEF EnsureRead, Pcs
  <2>9. CASE EnsureOrders
    BY <2>1, <2>2, <2>4, <2>9 DEF EnsureOrders, Pcs
  <2>10. CASE EnsurePlace
    BY <2>1, <2>4, <2>10 DEF EnsurePlace
  <2>11. CASE EnsureBreach
    BY <2>1, <2>2, <2>11 DEF EnsureBreach, Pcs
  <2> QED
    BY <2>1, <2>5, <2>6, <2>7, <2>8, <2>9, <2>10, <2>11
       DEF ReconcileStep, ReconcileSync, ReconcileForceExit, ReconcileAdopt, EnsureBreachExit
<1>7. \A w \in WatchIds : row'[w].exit \notin RealPrices
  <2>1. CASE row' = row
    BY <2>1 DEF NoSale
  <2>2. CASE ReconcileSync \/ EnsureBreachExit
    BY <1>1, <2>2, ExitOf, EstimatesAreUnreal
       DEF ReconcileSync, EnsureBreachExit, UpdateIfCurrentStatus, NoSale, TypeOK
  <2>3. CASE ReconcileForceExit
    <3>1. "history" \notin RealPrices
      BY <2>3 DEF ReconcileForceExit, NoSale, RealPrices
    <3> QED
      BY <1>1, <2>3, <3>1, ExitOf DEF ReconcileForceExit, UpdateIfCurrentStatus, NoSale, TypeOK
  <2>4. CASE ReconcileAdopt
    BY <1>1, <2>4, ExitOf, EstimatesAreUnreal DEF ReconcileAdopt, Update, Unused, NoSale, TypeOK
  <2> QED
    BY <2>1, <2>2, <2>3, <2>4
       DEF ReconcileStep, ReconcileStart, ReconcileRead, ReconcileVerify, EnsureStart,
           EnsureRead, EnsureOrders, EnsurePlace, EnsureBreach
<1> QED
  BY <1>5, <1>6, <1>7 DEF NoSale, Unpriced

LEMMA HeldWeb ==
  ASSUME TypeOK, held, NoSale, WebStep
  PROVE  NoSale'
<1>1. CASE \E w \in WatchIds : ForceExitRead(w)
  <2>1. \A w \in WatchIds : Unpriced(At("write", w, RecordExit(row[w], "estimate")))
    BY ExitOf, EstimatesAreUnreal DEF TypeOK, Unpriced, At, Idle
  <2> QED
    BY <1>1, <2>1 DEF ForceExitRead, NoSale, market, account, Unpriced
<1>2. CASE ForceExitWrite
  <2>1. \A w \in WatchIds : row'[w].exit \notin RealPrices
    BY <1>2 DEF ForceExitWrite, Update, NoSale, Unpriced, TypeOK
  <2>2. Unpriced(Idle)
    BY EstimatesAreUnreal DEF Unpriced, Idle, NoRow
  <2> QED
    BY <1>2, <2>1, <2>2 DEF ForceExitWrite, NoSale, market, account, Unpriced
<1> QED
  BY <1>1, <1>2 DEF WebStep

LEMMA HeldEnvironment ==
  ASSUME TypeOK, held', NoSale, Environment \/ UNCHANGED vars
  PROVE  NoSale'
<1>1. ~FillOrder
  BY DEF FillOrder
<1>2. Unpriced(Idle) /\ Idle.pc # "force"
  BY EstimatesAreUnreal DEF Unpriced, Idle, NoRow
<1>3. CASE Crash
  BY <1>2, <1>3 DEF Crash, NoSale, Unpriced
<1>4. CASE LoseEvent
  BY <1>4 DEF LoseEvent, NoSale
<1>5. CASE UNCHANGED <<row, filled, sold, events, seller, stream, rec, web>>
  BY <1>5 DEF NoSale, Unpriced
<1> QED
  BY <1>1, <1>3, <1>4, <1>5
     DEF Environment, OrderDies, Liquidate, ClosePosition, Place, SignalFires, account, vars

(* The position is never bought back in this model: held only falls.       *)
LEMMA HeldFalls == TypeOK /\ [Next]_vars /\ held' => held
BY DEF Next, Environment, FillOrder, OrderDies, LoseEvent, Liquidate, Crash, SignalFires,
       MonitorStep, MonitorRead, MonitorKeep, MonitorExit, TransitionToCoolingOff, SealWatch,
       StillCoolingOff, WorkerStep, VictimRead, SellerStep, CancelStop, PersistPending,
       SubmitSell, NothingToSell, SubmitFails, ClearPending, PersistSellId, SellConfirmed,
       SellUnconfirmed, CommitExit, StreamStep, StreamSellFill, StreamBuyFill, StreamWrite,
       ReconcileStep, ReconcileStart, ReconcileRead, ReconcileSync, ReconcileVerify,
       ReconcileForceExit, ReconcileAdopt, EnsureStart, EnsureRead, EnsureOrders, EnsurePlace,
       EnsureBreach, EnsureBreachExit, WebStep, ForceExitRead, ForceExitWrite, ClosePosition,
       ClosePositionFails, Place, unmoved, others, market, account, vars

LEMMA HeldUnsoldStep == TypeOK /\ HeldUnsold /\ [Next]_vars => HeldUnsold'
<1> SUFFICES ASSUME TypeOK, HeldUnsold, [Next]_vars, held' PROVE NoSale'
  BY DEF HeldUnsold
<1>1. held /\ NoSale
  BY HeldFalls DEF HeldUnsold
<1>2. CASE MonitorStep
  BY <1>1, <1>2, HeldMonitor, HeldSeller DEF MonitorStep, Sellers
<1>3. ASSUME NEW p \in Workers, NEW w \in WatchIds, VictimRead(p, w) PROVE NoSale'
  <2>1. Unpriced([At("cancel", w, row[w]) EXCEPT !.price = "estimate"])
    BY <1>1, EstimatesAreUnreal DEF NoSale, Unpriced, At, Idle
  <2> QED
    BY <1>1, <1>3, <2>1 DEF VictimRead, Become, Sellers, NoSale, Unpriced, TypeOK, unmoved, account
<1>4. CASE \E p \in Workers : WorkerStep(p)
  BY <1>1, <1>3, <1>4, HeldSeller DEF WorkerStep, Sellers
<1> QED
  BY <1>1, <1>2, <1>4, HeldStream, HeldReconcile, HeldWeb, HeldEnvironment DEF Next

LEMMA HeldUnsoldInit == Init => HeldUnsold
<1> SUFFICES ASSUME Init PROVE NoSale
  BY DEF HeldUnsold
<1>1. \A w \in WatchIds : row[w].exit = "none"
  <2>1. NoRow.exit = "none" /\ \A o \in {None, FirstOrder} : NewRow(o).exit = "none"
    BY DEF NewRow, NoRow
  <2> QED
    BY <2>1 DEF Init
<1> QED
  BY <1>1, EstimatesAreUnreal DEF Init, NoSale, Unpriced, Idle, NoRow

(* An exit price of a fill, or of a trusted history, is never recorded     *)
(* while the position is still held.                                       *)
THEOREM ExitPricesAreReal == Spec => []ExitPriceIsReal
<1>1. Init => HeldUnsold
  BY HeldUnsoldInit
<1>2. TypeOK /\ HeldUnsold /\ [Next]_vars => HeldUnsold'
  BY HeldUnsoldStep
<1>3. HeldUnsold => ExitPriceIsReal
  BY DEF HeldUnsold, NoSale, ExitPriceIsReal, RealPrices
<1> QED
  BY <1>1, <1>2, <1>3, TypeCorrect, PTL DEF Spec

-----------------------------------------------------------------------------
(***************************************************************************)
(* One holding watch, where no stale write can reopen another: without     *)
(* explorer workers that sell, a reconcile beside the monitor's loop, and  *)
(* a late buy fill.  The monitor sells the watch that holds, if one does;  *)
(* reconcile runs while the monitor does not, and sets out to adopt when   *)
(* none holds; and what the stream and the dashboard write does not hold.  *)
(***************************************************************************)
NoStaleHolding == Workers = {} /\ Faults \cap {"sync", "late_buy_fill"} = {}

AtMostHolding(w) == \A v \in WatchIds : Holding(v) => v = w

MonitorHasHolding ==
  LET m == seller[Monitor] IN
  (m.pc \in SellingPcs \/ (m.pc = "check" /\ m.row.status = "holding")) => AtMostHolding(m.watch)

ReconcileAlone ==
  /\ rec.pc # "idle" => seller[Monitor].pc = "idle"
  /\ rec.pc = "adopt" => \A v \in WatchIds : ~Holding(v)

StreamExits == buyEvents = {} /\ (stream.pc = "write" => stream.row.status # "holding")

HoldInv == OneHolding /\ MonitorHasHolding /\ ReconcileAlone /\ StreamExits

LEMMA HoldInit ==
  ASSUME NoStaleHolding, Init
  PROVE  HoldInv
BY DEF NoStaleHolding, Init, HoldInv, OneHolding, Holding, NoRow, MonitorHasHolding,
       ReconcileAlone, StreamExits, Idle, SellingPcs, Sellers

(* A guarded write makes no watch hold; an unguarded one, at most its own. *)
LEMMA WriteHolds ==
  ASSUME TypeOK, NEW w \in WatchIds, NEW r \in Rows, Update(w, r), NEW v \in WatchIds, Holding(v)'
  PROVE  Holding(v) \/ (v = w /\ r.status = "holding")
BY DEF TypeOK, Update, Holding

LEMMA GuardedWriteHolds ==
  ASSUME TypeOK, NEW w \in WatchIds, NEW r \in Rows, NEW e,
         UpdateIfCurrentStatus(w, r, e), e = "holding" \/ r.status # "holding",
         NEW v \in WatchIds, Holding(v)'
  PROVE  Holding(v)
BY DEF TypeOK, UpdateIfCurrentStatus, Holding

(* Where a thread goes.                                                    *)
LEMMA ThreadFields ==
  /\ Idle.pc = "idle" /\ Done.pc = "done"
  /\ \A pc \in Pcs : [Idle EXCEPT !.pc = pc].pc = pc
  /\ \A pc \in Pcs : \A w, r : At(pc, w, r).pc = pc
  /\ \A l \in Locals, pc \in Pcs :
       [l EXCEPT !.pc = pc].pc = pc /\ \A o : [l EXCEPT !.pc = pc, !.row.stop = o].pc = pc
BY DEF Idle, Done, At, Locals

(* A seller keeps to its watch until it is done with it.                   *)
LEMMA SellerKeepsWatch ==
  ASSUME TypeOK, NEW p \in Sellers, SellerStep(p)
  PROVE  seller'[p].watch = seller[p].watch \/ seller'[p].pc \in {"idle", "done"}
<1> DEFINE m == seller[p]
<1>0. m \in Locals
  BY DEF TypeOK
<1>1. ASSUME NEW l, Become(p, l), l.watch = m.watch \/ l.pc \in {"idle", "done"}
      PROVE  seller'[p].watch = m.watch \/ seller'[p].pc \in {"idle", "done"}
  BY <1>1 DEF TypeOK, Become
<1>2. ASSUME NEW l \in Locals, l.watch = m.watch
      PROVE  GiveUp(p, l).watch = m.watch \/ GiveUp(p, l).pc \in {"idle", "done"}
  <2>1. [l EXCEPT !.pc = "commit"].watch = l.watch
    BY DEF Locals
  <2> QED BY <1>2, <2>1, ThreadFields DEF GiveUp
<1>3. Finished(p).pc \in {"idle", "done"}
  BY ThreadFields DEF Finished
<1>4. CASE CancelStop(p)
  <2> DEFINE l == [m EXCEPT !.pc = "pend", !.row.stop = None]
  <2>1. Become(p, l)
    BY <1>4 DEF CancelStop
  <2>2. l.watch = m.watch
    BY <1>0 DEF Locals
  <2> QED BY <1>1, <2>1, <2>2
<1>5. CASE PersistPending(p)
  <2> DEFINE l == [m EXCEPT !.pc = "submit", !.row = MarkExitPending(m.row)]
  <2>1. Become(p, l)
    BY <1>5 DEF PersistPending
  <2>2. l.watch = m.watch
    BY <1>0 DEF Locals
  <2> QED BY <1>1, <2>1, <2>2
<1>6. CASE SubmitSell(p)
  <2> DEFINE l == [m EXCEPT !.pc = "persist", !.row.sell = open'.id]
  <2>1. Become(p, l)
    BY <1>6 DEF SubmitSell
  <2>2. l.watch = m.watch
    BY <1>0 DEF Locals
  <2> QED BY <1>1, <2>1, <2>2
<1>7. CASE NothingToSell(p)
  <2> DEFINE l == [m EXCEPT !.pc = "commit"]
  <2>1. Become(p, l)
    BY <1>7 DEF NothingToSell
  <2>2. l.watch = m.watch
    BY <1>0 DEF Locals
  <2> QED BY <1>1, <2>1, <2>2
<1>8. CASE SubmitFails(p)
  <2>1. [m EXCEPT !.pc = "clear"].watch = m.watch
    BY <1>0 DEF Locals
  <2>2. Become(p, [m EXCEPT !.pc = "clear"]) \/ Become(p, GiveUp(p, m))
    BY <1>8 DEF SubmitFails
  <2> QED BY <1>0, <1>1, <1>2, <2>1, <2>2
<1>9. CASE ClearPending(p)
  <2>1. [m EXCEPT !.row = ClearExitPending(m.row)] \in Locals
    BY <1>0, RowTypes, LocalUpdates DEF Locals
  <2>2. [m EXCEPT !.row = ClearExitPending(m.row)].watch = m.watch
    BY <1>0 DEF Locals
  <2> QED BY <1>1, <1>2, <1>9, <2>1, <2>2 DEF ClearPending
<1>10. CASE PersistSellId(p)
  <2> DEFINE l == [m EXCEPT !.pc = "wait"]
  <2>1. Become(p, l)
    BY <1>10 DEF PersistSellId
  <2>2. l.watch = m.watch
    BY <1>0 DEF Locals
  <2> QED BY <1>1, <2>1, <2>2
<1>11. CASE SellConfirmed(p)
  <2> DEFINE l == [m EXCEPT !.pc = "commit", !.price = "fill", !.row = ClearExitPending(m.row)]
  <2>1. Become(p, l)
    BY <1>11 DEF SellConfirmed
  <2>2. l.watch = m.watch
    BY <1>0 DEF Locals
  <2> QED BY <1>1, <2>1, <2>2
<1>12. CASE SellUnconfirmed(p)
  BY <1>0, <1>1, <1>2, <1>12 DEF SellUnconfirmed
<1>13. CASE CommitExit(p)
  BY <1>1, <1>3, <1>13 DEF CommitExit
<1> QED BY <1>4, <1>5, <1>6, <1>7, <1>8, <1>9, <1>10, <1>11, <1>12, <1>13 DEF SellerStep

(* The monitor.                                                            *)
LEMMA MonitorHolds ==
  ASSUME RowInv, HoldInv, MonitorStep, NoStaleHolding
  PROVE  HoldInv'
<1> DEFINE m == seller[Monitor]
<1>0. /\ Monitor \in Sellers /\ m \in Locals /\ SellerOK(m) /\ TypeOK /\ CopyOK(m) /\ Coherent(m.row)
      /\ m.row \in Rows /\ seller \in [Sellers -> Locals] /\ "sync" \notin Faults
  BY DEF RowInv, TypeOK, CopiesOK, CopyOK, Sellers, Locals, NoStaleHolding
<1>1. /\ UNCHANGED <<stream, rec, buyEvents>>
      /\ rec.pc = "idle"
  <2>1. UNCHANGED <<stream, rec, buyEvents>>
    BY DEF MonitorStep, SellerStep, MonitorRead, MonitorKeep, MonitorExit, TransitionToCoolingOff,
           SealWatch, StillCoolingOff, CancelStop, PersistPending, SubmitSell, NothingToSell,
           SubmitFails, ClearPending, PersistSellId, SellConfirmed, SellUnconfirmed, CommitExit, unmoved
  <2>2. rec.pc = "idle"
    <3>1. CASE \E w \in WatchIds : MonitorRead(w)
      BY <1>0, <3>1 DEF MonitorRead, Beside
    <3>2. CASE ~\E w \in WatchIds : MonitorRead(w)
      <4>1. m.pc # "idle"
        BY <3>2 DEF MonitorStep, SellerStep, MonitorKeep, MonitorExit, TransitionToCoolingOff,
           SealWatch, StillCoolingOff, CancelStop, PersistPending, SubmitSell, NothingToSell,
           SubmitFails, ClearPending, PersistSellId, SellConfirmed, SellUnconfirmed, CommitExit
      <4> QED BY <4>1 DEF HoldInv, ReconcileAlone
    <3> QED BY <3>1, <3>2
  <2> QED BY <2>1, <2>2
<1>2. ReconcileAlone' /\ StreamExits'
  BY <1>1 DEF HoldInv, ReconcileAlone, StreamExits
<1>3. ASSUME NEW w \in WatchIds, MonitorRead(w) PROVE OneHolding' /\ MonitorHasHolding'
  <2>1. seller'[Monitor] = At("check", w, row[w]) /\ row' = row
    BY <1>0, <1>3 DEF MonitorRead, Become
  <2>2. At("check", w, row[w]).row = row[w] /\ At("check", w, row[w]).watch = w
        /\ At("check", w, row[w]).pc = "check"
    BY DEF At, Idle
  <2> QED BY <2>1, <2>2 DEF HoldInv, OneHolding, MonitorHasHolding, AtMostHolding, Holding, SellingPcs
<1>4. ASSUME NEW w \in WatchIds,
             \/ MonitorKeep(w) \/ TransitionToCoolingOff(w) \/ SealWatch(w) \/ StillCoolingOff(w)
      PROVE  OneHolding' /\ MonitorHasHolding'
  <2>1. seller'[Monitor].pc = "idle"
    BY <1>0, <1>4 DEF MonitorKeep, TransitionToCoolingOff, SealWatch, StillCoolingOff, Become, Idle
  <2>2. ASSUME NEW v \in WatchIds, Holding(v)' PROVE Holding(v)
    <3>1. CASE row' = row
      BY <2>2, <3>1 DEF Holding
    <3>2. CASE MonitorKeep(w) /\ row' # row
      <4>1. UpdateIfCurrentStatus(w, m.row, "holding")
        BY <3>2 DEF MonitorKeep
      <4> QED BY <1>0, <2>2, <4>1, GuardedWriteHolds
    <3>3. CASE TransitionToCoolingOff(w)
      <4>1. /\ UpdateIfCurrentStatus(w, StartCoolingOff(m.row), "exited")
            /\ StartCoolingOff(m.row) \in Rows /\ StartCoolingOff(m.row).status = "cooling_off"
        BY <1>0, <3>3, RowTypes, CoherentOps DEF TransitionToCoolingOff
      <4> QED BY <1>0, <2>2, <4>1, GuardedWriteHolds
    <3>4. CASE SealWatch(w)
      <4>1. /\ UpdateIfCurrentStatus(w, Seal(m.row), "cooling_off")
            /\ Seal(m.row) \in Rows /\ Seal(m.row).status = "sealed"
        BY <1>0, <3>4, RowTypes, CoherentOps DEF SealWatch
      <4> QED BY <1>0, <2>2, <4>1, GuardedWriteHolds
    <3> QED BY <1>4, <3>1, <3>2, <3>3, <3>4 DEF StillCoolingOff
  <2> QED BY <2>1, <2>2 DEF HoldInv, OneHolding, MonitorHasHolding, SellingPcs
<1>5. ASSUME NEW w \in WatchIds, MonitorExit(w) PROVE OneHolding' /\ MonitorHasHolding'
  <2>1. /\ m.pc = "check" /\ m.row.status = "holding" /\ row' = row
        /\ seller'[Monitor].watch = m.watch
    BY <1>0, <1>5 DEF MonitorExit, Become, Locals
  <2>2. AtMostHolding(m.watch)
    BY <2>1 DEF HoldInv, MonitorHasHolding
  <2> QED BY <2>1, <2>2 DEF HoldInv, OneHolding, MonitorHasHolding, AtMostHolding, Holding
<1>6. CASE SellerStep(Monitor)
  <2>1. m.pc \in SellingPcs /\ m.watch \in WatchIds /\ AtMostHolding(m.watch)
    BY <1>0, <1>6 DEF SellerStep, CancelStop, PersistPending, SubmitSell, NothingToSell,
       SubmitFails, ClearPending, PersistSellId, SellConfirmed, SellUnconfirmed, CommitExit,
       SellingPcs, HoldInv, MonitorHasHolding, SellerOK
  <2>2. seller'[Monitor].watch = m.watch \/ seller'[Monitor].pc \in {"idle", "done"}
    BY <1>0, <1>6, SellerKeepsWatch
  <2>3. ASSUME NEW v \in WatchIds, Holding(v)' PROVE v = m.watch
    <3>1. \/ row' = row
          \/ \E r \in Rows : Update(m.watch, r)
          \/ \E r \in Rows : UpdateIfCurrentStatus(m.watch, r, "holding")
      BY <1>0, <1>6, RowTypes DEF SellerStep, CancelStop, PersistPending, SubmitSell, NothingToSell,
         SubmitFails, ClearPending, PersistSellId, SellConfirmed, SellUnconfirmed, CommitExit,
         unmoved, Locals
    <3>2. CASE row' = row
      BY <2>1, <2>3, <3>2 DEF AtMostHolding, Holding
    <3>3. ASSUME NEW r \in Rows, Update(m.watch, r) PROVE v = m.watch
      BY <1>0, <2>1, <2>3, <3>3, WriteHolds DEF AtMostHolding
    <3>4. ASSUME NEW r \in Rows, UpdateIfCurrentStatus(m.watch, r, "holding") PROVE v = m.watch
      BY <1>0, <2>1, <2>3, <3>4, GuardedWriteHolds DEF AtMostHolding
    <3> QED BY <3>1, <3>2, <3>3, <3>4
  <2>4. OneHolding' /\ MonitorHasHolding'
    BY <2>2, <2>3 DEF OneHolding, MonitorHasHolding, AtMostHolding, SellingPcs
  <2> QED BY <1>2, <2>4 DEF HoldInv
<1> QED BY <1>2, <1>3, <1>4, <1>5, <1>6 DEF MonitorStep, HoldInv

(* A step that leaves the monitor alone and makes no watch hold.           *)
LEMMA HoldsOn ==
  ASSUME HoldInv, UNCHANGED seller, \A v \in WatchIds : Holding(v)' => Holding(v),
         ReconcileAlone', StreamExits'
  PROVE  HoldInv'
BY DEF HoldInv, OneHolding, MonitorHasHolding, AtMostHolding

LEMMA StreamHolds ==
  ASSUME RowInv, HoldInv, StreamStep
  PROVE  HoldInv'
<1>1. UNCHANGED <<seller, rec>> /\ TypeOK /\ RowsCoherent
  BY DEF RowInv, StreamStep, StreamSellFill, StreamBuyFill, StreamWrite
<1>2. ~\E w \in WatchIds : StreamBuyFill(w)
  BY DEF HoldInv, StreamExits, StreamBuyFill
<1>3. ASSUME NEW o \in OrderIds, StreamSellFill(o) PROVE HoldInv'
  <2>1. UNCHANGED <<row, buyEvents>> /\ stream.pc = "idle"
    BY <1>3 DEF StreamSellFill, streamIdle
  <2>2. \/ stream' = stream
        \/ \E w \in WatchIds, r \in Rows : r.status # "holding" /\ stream' = At("write", w, r)
    <3>1. ASSUME NEW w \in WatchIds
          PROVE  /\ ClearExitPending(RecordExit(row[w], "fill")) \in Rows
                 /\ ClearExitPending(RecordExit(row[w], "fill")).status = "exited"
      <4>1. row[w] \in Rows
        BY <1>1 DEF TypeOK
      <4>2. RecordExit(row[w], "fill") \in Rows /\ RecordExit(row[w], "fill").status = "exited"
        BY <4>1, RowTypes DEF ExitPrices, RecordExit, Rows
      <4> QED BY <4>2, RowTypes DEF ClearExitPending, Rows
    <3>2. ASSUME NEW w \in WatchIds, row[w].exit # "none"
          PROVE  /\ ClearExitPending([row[w] EXCEPT !.exit = "fill"]) \in Rows
                 /\ ClearExitPending([row[w] EXCEPT !.exit = "fill"]).status # "holding"
      <4>1. row[w] \in Rows /\ row[w].status # "holding"
        BY <1>1, <3>2 DEF TypeOK, RowsCoherent, Coherent
      <4> QED BY <4>1 DEF Rows, ClearExitPending, ExitPrices, Statuses
    <3> QED BY <1>3, <3>1, <3>2 DEF StreamSellFill
  <2>3. StreamExits'
    BY <2>1, <2>2 DEF HoldInv, StreamExits, At, Idle
  <2> QED BY <1>1, <2>1, <2>3, HoldsOn DEF HoldInv, ReconcileAlone, Holding
<1>4. CASE StreamWrite
  <2>1. /\ stream.pc = "write" /\ Update(stream.watch, stream.row) /\ stream' = Idle
        /\ stream.row \in Rows /\ stream.watch \in WatchIds /\ stream.row.status # "holding"
        /\ buyEvents' = buyEvents
    BY <1>4 DEF StreamWrite, RowInv, TypeOK, CopiesOK, StreamOK, Locals, HoldInv, StreamExits
  <2>2. \A v \in WatchIds : Holding(v)' => Holding(v)
    BY <1>1, <2>1, WriteHolds
  <2> QED BY <1>1, <2>1, <2>2, HoldsOn DEF HoldInv, ReconcileAlone, StreamExits, Idle
<1> QED BY <1>2, <1>3, <1>4 DEF StreamStep

LEMMA WebHolds ==
  ASSUME RowInv, HoldInv, WebStep
  PROVE  HoldInv'
<1>1. UNCHANGED <<seller, rec, stream, buyEvents>> /\ TypeOK
  BY DEF RowInv, WebStep, ForceExitRead, ForceExitWrite, market
<1>2. ASSUME NEW v \in WatchIds, Holding(v)' PROVE Holding(v)
  <2>1. CASE row' = row
    BY <1>2, <2>1 DEF Holding
  <2>2. CASE ForceExitWrite
    <3>1. Update(web.watch, web.row) /\ web.watch \in WatchIds /\ web.row \in Rows /\ web.row.status = "exited"
      BY <2>2 DEF ForceExitWrite, RowInv, TypeOK, CopiesOK, WebOK, Locals
    <3> QED BY <1>1, <1>2, <3>1, WriteHolds
  <2> QED BY <2>1, <2>2 DEF WebStep, ForceExitRead
<1> QED BY <1>1, <1>2, HoldsOn DEF HoldInv, ReconcileAlone, StreamExits

(* Reconcile adopts when nothing holds, and its other writes are guarded.  *)
LEMMA ReconcileHolds ==
  ASSUME RowInv, HoldInv, ReconcileStep, NoStaleHolding
  PROVE  HoldInv'
<1>1. UNCHANGED <<seller, stream, buyEvents>> /\ TypeOK
  BY DEF RowInv, ReconcileStep, ReconcileStart, ReconcileRead, ReconcileSync, ReconcileVerify,
         ReconcileForceExit, ReconcileAdopt, EnsureStart, EnsureRead, EnsureOrders, EnsurePlace,
         EnsureBreach, EnsureBreachExit, others
<1>2. seller[Monitor].pc = "idle"
  <2>1. CASE rec.pc = "idle"
    BY <2>1 DEF ReconcileStep, ReconcileStart, ReconcileRead, ReconcileSync, ReconcileVerify,
         ReconcileForceExit, ReconcileAdopt, EnsureStart, EnsureRead, EnsureOrders, EnsurePlace,
         EnsureBreach, EnsureBreachExit, MayReconcile, Beside, NoStaleHolding
  <2> QED BY <2>1 DEF HoldInv, ReconcileAlone
<1>3. StreamExits' /\ MonitorHasHolding'
  BY <1>1, <1>2 DEF HoldInv, StreamExits, MonitorHasHolding, SellingPcs
<1>4. CASE ReconcileAdopt
  <2>1. rec.pc = "adopt" /\ rec'.pc = "idle" /\ \A v \in WatchIds : ~Holding(v)
    BY <1>4 DEF ReconcileAdopt, Idle, HoldInv, ReconcileAlone
  <2>2. OneHolding'
    <3>1. CASE row' = row
      BY <2>1, <3>1 DEF OneHolding, Holding
    <3>2. CASE \E w \in WatchIds : Update(w, NewRow(None))
      BY <1>1, <2>1, <3>2, RowTypes, WriteHolds DEF OneHolding
    <3> QED BY <1>4, <3>1, <3>2 DEF ReconcileAdopt, Unused
  <2> QED BY <1>3, <2>1, <2>2 DEF HoldInv, ReconcileAlone
<1>5. CASE ReconcileRead
  <2>1. row' = row
    BY <1>5 DEF ReconcileRead
  <2>2. rec'.pc = "adopt" => \A v \in WatchIds : ~Holding(v)
    BY <1>5, ThreadFields DEF ReconcileRead, Pcs
  <2> QED BY <1>1, <1>2, <1>3, <2>1, <2>2 DEF HoldInv, ReconcileAlone, OneHolding, Holding
<1>6. CASE ~ReconcileAdopt /\ ~ReconcileRead
  <2>1. rec'.pc # "adopt"
    <3>1. \/ rec' = Idle
          \/ \E pc \in {"listed", "missed", "holdings"} : rec' = [Idle EXCEPT !.pc = pc]
          \/ \E w \in WatchIds : rec' = At("orders", w, row[w])
          \/ \E pc \in {"force", "breach", "place", "breached"} : rec' = [rec EXCEPT !.pc = pc]
          \/ \E o : rec' = [rec EXCEPT !.pc = "sync", !.row.stop = o]
      BY <1>6 DEF ReconcileStep, ReconcileStart, ReconcileSync, ReconcileVerify,
         ReconcileForceExit, EnsureStart, EnsureRead, EnsureOrders, EnsurePlace,
         EnsureBreach, EnsureBreachExit
    <3>2. rec \in Locals
      BY DEF RowInv, TypeOK
    <3>3. CASE rec' = Idle
      BY <3>3, ThreadFields
    <3>4. ASSUME NEW pc \in Pcs \ {"adopt"},
                 \/ rec' = [Idle EXCEPT !.pc = pc] \/ rec' = [rec EXCEPT !.pc = pc]
                 \/ \E w \in WatchIds : rec' = At(pc, w, row[w])
                 \/ \E o : rec' = [rec EXCEPT !.pc = pc, !.row.stop = o]
          PROVE  rec'.pc # "adopt"
      <4>0. CASE rec' = [Idle EXCEPT !.pc = pc]
        BY <4>0, ThreadFields
      <4>1. ASSUME NEW w \in WatchIds, rec' = At(pc, w, row[w]) PROVE rec'.pc = pc
        BY <4>1, ThreadFields
      <4>2. CASE rec' = [rec EXCEPT !.pc = pc]
        BY <3>2, <4>2, ThreadFields
      <4>3. ASSUME NEW o, rec' = [rec EXCEPT !.pc = pc, !.row.stop = o] PROVE rec'.pc = pc
        BY <3>2, <4>3 DEF Locals
      <4> QED BY <3>4, <4>0, <4>1, <4>2, <4>3
    <3>5. {"listed", "missed", "holdings", "orders", "force", "breach", "place", "breached", "sync"}
            \subseteq Pcs \ {"adopt"}
      BY DEF Pcs
    <3> QED BY <3>1, <3>3, <3>4, <3>5
  <2>2. \/ row' = row
        \/ \E r \in Rows : rec.watch \in WatchIds /\ UpdateIfCurrentStatus(rec.watch, r, "holding")
    <3>1. rec.row \in Rows /\ \A x \in ExitPrices : RecordExit(rec.row, x) \in Rows
      BY RowTypes DEF RowInv, TypeOK, Locals
    <3> QED BY <1>6, <3>1 DEF ReconcileStep, ReconcileStart, ReconcileSync, ReconcileVerify,
         ReconcileForceExit, EnsureStart, EnsureRead, EnsureOrders, EnsurePlace,
         EnsureBreach, EnsureBreachExit, RowInv, CopiesOK, RecOK, RepairPcs, ExitPrices
  <2>3. ASSUME NEW v \in WatchIds, Holding(v)' PROVE Holding(v)
    BY <1>1, <2>2, <2>3, GuardedWriteHolds DEF Holding
  <2> QED BY <1>1, <1>2, <1>3, <2>1, <2>3 DEF HoldInv, ReconcileAlone, OneHolding
<1> QED BY <1>4, <1>5, <1>6

LEMMA EnvironmentHolds ==
  ASSUME RowInv, HoldInv, Environment \/ UNCHANGED vars
  PROVE  HoldInv'
<1>1. CASE Crash
  <2>1. /\ row' = row /\ buyEvents' = {} /\ seller'[Monitor] = Idle /\ stream' = Idle /\ rec' = Idle
    BY <1>1 DEF Crash, Sellers
  <2> QED BY <2>1 DEF HoldInv, OneHolding, Holding, MonitorHasHolding, ReconcileAlone, StreamExits,
        Idle, SellingPcs
<1>2. CASE UNCHANGED <<row, buyEvents, seller, stream, rec>>
  BY <1>2, HoldsOn DEF HoldInv, Holding, ReconcileAlone, StreamExits
<1> QED BY <1>1, <1>2 DEF Environment, FillOrder, OrderDies, LoseEvent, Liquidate, SignalFires,
        account, market, vars

LEMMA HoldStep ==
  ASSUME RowInv, HoldInv, [Next]_vars, NoStaleHolding
  PROVE  HoldInv'
BY MonitorHolds, StreamHolds, WebHolds, ReconcileHolds, EnvironmentHolds DEF Next, NoStaleHolding

(* The account has one position in the symbol and at most one watch tracks *)
(* it: reconcile does not adopt it while a watch holds or its exit is in   *)
(* flight, whatever orders, users, crashes and failing calls do beside,    *)
(* as long as nothing but the monitor's loop sells, reconciles or takes    *)
(* up a late buy fill (live_monitor.py, reconcile.py).                     *)
THEOREM OneWatchHolds ==
  ASSUME Workers = {}, "sync" \notin Faults, "late_buy_fill" \notin Faults
  PROVE  Spec => []OneHolding
<1>0. NoStaleHolding
  BY DEF NoStaleHolding
<1>1. Init => HoldInv
  BY <1>0, HoldInit
<1>2. RowInv /\ HoldInv /\ [Next]_vars => HoldInv'
  BY <1>0, HoldStep
<1>3. HoldInv => OneHolding
  BY DEF HoldInv
<1> QED BY <1>1, <1>2, <1>3, RowInvariant, PTL DEF Spec
=============================================================================
