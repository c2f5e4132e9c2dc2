------------------------------ MODULE LiveExit ------------------------------
(***************************************************************************)
(* How a position that was bought is sold and its watch exited, cooled     *)
(* off and sealed: one symbol on one Alpaca account, held for one active   *)
(* live config.  The threads of the trader share the watches table and     *)
(* the account, and lock neither:                                          *)
(*   - the live exit monitor (LiveExitMonitor.run_cycle),                  *)
(*   - explorer workers that sell a victim to replace it (_exit_victim),   *)
(*   - the Alpaca trade stream (AlpacaTradeStream),                        *)
(*   - reconcile() and ensure_stops(), from the monitor loop or the web    *)
(*     process, and                                                        *)
(*   - the dashboard (force exit, liquidate).                              *)
(* Every action is one read or one write of the shared state: a row read   *)
(* from the table, one call of the broker, one row written back.           *)
(***************************************************************************)
EXTENDS Naturals, WatchRow

CONSTANTS WatchIds,   \* watches of the symbol that may ever exist
          Monitor,    \* the exit monitor's thread
          Workers,    \* explorer workers
          Unprotected, \* watches that no stop price is known for: see EnsureOrders
          Faults,     \* what may go wrong or be done by hand: see AllFaults
          MaxCrashes  \* bound: restarts of the trader process

AllFaults == {"late_buy_fill", "lost_event", "order_dies", "api_error",
              "bulk_miss", "manual_exit", "liquidate", "sync", "old_sell"}

ASSUME NoneIsNoWatch == None \notin WatchIds
ASSUME SomeWatch == WatchIds # {}
ASSUME UnprotectedKnown == Unprotected \subseteq WatchIds
ASSUME FaultsKnown == Faults \subseteq AllFaults
ASSUME ThreadsDistinct == Monitor \notin Workers
ASSUME CrashesBounded == MaxCrashes \in Nat

Sellers == {Monitor} \cup Workers

VARIABLES
  row,        \* the watches table
  held,       \* does the account hold the position
  open,       \* the order that reserves the shares: [id, kind] or NoOrder
  filled,     \* orders that filled while a thread waits for them
  sold,       \* is there a filled sell in the symbol's recent order history
  events,     \* sell fills the stream has not delivered yet
  buyEvents,  \* watches whose buy fill the stream has not delivered yet
  signal,     \* watches whose exit strategy has fired on the bars
  seller,     \* per seller: program counter, watch, builder, exit price
  stream,     \* the same for the trade stream
  rec,        \* the same for reconcile / ensure_stops
  web,        \* the same for the dashboard's force exit
  crashes     \* restarts so far

table   == <<row>>
account == <<held, open, filled, sold>>
market  == <<account, events, buyEvents, signal>>
vars    == <<row, held, open, filled, sold, events, buyEvents, signal,
             seller, stream, rec, web, crashes>>

NoOrder == [id |-> None, kind |-> "none"]

(* A thread between two steps: where it is, and the WatchBuilder it works  *)
(* on, which is a copy of the row it read.                                 *)
Idle == [pc |-> "idle", watch |-> None, row |-> NoRow, price |-> "none"]
Done == [Idle EXCEPT !.pc = "done"]
At(pc, w, r) == [Idle EXCEPT !.pc = pc, !.watch = w, !.row = r]

Threads == {seller[p] : p \in Sellers} \cup {stream, rec, web}

(***************************************************************************)
(* The table: get_active_watches, update_watch and                         *)
(* update_watch_if_current_status.                                         *)
(***************************************************************************)
Active(w)  == row[w].status \in ActiveStatuses
Holding(w) == row[w].status = "holding"

Update(w, r) == row' = [row EXCEPT ![w] = r]

(* Mutant: the WHERE clause loses its status.                              *)
UpdateWhateverStatus(w, r, expected) == row' = [row EXCEPT ![w] = r]

UpdateIfCurrentStatus(w, r, expected) ==
  row' = IF row[w].status = expected THEN [row EXCEPT ![w] = r] ELSE row

(***************************************************************************)
(* The account, as Alpaca behaves towards AlpacaBroker.  An open order     *)
(* reserves all the shares, so at most one is open at a time.              *)
(***************************************************************************)
Referenced(o) ==
  \/ o \in events
  \/ open.id = o
  \/ \E w \in WatchIds : o \in {row[w].sell, row[w].stop}
  \/ \E t \in Threads : o \in {t.row.sell, t.row.stop}

FreshIds == {o \in OrderIds : ~Referenced(o)}
FreshId  == CHOOSE o \in FreshIds : TRUE

Place(kind) ==
  /\ FreshIds # {}
  /\ open' = [id |-> FreshId, kind |-> kind]
  /\ UNCHANGED <<held, filled, sold>>

(* A thread polls the order until it is filled (wait_for_fill).            *)
Awaited(o) ==
  \E p \in Sellers : seller[p].pc \in {"persist", "wait"} /\ seller[p].row.sell = o

(* close_position: the open orders of the symbol are cancelled, then the   *)
(* whole position is sold.                                                 *)
ClosePosition == held /\ Place("sell")

(* close_position raises: shares still reserved, or the API failed; the    *)
(* open order may have been cancelled on the way.                          *)
ClosePositionFails ==
  /\ "api_error" \in Faults
  /\ open' \in {open, NoOrder}
  /\ UNCHANGED <<held, filled, sold>>

FillOrder ==
  /\ open # NoOrder
  /\ held' = FALSE
  /\ open' = NoOrder
  /\ filled' = IF Awaited(open.id) THEN filled \cup {open.id} ELSE filled
  /\ sold' = TRUE
  /\ events' = events \cup {open.id}
  /\ UNCHANGED <<row, buyEvents, signal, seller, stream, rec, web, crashes>>

(* Expired at the close (a DAY stop), rejected, or cancelled by Alpaca.    *)
OrderDies ==
  /\ "order_dies" \in Faults
  /\ open # NoOrder
  /\ open' = NoOrder
  /\ UNCHANGED <<row, held, filled, sold, events, buyEvents, signal,
                 seller, stream, rec, web, crashes>>

(* The websocket is down while the event is sent; it is not sent again.    *)
LoseEvent ==
  /\ "lost_event" \in Faults
  /\ \E o \in events : events' = events \ {o}
  /\ UNCHANGED <<row, account, buyEvents, signal, seller, stream, rec, web, crashes>>

SignalFires(w) ==
  /\ Holding(w)
  /\ w \notin signal
  /\ signal' = signal \cup {w}
  /\ UNCHANGED <<row, account, events, buyEvents, seller, stream, rec, web, crashes>>

(* POST /liquidate: sells on Alpaca and does not touch the watch.          *)
Liquidate ==
  /\ "liquidate" \in Faults
  /\ ClosePosition
  /\ UNCHANGED <<row, events, buyEvents, signal, seller, stream, rec, web, crashes>>

-----------------------------------------------------------------------------
(***************************************************************************)
(* The exit monitor.  A cycle reads the active watches once and handles    *)
(* each with the copy it read; the watches of a cycle do not share rows,   *)
(* so a cycle is modelled watch by watch.                                  *)
(***************************************************************************)
Become(p, local) == seller' = [seller EXCEPT ![p] = local]

unmoved == <<account, events, buyEvents, signal, stream, rec, web, crashes>>

(* _periodic_reconcile runs in the monitor's own loop, after the cycle;    *)
(* the dashboard's sync, and the thread that follows a liquidation, run    *)
(* beside it: both are the fault "sync".  Bound: one of them at a time.    *)
Beside == "sync" \in Faults

MonitorRead(w) ==
  /\ seller[Monitor].pc = "idle"
  /\ rec.pc = "idle" \/ Beside
  /\ Active(w)
  /\ Become(Monitor, At("check", w, row[w]))
  /\ UNCHANGED <<row, unmoved>>

(* _check_holding without an exit: the copy, with new extremes, goes back, *)
(* unless there are no bars yet.                                           *)
MonitorKeep(w) ==
  LET m == seller[Monitor] IN
  /\ m.pc = "check" /\ m.watch = w
  /\ m.row.status = "holding" /\ w \notin signal
  /\ UpdateIfCurrentStatus(w, m.row, "holding") \/ UNCHANGED row
  /\ Become(Monitor, Idle)
  /\ UNCHANGED unmoved

MonitorExit(w) ==
  LET m == seller[Monitor] IN
  /\ m.pc = "check" /\ m.watch = w
  /\ m.row.status = "holding" /\ w \in signal
  /\ Become(Monitor, [m EXCEPT !.pc = "cancel", !.price = "estimate"])
  /\ UNCHANGED <<row, unmoved>>

TransitionToCoolingOff(w) ==
  LET m == seller[Monitor] IN
  /\ m.pc = "check" /\ m.watch = w
  /\ m.row.status = "exited"
  /\ UpdateIfCurrentStatus(w, StartCoolingOff(m.row), "exited")
  /\ Become(Monitor, Idle)
  /\ UNCHANGED unmoved

(* Mutant: a cooling-off period of no time at all.                         *)
NoCoolingOff(w) == TRUE

(* cooling_off_market_hours (24 by default) outlasts every handler that    *)
(* read the watch before it was exited: none of them waits for more than   *)
(* a few minutes.                                                          *)
CoolingOffElapsed(w) ==
  \A t \in {seller[p] : p \in Workers} \cup {stream, rec, web} : t.watch # w

(* Mutant: the write is guarded by the status of the step before.          *)
SealWatchIfExited(w) ==
  LET m == seller[Monitor] IN
  /\ m.pc = "check" /\ m.watch = w
  /\ m.row.status = "cooling_off"
  /\ CoolingOffElapsed(w)
  /\ UpdateIfCurrentStatus(w, Seal(m.row), "exited")
  /\ Become(Monitor, Idle)
  /\ UNCHANGED unmoved

SealWatch(w) ==
  LET m == seller[Monitor] IN
  /\ m.pc = "check" /\ m.watch = w
  /\ m.row.status = "cooling_off"
  /\ CoolingOffElapsed(w)
  /\ UpdateIfCurrentStatus(w, Seal(m.row), "cooling_off")
  /\ Become(Monitor, Idle)
  /\ UNCHANGED unmoved

StillCoolingOff(w) ==
  LET m == seller[Monitor] IN
  /\ m.pc = "check" /\ m.watch = w
  /\ m.row.status = "cooling_off"
  /\ Become(Monitor, Idle)
  /\ UNCHANGED <<row, unmoved>>

(***************************************************************************)
(* Selling, in _check_holding and in _exit_victim.                         *)
(***************************************************************************)
VictimRead(p, w) ==
  /\ p \in Workers
  /\ seller[p].pc = "idle"
  /\ Holding(w)
  /\ Become(p, [At("cancel", w, row[w]) EXCEPT !.price = "estimate"])
  /\ UNCHANGED <<row, unmoved>>

(* cancel_order swallows its errors: the stop may still be open, or have   *)
(* filled.                                                                 *)
CancelStop(p) ==
  LET m == seller[p] IN
  /\ m.pc = "cancel"
  /\ open' \in IF open.id = m.row.stop /\ m.row.stop # None
                 THEN IF "api_error" \in Faults THEN {open, NoOrder} ELSE {NoOrder}
                 ELSE {open}
  /\ Become(p, [m EXCEPT !.pc = "pend", !.row.stop = None])
  /\ UNCHANGED <<row, held, filled, sold, events, buyEvents, signal,
                 stream, rec, web, crashes>>

(* The builder is persisted without looking at the row again.              *)
PersistPending(p) ==
  LET m == seller[p] IN
  /\ m.pc = "pend"
  /\ Update(m.watch, MarkExitPending(m.row))
  /\ Become(p, [m EXCEPT !.pc = "submit", !.row = MarkExitPending(m.row)])
  /\ UNCHANGED unmoved

SubmitSell(p) ==
  LET m == seller[p] IN
  /\ m.pc = "submit"
  /\ ClosePosition
  /\ Become(p, [m EXCEPT !.pc = "persist", !.row.sell = open'.id])
  /\ UNCHANGED <<row, events, buyEvents, signal, stream, rec, web, crashes>>

(* close_position returns None: nothing is held, and the exit is recorded  *)
(* at the estimate.                                                        *)
NothingToSell(p) ==
  LET m == seller[p] IN
  /\ m.pc = "submit"
  /\ ~held
  /\ Become(p, [m EXCEPT !.pc = "commit"])
  /\ UNCHANGED <<row, unmoved>>

(* After a failure the monitor records the exit at the estimate all the    *)
(* same; a worker gives the replacement up.  Bound: a worker stands for    *)
(* one replacement.                                                        *)
Finished(p)  == IF p = Monitor THEN Idle ELSE Done

(* Mutant: the monitor leaves an exit that failed to its next cycle.       *)
LeaveToNextCycle(p, m) == Finished(p)

GiveUp(p, m) == IF p = Monitor THEN [m EXCEPT !.pc = "commit"] ELSE Done

SubmitFails(p) ==
  LET m == seller[p] IN
  /\ m.pc = "submit"
  /\ ClosePositionFails
  /\ Become(p, IF m.row.sell = None THEN [m EXCEPT !.pc = "clear"] ELSE GiveUp(p, m))
  /\ UNCHANGED <<row, events, buyEvents, signal, stream, rec, web, crashes>>

ClearPending(p) ==
  LET m == seller[p] IN
  /\ m.pc = "clear"
  /\ Update(m.watch, ClearExitPending(m.row))
  /\ Become(p, GiveUp(p, [m EXCEPT !.row = ClearExitPending(m.row)]))
  /\ UNCHANGED unmoved

PersistSellId(p) ==
  LET m == seller[p] IN
  /\ m.pc = "persist"
  /\ Update(m.watch, m.row)
  /\ Become(p, [m EXCEPT !.pc = "wait"])
  /\ UNCHANGED unmoved

(* Mutant: the first answer of the poll is taken for the fill.             *)
SellConfirmedAtOnce(p) ==
  LET m == seller[p] IN
  /\ m.pc = "wait"
  /\ Become(p, [m EXCEPT !.pc = "commit", !.price = "fill",
                         !.row = ClearExitPending(m.row)])
  /\ filled' = filled \ {m.row.sell}
  /\ UNCHANGED <<row, held, open, sold, events, buyEvents, signal,
                 stream, rec, web, crashes>>

SellConfirmed(p) ==
  LET m == seller[p] IN
  /\ m.pc = "wait"
  /\ m.row.sell \in filled
  /\ Become(p, [m EXCEPT !.pc = "commit", !.price = "fill",
                         !.row = ClearExitPending(m.row)])
  /\ filled' = filled \ {m.row.sell}
  /\ UNCHANGED <<row, held, open, sold, events, buyEvents, signal,
                 stream, rec, web, crashes>>

(* TimeoutError while the order is open; RuntimeError when it is dead or   *)
(* cannot be looked up.  The id is set, so the pending mark stays.         *)
SellUnconfirmed(p) ==
  LET m == seller[p] IN
  /\ m.pc = "wait"
  /\ m.row.sell \notin filled \/ "api_error" \in Faults
  /\ Become(p, GiveUp(p, m))
  /\ filled' = filled \ {m.row.sell}
  /\ UNCHANGED <<row, held, open, sold, events, buyEvents, signal,
                 stream, rec, web, crashes>>

CommitExit(p) ==
  LET m == seller[p] IN
  /\ m.pc = "commit"
  /\ UpdateIfCurrentStatus(m.watch, RecordExit(m.row, m.price), "holding")
  /\ Become(p, Finished(p))
  /\ UNCHANGED unmoved

SellerStep(p) ==
  \/ CancelStop(p) \/ PersistPending(p)
  \/ SubmitSell(p) \/ NothingToSell(p) \/ SubmitFails(p)
  \/ ClearPending(p) \/ PersistSellId(p)
  \/ SellConfirmed(p) \/ SellUnconfirmed(p) \/ CommitExit(p)

-----------------------------------------------------------------------------
(***************************************************************************)
(* The trade stream.  A handler looks the order up among the active        *)
(* watches, then writes the whole row back.                                *)
(***************************************************************************)
streamIdle == stream.pc = "idle"

(* _handle_sell_fill: a stop of a holding watch, or a sell order of any    *)
(* active watch.  An event that matches no watch is dropped.               *)
StreamSellFill(o) ==
  /\ streamIdle
  /\ o \in events
  /\ events' = events \ {o}
  /\ LET stopOf == {w \in WatchIds : Holding(w) /\ row[w].stop = o}
         sellOf == {w \in WatchIds : Active(w) /\ row[w].sell = o}
     IN \/ \E w \in stopOf :
             stream' = At("write", w, ClearExitPending(RecordExit(row[w], "fill")))
        \/ \E w \in sellOf \ stopOf :
             stream' = At("write", w, ClearExitPending(
                         IF row[w].exit = "none" THEN RecordExit(row[w], "fill")
                                                 ELSE [row[w] EXCEPT !.exit = "fill"]))
        \/ stopOf \cup sellOf = {} /\ UNCHANGED stream
  /\ UNCHANGED <<row, account, buyEvents, signal, seller, rec, web, crashes>>

(* _handle_buy_fill changes the entry price only, but writes all the row.  *)
StreamBuyFill(w) ==
  /\ streamIdle
  /\ w \in buyEvents
  /\ buyEvents' = buyEvents \ {w}
  /\ stream' = IF Active(w) THEN At("write", w, row[w]) ELSE stream
  /\ UNCHANGED <<row, account, events, signal, seller, rec, web, crashes>>

StreamWrite ==
  /\ stream.pc = "write"
  /\ Update(stream.watch, stream.row)
  /\ stream' = Idle
  /\ UNCHANGED <<account, events, buyEvents, signal, seller, rec, web, crashes>>

-----------------------------------------------------------------------------
(***************************************************************************)
(* reconcile(): positions, then watches, then the rule of the symbol.      *)
(***************************************************************************)
others == <<events, buyEvents, signal, seller, stream, web, crashes>>

(* get_positions: does the bulk lookup list the position.                  *)
BulkLookup == IF "bulk_miss" \in Faults THEN {held, FALSE} ELSE {held}

(* Mutant: the reconciliation of the loop gets a thread of its own.        *)
MayReconcileBeside == rec.pc = "idle"

MayReconcile ==
  /\ rec.pc = "idle"
  /\ seller[Monitor].pc = "idle" \/ Beside

ReconcileStart ==
  /\ MayReconcile
  /\ \E listed \in BulkLookup :
       rec' = [Idle EXCEPT !.pc = IF listed THEN "listed" ELSE "missed"]
  /\ UNCHANGED <<row, account, others>>

(* Mutant: a watch that Alpaca no longer lists is left alone.              *)
ReconcileReadWithoutRule3 ==
  /\ rec.pc \in {"listed", "missed"}
  /\ \/ \E w \in WatchIds :
          /\ Holding(w)
          /\ rec' \in IF rec.pc = "listed" THEN {At("sync", w, row[w]), Idle} ELSE {Idle}
     \/ /\ \A w \in WatchIds : ~Holding(w)
        /\ rec' = IF rec.pc = "listed" /\ \A w \in WatchIds : Active(w) => ~row[w].inFlight
                    THEN [Idle EXCEPT !.pc = "adopt"] ELSE Idle
  /\ UNCHANGED <<row, account, others>>

(* Mutant: the exits in flight are looked up among all watches, sealed     *)
(* ones included.                                                          *)
ReconcileReadAllExits ==
  /\ rec.pc \in {"listed", "missed"}
  /\ \/ \E w \in WatchIds :
          /\ Holding(w)
          /\ \/ rec.pc = "listed" /\ rec' \in {At("sync", w, row[w]), Idle}
             \/ /\ rec.pc = "missed"
                /\ rec' = IF row[w].inFlight THEN Idle ELSE At("verify", w, row[w])
     \/ /\ \A w \in WatchIds : ~Holding(w)
        /\ rec' = IF rec.pc = "listed" /\ \A w \in WatchIds : ~row[w].inFlight
                    THEN [Idle EXCEPT !.pc = "adopt"] ELSE Idle
  /\ UNCHANGED <<row, account, others>>

(* Rule 1 (both; entry price or qty differ, or not), rule 3 (watch only),  *)
(* rule 2 (position only).                                                 *)
ReconcileRead ==
  /\ rec.pc \in {"listed", "missed"}
  /\ \/ \E w \in WatchIds :
          /\ Holding(w)
          /\ \/ rec.pc = "listed" /\ rec' \in {At("sync", w, row[w]), Idle}
             \/ /\ rec.pc = "missed"
                /\ rec' = IF row[w].inFlight THEN Idle ELSE At("verify", w, row[w])
     \/ /\ \A w \in WatchIds : ~Holding(w)
        /\ rec' = IF rec.pc = "listed" /\ \A w \in WatchIds : Active(w) => ~row[w].inFlight
                    THEN [Idle EXCEPT !.pc = "adopt"] ELSE Idle
  /\ UNCHANGED <<row, account, others>>

(* Mutant: the synced watch is not persisted.                              *)
ReconcileSyncForgotten ==
  /\ rec.pc = "sync"
  /\ rec' = Idle
  /\ UNCHANGED <<row, account, others>>

ReconcileSync ==
  /\ rec.pc = "sync"
  /\ UpdateIfCurrentStatus(rec.watch, rec.row, "holding")
  /\ rec' = Idle
  /\ UNCHANGED <<account, others>>

(* Mutant: the positions read at the start are taken for the truth.        *)
ReconcileVerifyByHistory ==
  /\ rec.pc = "verify"
  /\ rec' = IF sold THEN [rec EXCEPT !.pc = "force"] ELSE Idle
  /\ UNCHANGED <<row, account, others>>

(* get_position answers None when the position is gone and when the call   *)
(* fails; a filled sell in the history confirms the exit, whichever        *)
(* position it sold.                                                       *)
ReconcileVerify ==
  /\ rec.pc = "verify"
  /\ \/ /\ ~held \/ "api_error" \in Faults
        /\ sold
        /\ rec' = [rec EXCEPT !.pc = "force"]
     \/ /\ held \/ ~sold \/ "api_error" \in Faults
        /\ rec' = Idle
  /\ UNCHANGED <<row, account, others>>

ReconcileForceExit ==
  /\ rec.pc = "force"
  /\ UpdateIfCurrentStatus(rec.watch, RecordExit(rec.row, "history"), "holding")
  /\ rec' = Idle
  /\ UNCHANGED <<account, others>>

Unused == {w \in WatchIds : row[w].status = "absent"}

ReconcileAdopt ==
  /\ rec.pc = "adopt"
  /\ IF Unused = {} THEN UNCHANGED row
     ELSE \E w \in Unused : Update(w, NewRow(None))
  /\ rec' = Idle
  /\ UNCHANGED <<account, others>>

(***************************************************************************)
(* ensure_stops(): positions, watches, open orders, then one of: repair    *)
(* the watch's stop id, close a breached position, place a stop.           *)
(***************************************************************************)
EnsureStart ==
  /\ MayReconcile
  /\ TRUE \in BulkLookup       \* a watch that is not listed is skipped
  /\ rec' = [Idle EXCEPT !.pc = "holdings"]
  /\ UNCHANGED <<row, account, others>>

EnsureRead ==
  /\ rec.pc = "holdings"
  /\ \/ \E w \in WatchIds : Holding(w) /\ rec' = At("orders", w, row[w])
     \/ (\A w \in WatchIds : ~Holding(w)) /\ rec' = Idle
  /\ UNCHANGED <<row, account, others>>

(* Mutant: a watch that names a stop is taken to have it.                  *)
EnsureOrdersTrustsWatch ==
  /\ rec.pc = "orders"
  /\ \/ rec.watch \in Unprotected /\ rec' = Idle
     \/ rec.row.stop # None /\ rec' = Idle
     \/ open.kind = "sell" /\ rec' = Idle
     \/ /\ rec.watch \notin Unprotected
        /\ rec.row.stop = None /\ open = NoOrder
        /\ rec' \in {[rec EXCEPT !.pc = "breach"], [rec EXCEPT !.pc = "place"]}
  /\ UNCHANGED <<row, account, others>>

(* The stop price is the one persisted when the position was bought with a *)
(* guard, or the guard's share of the entry price.  With guard_stop_pct = 0*)
(* (the default) the second does not exist, and a watch that has not the   *)
(* first, as no adopted watch has, is reported as UNPROTECTED and skipped. *)
EnsureOrders ==
  /\ rec.pc = "orders"
  /\ \/ rec.watch \in Unprotected /\ rec' = Idle
     \/ /\ rec.watch \notin Unprotected /\ open.kind = "stop"
        /\ rec' = IF rec.row.stop # open.id
                    THEN [rec EXCEPT !.pc = "sync", !.row.stop = open.id] ELSE Idle
     \/ open.kind = "sell" /\ rec' = Idle
     \/ /\ rec.watch \notin Unprotected /\ open = NoOrder
        /\ rec' \in {[rec EXCEPT !.pc = "breach"], [rec EXCEPT !.pc = "place"]}
  /\ UNCHANGED <<row, account, others>>

EnsurePlace ==
  /\ rec.pc = "place"
  /\ \/ /\ held /\ open = NoOrder
        /\ Place("stop")
        /\ rec' = [rec EXCEPT !.pc = "sync", !.row.stop = open'.id]
     \/ /\ ~held \/ open # NoOrder \/ "api_error" \in Faults
        /\ rec' = Idle
        /\ UNCHANGED account
  /\ UNCHANGED <<row, others>>

(* The id of this sell is not stored on the watch.                         *)
EnsureBreach ==
  /\ rec.pc = "breach"
  /\ \/ ClosePosition /\ rec' = [rec EXCEPT !.pc = "breached"]
     \/ ~held /\ rec' = Idle /\ UNCHANGED account
     \/ ClosePositionFails /\ rec' = Idle
  /\ UNCHANGED <<row, others>>

EnsureBreachExit ==
  /\ rec.pc = "breached"
  /\ UpdateIfCurrentStatus(rec.watch, RecordExit(rec.row, "estimate"), "holding")
  /\ rec' = Idle
  /\ UNCHANGED <<account, others>>

-----------------------------------------------------------------------------
(***************************************************************************)
(* The dashboard's force exit reads the watch, fetches a quote and writes. *)
(***************************************************************************)
ForceExitRead(w) ==
  /\ "manual_exit" \in Faults
  /\ web.pc = "idle"
  /\ Holding(w)
  /\ web' = At("write", w, RecordExit(row[w], "estimate"))
  /\ UNCHANGED <<row, market, seller, stream, rec, crashes>>

ForceExitWrite ==
  /\ web.pc = "write"
  /\ Update(web.watch, web.row)
  /\ web' = Idle
  /\ UNCHANGED <<market, seller, stream, rec, crashes>>

(* The process stops between any two steps; what the stream would have     *)
(* delivered meanwhile is lost.                                            *)
Crash ==
  /\ crashes < MaxCrashes
  /\ crashes' = crashes + 1
  /\ seller' = [p \in Sellers |-> Idle]
  /\ stream' = Idle /\ rec' = Idle /\ web' = Idle
  /\ events' = {} /\ buyEvents' = {} /\ filled' = {}
  /\ UNCHANGED <<row, held, open, sold, signal>>

-----------------------------------------------------------------------------
(* The first watch was bought and, unless there was no guard or set_stop   *)
(* failed, has its stop.                                                   *)
FirstWatch == CHOOSE w \in WatchIds : TRUE
FirstOrder == CHOOSE o \in OrderIds : TRUE

Init ==
  /\ row \in {[w \in WatchIds |-> IF w = FirstWatch THEN NewRow(o) ELSE NoRow] :
                o \in {None} \cup (IF FirstWatch \in Unprotected THEN {} ELSE {FirstOrder})}
  /\ open = IF row[FirstWatch].stop = None THEN NoOrder
            ELSE [id |-> FirstOrder, kind |-> "stop"]
  /\ held = TRUE
  /\ filled = {}
  /\ sold \in IF "old_sell" \in Faults THEN BOOLEAN ELSE {FALSE}
  /\ events = {}
  /\ buyEvents = IF "late_buy_fill" \in Faults THEN {FirstWatch} ELSE {}
  /\ signal = {}
  /\ seller = [p \in Sellers |-> Idle]
  /\ stream = Idle /\ rec = Idle /\ web = Idle
  /\ crashes = 0

Environment ==
  \/ FillOrder \/ OrderDies \/ LoseEvent \/ Liquidate \/ Crash
  \/ \E w \in WatchIds : SignalFires(w)

MonitorStep ==
  \/ \E w \in WatchIds :
       \/ MonitorRead(w) \/ MonitorKeep(w) \/ MonitorExit(w)
       \/ TransitionToCoolingOff(w) \/ SealWatch(w) \/ StillCoolingOff(w)
  \/ SellerStep(Monitor)

WorkerStep(p) ==
  \/ \E w \in WatchIds : VictimRead(p, w)
  \/ SellerStep(p)

StreamStep ==
  \/ \E o \in OrderIds : StreamSellFill(o)
  \/ \E w \in WatchIds : StreamBuyFill(w)
  \/ StreamWrite

ReconcileStep ==
  \/ ReconcileStart \/ ReconcileRead \/ ReconcileSync \/ ReconcileVerify
  \/ ReconcileForceExit \/ ReconcileAdopt
  \/ EnsureStart \/ EnsureRead \/ EnsureOrders \/ EnsurePlace
  \/ EnsureBreach \/ EnsureBreachExit

WebStep ==
  \/ \E w \in WatchIds : ForceExitRead(w)
  \/ ForceExitWrite

Next ==
  \/ Environment
  \/ MonitorStep
  \/ \E p \in Workers : WorkerStep(p)
  \/ StreamStep
  \/ ReconcileStep
  \/ WebStep

Spec == Init /\ [][Next]_vars

(* live_monitoring_loop runs a cycle every minute and reconcile and        *)
(* ensure_stops every quarter of an hour; a watch that stays active is     *)
(* read again and again, and cooling off ends.  Nothing is assumed of the  *)
(* market, of Alpaca's events, or of the users.                            *)
Fairness ==
  /\ \A w \in WatchIds : SF_vars(MonitorRead(w)) /\ SF_vars(SealWatch(w))
  /\ WF_vars(MonitorStep)
  /\ \A p \in Workers : WF_vars(SellerStep(p))
  /\ WF_vars(StreamStep)
  /\ SF_vars(ReconcileStart) /\ SF_vars(EnsureStart)
  /\ WF_vars(ReconcileStep)
  /\ WF_vars(ForceExitWrite)

FairSpec == Spec /\ Fairness

-----------------------------------------------------------------------------
(***************************************************************************)
(* What the exit path promises.                                            *)
(***************************************************************************)
Pcs == {"idle", "check", "cancel", "pend", "submit", "clear", "persist", "wait",
        "commit", "done", "write", "listed", "missed", "sync", "verify", "force",
        "adopt", "holdings", "orders", "place", "breach", "breached"}

Locals == [pc : Pcs, watch : WatchIds \cup {None}, row : Rows, price : ExitPrices]

OrderKinds == {"stop", "sell"}
OpenOrders == [id : OrderIds, kind : OrderKinds] \cup {NoOrder}

(* Every variable, and every copy a thread holds, has its type.            *)
TypeOK ==
  /\ row \in [WatchIds -> Rows]
  /\ held \in BOOLEAN
  /\ open \in OpenOrders
  /\ filled \subseteq OrderIds
  /\ sold \in BOOLEAN
  /\ events \subseteq OrderIds
  /\ buyEvents \subseteq WatchIds
  /\ signal \subseteq WatchIds
  /\ seller \in [Sellers -> Locals]
  /\ stream \in Locals /\ rec \in Locals /\ web \in Locals
  /\ crashes \in 0 .. MaxCrashes

(* No interleaving of whole-row writes leaves a watch that is exited       *)
(* without an exit, or holding with one.                                   *)
RowsCoherent == \A w \in WatchIds : Coherent(row[w])

(* An exit price taken from a fill, by a thread that waited for it or by   *)
(* the stream, is the price of this position's sale: it is gone from the   *)
(* account.  So is one taken from the order history, unless an earlier     *)
(* position's sell is in it and get_position can fail at that moment.      *)
HistoryIsTrusted == ~({"api_error", "old_sell"} \subseteq Faults)

ExitPriceIsReal ==
  \A w \in WatchIds :
    row[w].exit = "fill" \/ (row[w].exit = "history" /\ HistoryIsTrusted) => ~held

(* The writes that update_watch makes without comparing the status.        *)
UnguardedWrite(w) ==
  \/ \E p \in Sellers : /\ seller[p].pc \in {"pend", "clear", "persist"}
                        /\ seller[p].watch = w
                        /\ seller'[p] # seller[p]
  \/ stream.pc = "write" /\ stream.watch = w /\ stream' # stream

(* An exited watch is reopened, and its exit forgotten, by the unguarded   *)
(* writes of a seller or of the stream alone; the monitor's other writes,  *)
(* reconcile, ensure_stops and the dashboard never do it.                  *)
OnlyUnguardedWritesReopen ==
  [][\A w \in WatchIds :
       row[w].status \in {"exited", "cooling_off", "sealed"} /\ row'[w].status = "holding"
         => UnguardedWrite(w)]_vars

(* Nothing a thread still has in its hands touches a watch once sealed:    *)
(* the training data written from it stays true.                           *)
SealedIsFinal ==
  [][\A w \in WatchIds : row[w].status = "sealed" => row'[w] = row[w]]_vars

(* An exit is final: exited and cooling-off watches do not hold again, as  *)
(* the lifecycle at the head of models/watch.py has it.                    *)
ExitIsFinal ==
  [][\A w \in WatchIds :
       row[w].status \in {"exited", "cooling_off"} => row'[w].status # "holding"]_vars

(* The account has one position in the symbol and at most one watch tracks *)
(* it: no adoption while a watch, or the exit of one, is in flight.  (Not  *)
(* so once a stale write can reopen a watch.)                              *)
OneHolding ==
  \A v, w \in WatchIds : Holding(v) /\ Holding(w) => v = w

(* Alpaca is the source of truth: a watch does not go on holding what the  *)
(* account has sold, even when the stream missed the fill.                 *)
SoldIsExited ==
  \A w \in WatchIds : Holding(w) /\ ~held ~> ~Holding(w)

(* An exit signal ends in an exit, whatever happens to the sell.           *)
SignalledIsExited ==
  \A w \in WatchIds : Holding(w) /\ w \in signal ~> ~Holding(w)

(* A held position that a watch with a stop price tracks does not stay     *)
(* without a working order: the missing or expired stop is placed again, or*)
(* the position is closed; and a working stop comes to be known to a watch,*)
(* so that its fill is not dropped as unknown, unless the watch that tracks*)
(* the position has no stop price.                                         *)
Protected == WatchIds \ Unprotected

HeldIsProtected ==
  /\ (held /\ \E w \in Protected : Holding(w))
       ~> (open # NoOrder \/ ~held \/ \A w \in Protected : ~Holding(w))
  /\ open.kind = "stop"
       ~> \/ open.kind # "stop" \/ \E w \in WatchIds : row[w].stop = open.id
          \/ \E w \in Unprotected : Holding(w)

(* A position the table lost track of comes back as an adopted watch.      *)
HeldIsAdopted ==
  held ~> (~held \/ (\E w \in WatchIds : Holding(w)) \/ Unused = {})
=============================================================================
