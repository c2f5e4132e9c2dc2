------------------------------ MODULE WatchRow ------------------------------
(***************************************************************************)
(* One row of the table `watches` and the operations of WatchBuilder on    *)
(* it (trader/models/watch.py).  A row is the whole watch JSON: every      *)
(* writer of the program replaces all of it.  Prices are abstracted to     *)
(* where they come from, because that is what the exit path gets right or  *)
(* wrong: an estimate (bar, quote, entry), the order history, or the fill. *)
(***************************************************************************)
CONSTANTS OrderIds,   \* ids of the sell-side orders of the symbol
          None        \* the JSON null

ASSUME NoneIsNoOrder == None \notin OrderIds
ASSUME SomeOrder == OrderIds # {}

Statuses == {"absent", "holding", "exited", "cooling_off", "sealed"}

(* Where the recorded exit price comes from; "none" is exit = null.        *)
ExitPrices == {"none", "estimate", "history", "fill"}

Rows == [status   : Statuses,
         exit     : ExitPrices,
         sell     : OrderIds \cup {None},     \* alpaca_sell_order_id
         stop     : OrderIds \cup {None},     \* alpaca_stop_order_id
         inFlight : BOOLEAN]                  \* exit_in_flight and its pending reason

NoRow == [status |-> "absent", exit |-> "none", sell |-> None, stop |-> None,
          inFlight |-> FALSE]

NewRow(stop) == [NoRow EXCEPT !.status = "holding", !.stop = stop]

(* get_active_watches: everything inserted and not sealed.                 *)
ActiveStatuses == {"holding", "exited", "cooling_off"}

(* Mutant: the exit is recorded and the status forgotten.                  *)
RecordExitOnly(r, price) == [r EXCEPT !.exit = price]

RecordExit(r, price) == [r EXCEPT !.status = "exited", !.exit = price]

MarkExitPending(r) == [r EXCEPT !.inFlight = TRUE]

ClearExitPending(r) == [r EXCEPT !.inFlight = FALSE]

(* Mutant: a status of the retrospective phase, which the table no longer  *)
(* knows.                                                                  *)
StartRetrospective(r) == [r EXCEPT !.status = "retrospective"]

StartCoolingOff(r) == [r EXCEPT !.status = "cooling_off"]

Seal(r) == [r EXCEPT !.status = "sealed"]

(* A row says the same thing twice, in its status and in its exit: no      *)
(* reader can tell which one to believe when they disagree.                *)
Coherent(r) == r.exit = "none" <=> r.status \in {"absent", "holding"}
=============================================================================
