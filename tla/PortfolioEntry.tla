--------------------------- MODULE PortfolioEntry ---------------------------
(***************************************************************************)
(* How a signal becomes a position and a watch: explorer workers run       *)
(* LivePortfolioManager.evaluate_snapshot at the same time, for one live   *)
(* config on one Alpaca account, against the exit monitor and reconcile(). *)
(* Each action is one read or one write of the watches table, or one call  *)
(* of the broker.  How a position is sold, step by step, is LiveExit's     *)
(* subject: here a sale is one step, and a status and the mark of an exit  *)
(* in flight stand for a whole row.                                        *)
(***************************************************************************)
EXTENDS Naturals, FiniteSets

CONSTANTS Workers,     \* threads that explore: workers, backfill, manual runs
          Signals,     \* sealed snapshots that pass the config's filters
          Adoptions,   \* watches that reconcile may create
          Symbols,
          SymbolOf,    \* the symbol of each watch, by signal or adoption
          MaxPos,      \* max_concurrent of the allocation
          Replace,     \* is the weakest position replaced when full
          Faults,      \* see AllFaults
          MaxCrashes,  \* bound: restarts of the trader process
          None

(* Calls to Alpaca fail, or cancel too late; and two investigations of one *)
(* symbol at a time.                                                       *)
AllFaults == {"api_error", "same_symbol"}

Watches == Signals \cup Adoptions

ASSUME WorkersFinite == IsFiniteSet(Workers) /\ Workers # {}
ASSUME WatchesFinite == IsFiniteSet(Signals) /\ IsFiniteSet(Adoptions)
ASSUME AdoptionsApart == Signals \cap Adoptions = {} /\ None \notin Watches
ASSUME SymbolsKnown == SymbolOf \in [Watches -> Symbols]
ASSUME BoundsNat == MaxPos \in Nat /\ MaxCrashes \in Nat
ASSUME ChoicesKnown == Replace \in BOOLEAN /\ Faults \subseteq AllFaults

VARIABLES
  status,   \* the watches table
  flight,   \* watches, not sealed yet, whose row has exit_in_flight
  lots,     \* per symbol, the buys its position is made of
  buys,     \* the buy order of each signal, as Alpaca knows it
  pending,  \* signals not evaluated yet
  worker,   \* per worker: program counter, signal, victim
  rec,      \* reconcile: program counter and symbol
  crashes

vars == <<status, flight, lots, buys, pending, worker, rec, crashes>>

(* exited: or cooling off, or sealed.                                      *)
Statuses == {"absent", "holding", "exited"}
Orders   == {"none", "working", "partial", "filled", "dead"}

Free    == [pc |-> "idle", signal |-> None, victim |-> None]
RecIdle == [pc |-> "idle", symbol |-> None]

Holding == {w \in Watches : status[w] = "holding"}
HoldingOf(s) == {w \in Holding : SymbolOf[w] = s}

Held(s) == lots[s] # {}

(* AlpacaBroker.get_position: None when nothing is held, or the call fails.*)
PositionAnswers(s) == IF "api_error" \in Faults THEN {Held(s), FALSE} ELSE {Held(s)}

Become(p, local) == worker' = [worker EXCEPT ![p] = local]
GoTo(p, pc) == Become(p, [worker[p] EXCEPT !.pc = pc])

table   == <<status, flight>>
account == <<lots, buys>>

-----------------------------------------------------------------------------
(***************************************************************************)
(* _evaluate_for_config.  Two workers evaluate the same symbol at once     *)
(* when the orchestrator let two investigations of it through.             *)
(***************************************************************************)
Evaluating(s) == \E p \in Workers : worker[p].pc # "idle" /\ SymbolOf[worker[p].signal] = s

Begin(p, n) ==
  /\ worker[p].pc = "idle"
  /\ n \in pending
  /\ "same_symbol" \in Faults \/ ~Evaluating(SymbolOf[n])
  /\ pending' = pending \ {n}
  /\ Become(p, [pc |-> "count", signal |-> n, victim |-> None])
  /\ UNCHANGED <<table, account, rec, crashes>>

(* Mutant: the limit itself still passes.                                  *)
CountToLimit(p) ==
  /\ worker[p].pc = "count"
  /\ \/ Cardinality(Holding) <= MaxPos /\ GoTo(p, "guard")
     \/ Cardinality(Holding) > MaxPos /\ Replace /\ GoTo(p, "victim")
     \/ Cardinality(Holding) > MaxPos /\ ~Replace /\ Become(p, Free)
  /\ UNCHANGED <<table, account, pending, rec, crashes>>

(* count_holding_watches against max_concurrent.                           *)
CountHoldings(p) ==
  /\ worker[p].pc = "count"
  /\ \/ Cardinality(Holding) < MaxPos /\ GoTo(p, "guard")
     \/ Cardinality(Holding) >= MaxPos /\ Replace /\ GoTo(p, "victim")
     \/ Cardinality(Holding) >= MaxPos /\ ~Replace /\ Become(p, Free)
  /\ UNCHANGED <<table, account, pending, rec, crashes>>

(* _find_replacement_victim: the weakest holding by a score, if the signal *)
(* is stronger.                                                            *)
FindVictim(p) ==
  /\ worker[p].pc = "victim"
  /\ \/ \E v \in Holding : Become(p, [worker[p] EXCEPT !.pc = "guard", !.victim = v])
     \/ Become(p, Free)
  /\ UNCHANGED <<table, account, pending, rec, crashes>>

(* The duplicate symbol guard.                                             *)
Guard(p) ==
  /\ worker[p].pc = "guard"
  /\ IF HoldingOf(SymbolOf[worker[p].signal]) # {} THEN Become(p, Free)
     ELSE GoTo(p, IF worker[p].victim = None THEN "position" ELSE "sell")
  /\ UNCHANGED <<table, account, pending, rec, crashes>>

(* _exit_victim: the pending mark sets the victim's row, read before, back *)
(* to holding with an exit in flight.  Then the position is sold; or there *)
(* is none to sell; or the order cannot be submitted, and the mark is taken*)
(* off, or it times out, and the mark stays: both abort the replacement.   *)
SellVictim(p) ==
  /\ worker[p].pc = "sell"
  /\ LET v == worker[p].victim IN
     /\ status' = [status EXCEPT ![v] = "holding"]
     /\ \/ /\ lots' = [lots EXCEPT ![SymbolOf[v]] = {}]
           /\ flight' = flight \cup {v}
           /\ GoTo(p, IF Held(SymbolOf[v]) THEN "commit" ELSE "drop")
        \/ /\ lots' = lots
           /\ flight' \in {flight \ {v}, flight \cup {v}}
           /\ Become(p, Free)
  /\ UNCHANGED <<buys, pending, rec, crashes>>

(* The exit is recorded if the row still holds; the mark is gone only after*)
(* a fill.  If not, the exit that is there counts as success when its sell *)
(* id and reason fit, or else not.                                         *)
CommitVictim(p) ==
  /\ worker[p].pc \in {"commit", "drop"}
  /\ LET v == worker[p].victim IN
     \/ /\ status[v] = "holding"
        /\ status' = [status EXCEPT ![v] = "exited"]
        /\ flight' = IF worker[p].pc = "commit" THEN flight \ {v} ELSE flight \cup {v}
        /\ GoTo(p, "position")
     \/ /\ status[v] # "holding"
        /\ UNCHANGED table
        /\ GoTo(p, "position") \/ Become(p, Free)
  /\ UNCHANGED <<account, pending, rec, crashes>>

(* "Check Alpaca for existing position BEFORE buying."                     *)
CheckPosition(p) ==
  /\ worker[p].pc = "position"
  /\ \E found \in PositionAnswers(SymbolOf[worker[p].signal]) :
       IF found THEN Become(p, Free) ELSE GoTo(p, "buy")
  /\ UNCHANGED <<table, account, pending, rec, crashes>>

Buy(p) ==
  /\ worker[p].pc = "buy"
  /\ \/ /\ buys' = [buys EXCEPT ![worker[p].signal] = "working"]
        /\ GoTo(p, "await")
     \/ buys' = buys /\ Become(p, Free)
  /\ UNCHANGED <<table, lots, pending, rec, crashes>>

(* wait_for_fill: filled; dead, or not to be looked up, which raises; or   *)
(* timed out.                                                              *)
AwaitBuy(p) ==
  /\ worker[p].pc = "await"
  /\ LET n == worker[p].signal IN
     \/ buys[n] = "filled" /\ GoTo(p, "insert")
     \/ /\ buys[n] = "dead" \/ "api_error" \in Faults
        /\ Become(p, Free)
     \/ buys[n] = "working" /\ GoTo(p, "cancel")
  /\ UNCHANGED <<table, account, pending, rec, crashes>>

(* Mutant: the order that timed out is left working.                       *)
LeaveBuy(p) ==
  /\ worker[p].pc = "cancel"
  /\ GoTo(p, "recover")
  /\ UNCHANGED <<table, account, pending, rec, crashes>>

(* cancel_order after the time-out: the order is cancelled, perhaps with a *)
(* part of it filled, or has just filled, or the cancel fails unseen.      *)
CancelBuy(p) ==
  /\ worker[p].pc = "cancel"
  /\ LET n == worker[p].signal IN
     \/ /\ buys[n] = "working"
        /\ \/ buys' = [buys EXCEPT ![n] = "dead"] /\ lots' = lots
           \/ /\ buys' = [buys EXCEPT ![n] = "partial"]
              /\ lots' = [lots EXCEPT ![SymbolOf[n]] = @ \cup {n}]
     \/ /\ buys[n] # "working" \/ "api_error" \in Faults
        /\ UNCHANGED account
  /\ GoTo(p, "recover")
  /\ UNCHANGED <<table, pending, rec, crashes>>

(* _resolve_buy_after_timeout: what the order bought, or else any position *)
(* in the symbol, is taken for the buy.                                    *)
RecoverBuy(p) ==
  /\ worker[p].pc = "recover"
  /\ LET n == worker[p].signal IN
     \/ buys[n] \in {"filled", "partial"} /\ GoTo(p, "insert")
     \/ /\ buys[n] \in {"working", "dead"} \/ "api_error" \in Faults
        /\ \E found \in PositionAnswers(SymbolOf[n]) :
             IF found THEN GoTo(p, "insert") ELSE Become(p, Free)
  /\ UNCHANGED <<table, account, pending, rec, crashes>>

InsertWatch(p) ==
  /\ worker[p].pc = "insert"
  /\ status' = [status EXCEPT ![worker[p].signal] = "holding"]
  /\ Become(p, Free)
  /\ UNCHANGED <<flight, account, pending, rec, crashes>>

Evaluate(p) ==
  \/ CountHoldings(p) \/ FindVictim(p) \/ Guard(p)
  \/ SellVictim(p) \/ CommitVictim(p)
  \/ CheckPosition(p) \/ Buy(p) \/ AwaitBuy(p) \/ CancelBuy(p) \/ RecoverBuy(p)
  \/ InsertWatch(p)

-----------------------------------------------------------------------------
(***************************************************************************)
(* reconcile() again, one symbol at a time, with what matters to a buy:    *)
(* positions, then watches, then open orders, then the row.                *)
(***************************************************************************)
ReconcilePositions(s) ==
  /\ rec.pc = "idle"
  /\ rec' = [pc |-> IF Held(s) THEN "listed" ELSE "missing", symbol |-> s]
  /\ UNCHANGED <<table, account, pending, worker, crashes>>

(* Mutant: any watch of the symbol will do, one exited long ago too.       *)
ReconcileListedAny ==
  /\ rec.pc = "listed"
  /\ rec' = IF \E w \in Watches : status[w] # "absent" /\ SymbolOf[w] = rec.symbol
              THEN RecIdle ELSE [rec EXCEPT !.pc = "orders"]
  /\ UNCHANGED <<table, account, pending, worker, crashes>>

(* Rules 1 and 2: a watch is there, or the position is an orphan, which is *)
(* left alone while the exit of one of the symbol's watches is in flight.  *)
ReconcileListed ==
  /\ rec.pc = "listed"
  /\ rec' = IF HoldingOf(rec.symbol) # {} \/ \E w \in flight : SymbolOf[w] = rec.symbol
              THEN RecIdle ELSE [rec EXCEPT !.pc = "orders"]
  /\ UNCHANGED <<table, account, pending, worker, crashes>>

(* Mutant: the second look is taken the wrong way round.                   *)
ReconcileSoldIfFound ==
  /\ rec.pc = "missing"
  /\ \E w \in HoldingOf(rec.symbol) \ flight :
       /\ Held(rec.symbol)
       /\ status' = [status EXCEPT ![w] = "exited"]
  /\ rec' = RecIdle
  /\ UNCHANGED <<flight, account, pending, worker, crashes>>

(* Rule 3, of a watch whose exit is not in flight: the position is looked  *)
(* up once more, and its sale is found in the history.                     *)
ReconcileSold ==
  /\ rec.pc = "missing"
  /\ \E w \in HoldingOf(rec.symbol) \ flight :
       /\ ~Held(rec.symbol)
       /\ status' = [status EXCEPT ![w] = "exited"]
  /\ rec' = RecIdle
  /\ UNCHANGED <<flight, account, pending, worker, crashes>>

(* ... or there is no watch; or its exit is in flight; or the position is  *)
(* there after all; or the history shows no sale, or cannot be read.       *)
ReconcileMissing ==
  /\ rec.pc = "missing"
  /\ \/ HoldingOf(rec.symbol) = {} \/ HoldingOf(rec.symbol) \cap flight # {}
     \/ Held(rec.symbol) \/ "api_error" \in Faults
  /\ rec' = RecIdle
  /\ UNCHANGED <<table, account, pending, worker, crashes>>

OpenBuy(s) == \E n \in Signals : buys[n] = "working" /\ SymbolOf[n] = s

ReconcileOrders ==
  /\ rec.pc = "orders"
  /\ rec' = IF OpenBuy(rec.symbol) THEN RecIdle ELSE [rec EXCEPT !.pc = "adopt"]
  /\ UNCHANGED <<table, account, pending, worker, crashes>>

Unused(s) == {a \in Adoptions : status[a] = "absent" /\ SymbolOf[a] = s}

ReconcileAdopt ==
  /\ rec.pc = "adopt"
  /\ IF Unused(rec.symbol) = {} THEN UNCHANGED status
     ELSE \E a \in Unused(rec.symbol) : status' = [status EXCEPT ![a] = "holding"]
  /\ rec' = RecIdle
  /\ UNCHANGED <<flight, account, pending, worker, crashes>>

Reconcile ==
  \/ ReconcileListed \/ ReconcileSold \/ ReconcileMissing
  \/ ReconcileOrders \/ ReconcileAdopt

-----------------------------------------------------------------------------
FillBuy(n) ==
  /\ buys[n] = "working"
  /\ buys' = [buys EXCEPT ![n] = "filled"]
  /\ lots' = [lots EXCEPT ![SymbolOf[n]] = @ \cup {n}]
  /\ UNCHANGED <<table, pending, worker, rec, crashes>>

BuyDies(n) ==
  /\ buys[n] = "working"
  /\ buys' = [buys EXCEPT ![n] = "dead"]
  /\ UNCHANGED <<table, lots, pending, worker, rec, crashes>>

(* The exit of a watch, as LiveExit has it: sold; or recorded without a    *)
(* fill, in flight still (the sale timed out, or there was nothing to sell)*)
(* or not (it could not be submitted, or the dashboard recorded the exit). *)
MonitorExit(w) ==
  /\ w \in Holding
  /\ status' = [status EXCEPT ![w] = "exited"]
  /\ \/ lots' = [lots EXCEPT ![SymbolOf[w]] = {}] /\ flight' = flight \ {w}
     \/ lots' = lots /\ flight' \in {flight \ {w}, flight \cup {w}}
  /\ UNCHANGED <<buys, pending, worker, rec, crashes>>

(* The stream learns that a stop, or a sale that timed out, has filled.    *)
StreamExit(w) ==
  /\ w \in Holding \cup flight
  /\ ~Held(SymbolOf[w])
  /\ status' = [status EXCEPT ![w] = "exited"]
  /\ flight' = flight \ {w}
  /\ UNCHANGED <<account, pending, worker, rec, crashes>>

(* A watch cools off and is sealed, and is no longer active; the hours that*)
(* takes outlast every evaluation that has its row.                        *)
Seal(w) ==
  /\ w \in flight \ Holding
  /\ \A p \in Workers : worker[p].victim # w
  /\ flight' = flight \ {w}
  /\ UNCHANGED <<status, account, pending, worker, rec, crashes>>

(* The stop order of a position fills, or a sale that timed out: the stream*)
(* exits the watch later, or never.                                        *)
StopFills(s) ==
  /\ Held(s)
  /\ lots' = [lots EXCEPT ![s] = {}]
  /\ UNCHANGED <<table, buys, pending, worker, rec, crashes>>

Crash ==
  /\ crashes < MaxCrashes
  /\ crashes' = crashes + 1
  /\ worker' = [p \in Workers |-> Free]
  /\ rec' = RecIdle
  /\ UNCHANGED <<table, account, pending>>

Init ==
  /\ status = [w \in Watches |-> "absent"]
  /\ flight = {}
  /\ lots = [s \in Symbols |-> {}]
  /\ buys = [n \in Signals |-> "none"]
  /\ pending = Signals
  /\ worker = [p \in Workers |-> Free]
  /\ rec = RecIdle
  /\ crashes = 0

Next ==
  \/ \E p \in Workers : Evaluate(p) \/ \E n \in Signals : Begin(p, n)
  \/ Reconcile \/ \E s \in Symbols : ReconcilePositions(s)
  \/ \E n \in Signals : FillBuy(n) \/ BuyDies(n)
  \/ \E w \in Watches : MonitorExit(w) \/ StreamExit(w) \/ Seal(w)
  \/ \E s \in Symbols : StopFills(s)
  \/ Crash

Spec == Init /\ [][Next]_vars

(* Every call of a worker ends, a buy fills or, being a DAY order, expires,*)
(* cooling off ends, and reconcile looks at every symbol again and again,  *)
(* with a history that does not fail each time.  Nothing is assumed of     *)
(* sales, Alpaca's events, exit signals or new snapshots.                  *)
Fairness ==
  /\ \A n \in Signals : WF_vars(FillBuy(n) \/ BuyDies(n))
  /\ \A p \in Workers : WF_vars(Evaluate(p))
  /\ \A w \in Watches : WF_vars(Seal(w))
  /\ WF_vars(Reconcile) /\ SF_vars(ReconcileSold)
  /\ \A s \in Symbols : SF_vars(ReconcilePositions(s))

FairSpec == Spec /\ Fairness

-----------------------------------------------------------------------------
Busy == {"count", "victim", "guard", "sell", "commit", "drop", "position",
         "buy", "await", "cancel", "recover", "insert"}

Selling == {"sell", "commit", "drop"}

Locals == {Free} \cup [pc : Busy, signal : Signals, victim : Watches \cup {None}]

Recs == [pc     : {"idle", "listed", "missing", "orders", "adopt"},
         symbol : Symbols \cup {None}]

(* Every variable has its type, and a worker that sells has a victim.      *)
TypeOK ==
  /\ status \in [Watches -> Statuses]
  /\ flight \subseteq Watches
  /\ lots \in [Symbols -> SUBSET Signals]
  /\ buys \in [Signals -> Orders]
  /\ pending \subseteq Signals
  /\ worker \in [Workers -> Locals]
  /\ \A p \in Workers : worker[p].pc \in Selling => worker[p].victim # None
  /\ rec \in Recs
  /\ crashes \in 0 .. MaxCrashes

(* The watches of the portfolio's own buys, without the adopted ones.      *)
Bought == Holding \cap Signals

(* The capacity is checked long before the watch is inserted: without      *)
(* replacement, each other worker can exceed it by one, and no sequence of *)
(* buys, exits, adoptions and restarts by more.                            *)
OvershootBounded == ~Replace => Cardinality(Bought) + 1 <= MaxPos + Cardinality(Workers)

(* max_pos as docs/ALLOCATION-STRATEGIES.md has it: a hard cap on the      *)
(* positions open at a time.  It does not hold with two workers.           *)
HardCap == Cardinality({s \in Symbols : Held(s)}) <= MaxPos

(* As long as no two workers evaluate a symbol at once, every call answers *)
(* and the program runs on, no symbol is bought twice: the position check  *)
(* and the guard see every earlier buy, also one that timed out.           *)
NoDoubleBuy == \A s \in Symbols : Cardinality(lots[s]) <= 1

(* A bought watch stands for a buy that really filled, in part at least,   *)
(* and not for a position that happened to be there.                       *)
BoughtIsFilled == \A w \in Bought : buys[w] \in {"filled", "partial"}

(* What was bought and lost sight of comes back under a watch.             *)
HeldIsTracked ==
  \A s \in Symbols : Held(s) ~> (~Held(s) \/ HoldingOf(s) # {} \/ Unused(s) = {})

(* A watch does not go on holding what the account no longer has, unless   *)
(* its exit is in flight: reconcile leaves such a watch to the stream.     *)
TrackedIsHeld ==
  \A w \in Watches :
    (w \in Holding \ flight /\ ~Held(SymbolOf[w]))
      ~> (w \notin Holding \/ w \in flight \/ Held(SymbolOf[w]))
=============================================================================
