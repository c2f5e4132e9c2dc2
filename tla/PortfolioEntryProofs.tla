------------------------ MODULE PortfolioEntryProofs ------------------------
(***************************************************************************)
(* Proofs about PortfolioEntry, for any workers, signals and adoptions:    *)
(* its types, the bound on what a portfolio can exceed max_pos by, and     *)
(* that no symbol is bought twice where nothing fails.                     *)
(***************************************************************************)
EXTENDS PortfolioEntry, FiniteSetTheorems, TLAPS

-----------------------------------------------------------------------------
(* Type correctness.                                                       *)

LEMMA InitTyped == Init => TypeOK
BY BoundsNat DEF Init, TypeOK, Statuses, Orders, Locals, Recs, RecIdle, Free, Selling

(* What a worker that is busy can be given.                                *)
LEMMA BecomeTyped ==
  ASSUME TypeOK, NEW p \in Workers, worker[p].pc \in Busy,
         NEW pc \in Busy, NEW v \in Watches \cup {None},
         \/ GoTo(p, pc) /\ (pc \in Selling => worker[p].victim # None)
         \/ Become(p, [worker[p] EXCEPT !.pc = pc, !.victim = v]) /\ pc \notin Selling
         \/ Become(p, Free)
  PROVE  /\ worker' \in [Workers -> Locals]
         /\ \A q \in Workers : worker'[q].pc \in Selling => worker'[q].victim # None
<1> DEFINE row == [pc : Busy, signal : Signals, victim : Watches \cup {None}]
<1>1. worker[p] \in row
  BY DEF TypeOK, Locals, Free, Busy
<1>2. [worker[p] EXCEPT !.pc = pc] \in row /\ [worker[p] EXCEPT !.pc = pc, !.victim = v] \in row
  BY <1>1
<1>3. /\ [worker[p] EXCEPT !.pc = pc].pc = pc /\ [worker[p] EXCEPT !.pc = pc].victim = worker[p].victim
      /\ [worker[p] EXCEPT !.pc = pc, !.victim = v].pc = pc
  BY <1>1
<1>4. PICK local \in Locals : Become(p, local) /\ (local.pc \in Selling => local.victim # None)
  <2>1. Free.pc \notin Selling
    BY DEF Free, Selling
  <2> QED BY <1>2, <1>3, <2>1 DEF GoTo, Locals
<1> QED BY <1>4 DEF TypeOK, Become

(* One step of an evaluation.                                              *)
LEMMA EvaluateTyped ==
  ASSUME TypeOK, NEW p \in Workers, Evaluate(p)
  PROVE  TypeOK'
<1> DEFINE n == worker[p].signal
<1>1. worker[p].pc \in Busy /\ n \in Signals
  <2>1. worker[p].pc \in Busy
    BY DEF Evaluate, CountHoldings, FindVictim, Guard, SellVictim, CommitVictim, CheckPosition,
           Buy, AwaitBuy, CancelBuy, RecoverBuy, InsertWatch, Busy
  <2> QED BY <2>1 DEF TypeOK, Locals, Free, Busy
<1>2. /\ worker' \in [Workers -> Locals]
      /\ \A q \in Workers : worker'[q].pc \in Selling => worker'[q].victim # None
  <2>1. PICK pc \in Busy, v \in Watches \cup {None} :
          \/ GoTo(p, pc) /\ (pc \in Selling => worker[p].victim # None)
          \/ Become(p, [worker[p] EXCEPT !.pc = pc, !.victim = v]) /\ pc \notin Selling
          \/ Become(p, Free)
    <3>1. CASE FindVictim(p)
      BY <3>1 DEF FindVictim, Busy, Selling, Holding
    <3>2. CASE Guard(p)
      BY <3>2 DEF Guard, Busy, Selling
    <3>3. CASE SellVictim(p)
      BY <3>3 DEF SellVictim, TypeOK, Busy, Selling
    <3>4. CASE CountHoldings(p) \/ CommitVictim(p) \/ CheckPosition(p)
      BY <3>4 DEF CountHoldings, CommitVictim, CheckPosition, Busy, Selling
    <3>5. CASE Buy(p) \/ AwaitBuy(p) \/ CancelBuy(p) \/ RecoverBuy(p) \/ InsertWatch(p)
      BY <3>5 DEF Buy, AwaitBuy, CancelBuy, RecoverBuy, InsertWatch, Busy, Selling
    <3> QED BY <3>1, <3>2, <3>3, <3>4, <3>5 DEF Evaluate
  <2> QED BY <1>1, <2>1, BecomeTyped
<1>3. CASE CountHoldings(p) \/ FindVictim(p) \/ Guard(p) \/ CheckPosition(p) \/ AwaitBuy(p) \/ RecoverBuy(p)
  <2>1. UNCHANGED <<status, flight, lots, buys, pending, rec, crashes>>
    BY <1>3 DEF CountHoldings, FindVictim, Guard, CheckPosition, AwaitBuy, RecoverBuy, table, account
  <2> QED BY <1>2, <2>1 DEF TypeOK
<1>4. CASE SellVictim(p) \/ CommitVictim(p)
  <2>1. worker[p].victim \in Watches
    BY <1>4 DEF SellVictim, CommitVictim, TypeOK, Locals, Free, Selling
  <2>2. flight' \subseteq Watches
    BY <1>4, <2>1 DEF SellVictim, CommitVictim, TypeOK, table
  <2>3. CASE SellVictim(p)
    BY <1>2, <2>2, <2>3 DEF SellVictim, TypeOK, Statuses
  <2>4. CASE CommitVictim(p)
    BY <1>2, <2>2, <2>4 DEF CommitVictim, TypeOK, Statuses, table, account
  <2> QED BY <1>4, <2>3, <2>4
<1>6. CASE Buy(p)
  BY <1>2, <1>6 DEF Buy, TypeOK, table, Orders
<1>7. CASE CancelBuy(p)
  BY <1>1, <1>2, <1>7 DEF CancelBuy, TypeOK, Orders, table, account
<1>8. CASE InsertWatch(p)
  BY <1>2, <1>8 DEF InsertWatch, TypeOK, Statuses, account
<1> QED BY <1>3, <1>4, <1>6, <1>7, <1>8 DEF Evaluate

LEMMA ReconcileTyped ==
  ASSUME TypeOK, Reconcile \/ \E s \in Symbols : ReconcilePositions(s)
  PROVE  TypeOK'
<1>1. CASE ReconcileListed
  BY <1>1 DEF ReconcileListed, TypeOK, Recs, RecIdle, table, account
<1>2. CASE ReconcileSold
  BY <1>2 DEF ReconcileSold, TypeOK, Recs, RecIdle, Statuses, account
<1>6. CASE ReconcileMissing
  BY <1>6 DEF ReconcileMissing, TypeOK, Recs, RecIdle, table, account
<1>3. CASE ReconcileOrders
  BY <1>3 DEF ReconcileOrders, TypeOK, Recs, RecIdle, table, account
<1>4. CASE ReconcileAdopt
  BY <1>4 DEF ReconcileAdopt, TypeOK, Recs, RecIdle, Statuses, account
<1>5. CASE \E s \in Symbols : ReconcilePositions(s)
  BY <1>5 DEF ReconcilePositions, TypeOK, Recs, table, account
<1> QED BY <1>1, <1>2, <1>3, <1>4, <1>5, <1>6 DEF Reconcile

(* Any step.                                                               *)
LEMMA NextTyped ==
  ASSUME TypeOK, [Next]_vars
  PROVE  TypeOK'
<1>1. CASE \E p \in Workers : Evaluate(p)
  BY <1>1, EvaluateTyped
<1>2. ASSUME NEW p \in Workers, NEW n \in Signals, Begin(p, n) PROVE TypeOK'
  BY <1>2 DEF Begin, TypeOK, Become, Locals, Busy, Selling, table, account
<1>3. CASE Reconcile \/ \E s \in Symbols : ReconcilePositions(s)
  BY <1>3, ReconcileTyped
<1>4. ASSUME NEW n \in Signals, FillBuy(n) PROVE TypeOK'
  BY <1>4, SymbolsKnown DEF FillBuy, TypeOK, Orders, table, Watches
<1>5. ASSUME NEW n \in Signals, BuyDies(n) PROVE TypeOK'
  BY <1>5 DEF BuyDies, TypeOK, Orders, table
<1>6. ASSUME NEW w \in Watches, MonitorExit(w) \/ StreamExit(w) \/ Seal(w) PROVE TypeOK'
  <2>1. CASE MonitorExit(w)
    BY <2>1 DEF MonitorExit, TypeOK, Statuses
  <2>2. CASE StreamExit(w) \/ Seal(w)
    BY <2>2 DEF StreamExit, Seal, TypeOK, Statuses, account
  <2> QED BY <1>6, <2>1, <2>2
<1>7. ASSUME NEW s \in Symbols, StopFills(s) PROVE TypeOK'
  BY <1>7 DEF StopFills, TypeOK, table
<1>8. CASE Crash
  BY <1>8, BoundsNat DEF Crash, TypeOK, Locals, Recs, RecIdle, Free, Selling, table, account
<1>9. CASE UNCHANGED vars
  BY <1>9 DEF vars, TypeOK
<1> QED BY <1>1, <1>2, <1>3, <1>4, <1>5, <1>6, <1>7, <1>8, <1>9 DEF Next

(* Every reachable state is type correct.                                  *)
THEOREM EntryTypeCorrect == Spec => []TypeOK
BY InitTyped, NextTyped, PTL DEF Spec

-----------------------------------------------------------------------------
(* The overshoot of the limit.  A worker past the count may still insert a *)
(* watch, so what is bounded in every state is the bought watches and the  *)
(* workers past the count together.                                        *)

Past == {p \in Workers : worker[p].pc \notin {"idle", "count"}}

Room == Cardinality(Bought) + Cardinality(Past) + 1 <= MaxPos + Cardinality(Workers)

(* Without replacement no worker has a victim, whose sale could set an     *)
(* exited watch back to holding.                                           *)
NoVictims ==
  \A p \in Workers : /\ worker[p].pc \notin {"victim", "sell", "commit", "drop"}
                     /\ worker[p].victim = None

CapInv == TypeOK /\ (~Replace => NoVictims /\ Room)

LEMMA Finite ==
  /\ IsFiniteSet(Bought) /\ Cardinality(Bought) \in Nat
  /\ IsFiniteSet(Past) /\ Cardinality(Past) \in Nat
  /\ Cardinality(Workers) \in Nat /\ Cardinality(Workers) >= 1
  /\ Cardinality(Past) <= Cardinality(Workers)
<1>1. Bought \subseteq Signals /\ Past \subseteq Workers
  BY DEF Bought, Past
<1>2. Cardinality(Workers) # 0
  BY WorkersFinite, FS_EmptySet
<1>3. Cardinality(Workers) \in Nat
  BY WorkersFinite, FS_CardinalityType
<1>4. IsFiniteSet(Bought) /\ IsFiniteSet(Past) /\ Cardinality(Past) <= Cardinality(Workers)
  BY <1>1, WorkersFinite, WatchesFinite, FS_Subset
<1> QED BY <1>2, <1>3, <1>4, FS_CardinalityType

(* A step that adds neither a bought watch nor a worker past the count.    *)
LEMMA RoomKept ==
  ASSUME Room, Bought' \subseteq Bought, Past' \subseteq Past
  PROVE  Room'
<1>1. /\ Cardinality(Bought') \in Nat /\ Cardinality(Bought') <= Cardinality(Bought)
      /\ Cardinality(Past') \in Nat /\ Cardinality(Past') <= Cardinality(Past)
  BY Finite, FS_Subset, FS_CardinalityType
<1> QED BY <1>1, Finite, BoundsNat DEF Room

(* A count below the limit leaves room for every worker.                   *)
LEMMA CountLeavesRoom ==
  ASSUME TypeOK, NEW p \in Workers, CountHoldings(p), ~Replace, Room
  PROVE  Room'
<1>1. Bought' = Bought
  BY DEF CountHoldings, table, Bought, Holding
<1>2. CASE Cardinality(Holding) < MaxPos
  <2>1. IsFiniteSet(Watches) /\ Holding \subseteq Watches /\ Bought \subseteq Holding
    BY WatchesFinite, FS_Union DEF Watches, Holding, Bought
  <2>2. Cardinality(Holding) \in Nat /\ Cardinality(Bought) <= Cardinality(Holding)
    BY <2>1, FS_Subset, FS_CardinalityType
  <2>3. Past' \subseteq Workers
    BY DEF Past
  <2>4. Cardinality(Past') \in Nat /\ Cardinality(Past') <= Cardinality(Workers)
    BY <2>3, WorkersFinite, FS_Subset, FS_CardinalityType
  <2> QED BY <1>1, <1>2, <2>2, <2>4, Finite, BoundsNat DEF Room
<1>3. CASE ~(Cardinality(Holding) < MaxPos)
  <2>1. Become(p, Free)
    BY <1>3, Zenon DEF CountHoldings
  <2>2. Past' \subseteq Past
    BY <2>1 DEF Past, Become, Free, TypeOK
  <2> QED BY <1>1, <2>2, RoomKept
<1> QED BY <1>2, <1>3

(* The insertion takes the room of its own worker.                         *)
LEMMA InsertTakesRoom ==
  ASSUME TypeOK, NEW p \in Workers, InsertWatch(p), Room
  PROVE  Room'
<1> DEFINE n == worker[p].signal
<1>1. p \in Past /\ Past' = Past \ {p}
  BY DEF InsertWatch, Past, Become, Free, TypeOK
<1>2. Bought' \subseteq Bought \cup {n}
  BY DEF InsertWatch, Bought, Holding, TypeOK
<1>3. Cardinality(Past') = Cardinality(Past) - 1
  BY <1>1, Finite, FS_RemoveElement
<1>4. IsFiniteSet(Bought \cup {n}) /\ Cardinality(Bought \cup {n}) <= Cardinality(Bought) + 1
  <2> DEFINE more == Cardinality(Bought \cup {n})
  <2>1. IsFiniteSet(Bought \cup {n}) /\ more = IF n \in Bought THEN Cardinality(Bought) ELSE Cardinality(Bought) + 1
    BY Finite, FS_AddElement
  <2>2. more <= Cardinality(Bought) + 1
    <3> HIDE DEF more
    <3> QED BY <2>1, Finite
  <2> QED BY <2>1, <2>2
<1>5. Cardinality(Bought') \in Nat /\ Cardinality(Bought') <= Cardinality(Bought) + 1
  BY <1>2, <1>4, FS_Subset, FS_CardinalityType
<1> QED BY <1>3, <1>5, Finite, BoundsNat DEF Room

(* One step of an evaluation.                                              *)
LEMMA EvaluateKeepsRoom ==
  ASSUME TypeOK, NEW p \in Workers, Evaluate(p), ~Replace, NoVictims, Room
  PROVE  NoVictims' /\ Room'
<1>1. worker[p].pc \in Busy /\ worker[p].pc \notin {"victim", "sell", "commit", "drop"} /\ worker[p].victim = None
  BY DEF Evaluate, CountHoldings, FindVictim, Guard, SellVictim, CommitVictim, CheckPosition,
         Buy, AwaitBuy, CancelBuy, RecoverBuy, InsertWatch, Busy, NoVictims
<1>2. \/ CountHoldings(p) \/ Guard(p) \/ CheckPosition(p) \/ Buy(p) \/ AwaitBuy(p) \/ CancelBuy(p)
      \/ RecoverBuy(p) \/ InsertWatch(p)
  BY <1>1 DEF Evaluate, FindVictim, SellVictim, CommitVictim
<1>3. \E pc \in {"guard", "position", "buy", "await", "cancel", "recover", "insert"} :
         GoTo(p, pc) \/ Become(p, Free)
  <2>1. CASE Guard(p)
    BY <1>1, <2>1 DEF Guard
  <2>2. CASE CountHoldings(p)
    BY <2>2, Zenon DEF CountHoldings
  <2> QED BY <1>2, <2>1, <2>2, Zenon DEF CheckPosition, Buy, AwaitBuy, CancelBuy, RecoverBuy, InsertWatch
<1>4. NoVictims'
  <2>1. PICK local : /\ Become(p, local)
                     /\ local.pc \notin {"victim", "sell", "commit", "drop"} /\ local.victim = None
    <3>1. CASE Become(p, Free)
      BY <3>1 DEF Free
    <3>2. ASSUME NEW pc \in {"guard", "position", "buy", "await", "cancel", "recover", "insert"}, GoTo(p, pc)
          PROVE  \E local : /\ Become(p, local)
                           /\ local.pc \notin {"victim", "sell", "commit", "drop"} /\ local.victim = None
      <4>1. worker[p] \in [pc : Busy, signal : Signals, victim : Watches \cup {None}]
        BY <1>1 DEF TypeOK, Locals, Free, Busy
      <4>2. [worker[p] EXCEPT !.pc = pc].pc = pc /\ [worker[p] EXCEPT !.pc = pc].victim = None
        BY <1>1, <4>1
      <4> QED BY <3>2, <4>2 DEF GoTo
    <3> QED BY <1>3, <3>1, <3>2
  <2> QED BY <2>1 DEF NoVictims, Become, TypeOK
<1>5. CASE ~CountHoldings(p) /\ ~InsertWatch(p)
  <2>1. worker[p].pc # "count" /\ UNCHANGED status
    BY <1>2, <1>5 DEF Guard, CheckPosition, Buy, AwaitBuy, CancelBuy, RecoverBuy, table
  <2>2. p \in Past
    BY <1>1, <2>1 DEF Past, Busy
  <2>3. Past' \subseteq Past
    BY <1>3, <2>2 DEF Past, GoTo, Become, TypeOK
  <2>4. Bought' = Bought
    BY <2>1 DEF Bought, Holding
  <2> QED BY <1>4, <2>3, <2>4, RoomKept
<1> QED BY <1>4, <1>5, CountLeavesRoom, InsertTakesRoom

LEMMA InitRoom == Init => CapInv
<1> SUFFICES ASSUME Init PROVE CapInv
  OBVIOUS
<1>1. Bought = {} /\ Past = {}
  BY DEF Init, Bought, Holding, Past, Free
<1>2. Room
  <2>1. Cardinality(Bought) = 0 /\ Cardinality(Past) = 0
    BY <1>1, FS_EmptySet
  <2> QED BY <2>1, Finite, BoundsNat DEF Room
<1> QED BY <1>2, InitTyped DEF CapInv, NoVictims, Init, Free

(* Any step.                                                               *)
LEMMA NextKeepsRoom ==
  ASSUME CapInv, [Next]_vars
  PROVE  CapInv'
<1>1. TypeOK /\ TypeOK'
  BY NextTyped DEF CapInv
<1> SUFFICES ASSUME ~Replace PROVE NoVictims' /\ Room'
  BY <1>1, Zenon DEF CapInv
<1>2. NoVictims /\ Room
  BY DEF CapInv
<1>3. ASSUME NEW p \in Workers, Evaluate(p) PROVE NoVictims' /\ Room'
  BY <1>1, <1>2, <1>3, EvaluateKeepsRoom
<1>4. ASSUME NEW p \in Workers, NEW n \in Signals, Begin(p, n) PROVE NoVictims' /\ Room'
  <2>1. NoVictims' /\ Past' \subseteq Past /\ Bought' = Bought
    BY <1>1, <1>2, <1>4 DEF Begin, Become, table, NoVictims, Past, Bought, Holding, TypeOK
  <2> QED BY <1>2, <2>1, RoomKept
<1>5. ASSUME UNCHANGED worker, \A n \in Signals : status'[n] = "holding" => status[n] = "holding"
      PROVE  NoVictims' /\ Room'
  <2>1. NoVictims' /\ Past' = Past /\ Bought' \subseteq Bought
    BY <1>2, <1>5 DEF NoVictims, Past, Bought, Holding, Watches
  <2> QED BY <1>2, <2>1, RoomKept
<1>6. CASE Reconcile \/ \E s \in Symbols : ReconcilePositions(s)
  <2>1. UNCHANGED worker
    BY <1>6 DEF Reconcile, ReconcileListed, ReconcileSold, ReconcileMissing, ReconcileOrders,
       ReconcileAdopt, ReconcilePositions
  <2>2. \A n \in Signals : status'[n] = "holding" => status[n] = "holding"
    BY <1>1, <1>6, AdoptionsApart DEF Reconcile, ReconcileListed, ReconcileSold, ReconcileMissing,
       ReconcileOrders, ReconcileAdopt, ReconcilePositions, TypeOK, table, Unused, Watches
  <2> QED BY <1>5, <2>1, <2>2
<1>7. ASSUME NEW w \in Watches, MonitorExit(w) \/ StreamExit(w) \/ Seal(w) PROVE NoVictims' /\ Room'
  <2>1. UNCHANGED worker /\ \A n \in Signals : status'[n] = "holding" => status[n] = "holding"
    BY <1>1, <1>7 DEF MonitorExit, StreamExit, Seal, TypeOK, Watches
  <2> QED BY <1>5, <2>1
<1>8. CASE \/ \E n \in Signals : FillBuy(n) \/ BuyDies(n)
           \/ \E s \in Symbols : StopFills(s)
           \/ UNCHANGED vars
  <2>1. UNCHANGED <<worker, status>>
    BY <1>8 DEF FillBuy, BuyDies, StopFills, vars, table
  <2> QED BY <1>5, <2>1
<1>9. CASE Crash
  <2>1. NoVictims' /\ Past' = {} /\ Bought' = Bought
    BY <1>9 DEF Crash, NoVictims, Past, Free, Bought, Holding, table
  <2> QED BY <1>2, <2>1, RoomKept
<1> QED BY <1>3, <1>4, <1>6, <1>7, <1>8, <1>9 DEF Next

(* Without replacement, the bought watches exceed max_pos by at most one   *)
(* for each explorer worker but one.                                       *)
THEOREM OvershootIsBounded == Spec => []OvershootBounded
<1>1. CapInv => OvershootBounded
  <2> SUFFICES ASSUME CapInv, ~Replace PROVE OvershootBounded
    BY DEF OvershootBounded
  <2> QED BY Finite, BoundsNat DEF CapInv, Room, OvershootBounded
<1> QED BY <1>1, InitRoom, NextKeepsRoom, PTL DEF Spec

-----------------------------------------------------------------------------
(***************************************************************************)
(* One buy per symbol, where every call answers, no two workers evaluate a *)
(* symbol at once and the program runs on: a symbol has one evaluation, a  *)
(* working buy is one whose evaluation waits for it, and the evaluation    *)
(* that is about to buy, or whose buy works, has found the account without *)
(* the symbol.                                                             *)
(***************************************************************************)
SymbolAt(p) == SymbolOf[worker[p].signal]

OneEvaluation ==
  \A p, q \in Workers :
    worker[p].pc # "idle" /\ worker[q].pc # "idle" /\ SymbolAt(p) = SymbolAt(q) => p = q

WorkingIsAwaited ==
  \A n \in Signals : buys[n] = "working" =>
    \E p \in Workers : worker[p].pc \in {"await", "cancel"} /\ worker[p].signal = n

Buying(p) == \/ worker[p].pc = "buy"
             \/ worker[p].pc \in {"await", "cancel"} /\ buys[worker[p].signal] = "working"

BuyerFoundNone == \A p \in Workers : Buying(p) => lots[SymbolAt(p)] = {}

OneLot == \A s \in Symbols : \A m, n \in lots[s] : m = n

BuyInv == TypeOK /\ OneEvaluation /\ WorkingIsAwaited /\ BuyerFoundNone /\ OneLot

LEMMA InitBuys == Init => BuyInv
BY InitTyped DEF Init, BuyInv, OneEvaluation, WorkingIsAwaited, BuyerFoundNone, Buying, OneLot, Free

LEMMA BusyWorker ==
  ASSUME TypeOK, NEW p \in Workers, worker[p].pc # "idle"
  PROVE  worker[p].signal \in Signals /\ SymbolAt(p) \in Symbols
BY SymbolsKnown DEF TypeOK, Locals, Free, SymbolAt, Watches

(* What a step leaves a worker with.                                       *)
LEMMA Became ==
  ASSUME TypeOK, NEW p \in Workers, NEW l, Become(p, l)
  PROVE  worker'[p] = l /\ \A q \in Workers \ {p} : worker'[q] = worker[q]
BY DEF TypeOK, Become

LEMMA Freed ==
  ASSUME TypeOK, NEW p \in Workers, Become(p, Free)
  PROVE  worker'[p].pc = "idle"
BY Became DEF Free

LEMMA Went ==
  ASSUME TypeOK, NEW p \in Workers, worker[p].pc # "idle", NEW pc \in Busy, GoTo(p, pc)
  PROVE  worker'[p].pc = pc /\ worker'[p].signal = worker[p].signal
<1>1. worker[p] \in [pc : Busy, signal : Signals, victim : Watches \cup {None}]
  BY DEF TypeOK, Locals, Free
<1>2. worker'[p] = [worker[p] EXCEPT !.pc = pc]
  BY Became DEF GoTo
<1> QED BY <1>1, <1>2

LEMMA FoundVictim ==
  ASSUME TypeOK, NEW p \in Workers, worker[p].pc # "idle", NEW v,
         Become(p, [worker[p] EXCEPT !.pc = "guard", !.victim = v])
  PROVE  worker'[p].pc = "guard" /\ worker'[p].signal = worker[p].signal
<1>1. worker[p] \in [pc : Busy, signal : Signals, victim : Watches \cup {None}]
  BY DEF TypeOK, Locals, Free
<1>2. worker'[p] = [worker[p] EXCEPT !.pc = "guard", !.victim = v]
  BY Became
<1> QED BY <1>1, <1>2

(* A worker keeps its signal until it is free.                             *)
LEMMA EvaluateMoves ==
  ASSUME TypeOK, NEW p \in Workers, Evaluate(p)
  PROVE  /\ worker[p].pc # "idle"
         /\ \A q \in Workers \ {p} : worker'[q] = worker[q]
         /\ worker'[p].pc = "idle" \/ worker'[p].signal = worker[p].signal
<1>1. worker[p].pc # "idle"
  BY DEF Evaluate, CountHoldings, FindVictim, Guard, SellVictim, CommitVictim, CheckPosition,
         Buy, AwaitBuy, CancelBuy, RecoverBuy, InsertWatch
<1>2. \/ \E pc \in Busy : GoTo(p, pc)
      \/ \E v \in Holding : Become(p, [worker[p] EXCEPT !.pc = "guard", !.victim = v])
      \/ Become(p, Free)
  BY Zenon DEF Evaluate, CountHoldings, FindVictim, Guard, SellVictim, CommitVictim, CheckPosition,
           Buy, AwaitBuy, CancelBuy, RecoverBuy, InsertWatch, Busy
<1>3. PICK l : Become(p, l)
  BY <1>2 DEF GoTo
<1>4. \A q \in Workers \ {p} : worker'[q] = worker[q]
  BY <1>3, Became
<1>5. worker'[p].pc = "idle" \/ worker'[p].signal = worker[p].signal
  BY <1>1, <1>2, Freed, Went, FoundVictim
<1> QED BY <1>1, <1>4, <1>5

LEMMA EvaluateKeepsOne ==
  ASSUME TypeOK, OneEvaluation, NEW p \in Workers, Evaluate(p)
  PROVE  OneEvaluation'
BY EvaluateMoves DEF OneEvaluation, SymbolAt

(* The other workers' buys are of other symbols.                           *)
LEMMA EvaluateKeepsBuys ==
  ASSUME BuyInv, NEW p \in Workers, Evaluate(p), "api_error" \notin Faults
  PROVE  WorkingIsAwaited' /\ BuyerFoundNone' /\ OneLot'
<1> DEFINE n == worker[p].signal
<1>0. /\ TypeOK /\ worker[p].pc # "idle" /\ n \in Signals /\ SymbolAt(p) \in Symbols
      /\ \A q \in Workers \ {p} : worker'[q] = worker[q]
      /\ \A q \in Workers \ {p} :
           worker[q].pc # "idle" => SymbolAt(q) # SymbolAt(p) /\ worker[q].signal # n
      /\ worker \in [Workers -> Locals]
      /\ buys \in [Signals -> Orders] /\ lots \in [Symbols -> SUBSET Signals]
  BY EvaluateMoves, BusyWorker DEF BuyInv, OneEvaluation, SymbolAt, TypeOK
<1>1. ASSUME UNCHANGED buys, \A s \in Symbols : lots'[s] = lots[s] \/ lots'[s] = {},
             worker[p].pc \in {"await", "cancel"} =>
               buys[n] # "working" \/ (worker'[p].pc = "cancel" /\ worker'[p].signal = n),
             Buying(p)' => lots'[SymbolAt(p)] = {} /\ worker'[p].signal = n
      PROVE  WorkingIsAwaited' /\ BuyerFoundNone' /\ OneLot'
  <2>1. WorkingIsAwaited'
    BY <1>0, <1>1 DEF BuyInv, WorkingIsAwaited
  <2>2. ASSUME NEW q \in Workers, Buying(q)' PROVE lots'[SymbolAt(q)'] = {}
    <3>1. CASE q = p
      BY <1>1, <2>2, <3>1 DEF SymbolAt
    <3>2. CASE q # p
      <4>1. Buying(q) /\ SymbolAt(q)' = SymbolAt(q) /\ worker[q].pc # "idle"
        BY <1>0, <1>1, <2>2, <3>2 DEF Buying, SymbolAt
      <4>2. lots[SymbolAt(q)] = {} /\ SymbolAt(q) \in Symbols
        BY <1>0, <4>1, BusyWorker DEF BuyInv, BuyerFoundNone
      <4> QED BY <1>1, <4>1, <4>2
    <3> QED BY <3>1, <3>2
  <2>3. OneLot'
    BY <1>1 DEF BuyInv, OneLot
  <2> QED BY <2>1, <2>2, <2>3 DEF BuyerFoundNone
<1>2. CASE \/ CountHoldings(p) \/ FindVictim(p) \/ Guard(p) \/ CommitVictim(p) \/ InsertWatch(p)
           \/ RecoverBuy(p)
  <2>1. UNCHANGED <<buys, lots>> /\ worker[p].pc \notin {"await", "cancel"}
    BY <1>2 DEF CountHoldings, FindVictim, Guard, CommitVictim, InsertWatch, RecoverBuy, account, table
  <2>2. \/ \E pc \in {"guard", "victim", "position", "sell", "insert"} : GoTo(p, pc)
        \/ \E v : Become(p, [worker[p] EXCEPT !.pc = "guard", !.victim = v])
        \/ Become(p, Free)
    BY <1>2 DEF CountHoldings, FindVictim, Guard, CommitVictim, InsertWatch, RecoverBuy
  <2>3. worker'[p].pc \in {"guard", "victim", "position", "sell", "insert", "idle"}
    BY <1>0, <2>2, Freed, Went, FoundVictim DEF Busy
  <2>4. ~Buying(p)'
    BY <2>3 DEF Buying
  <2> QED BY <1>1, <2>1, <2>4
<1>3. CASE SellVictim(p)
  <2>1. /\ UNCHANGED buys /\ worker[p].pc = "sell" /\ worker'[p].pc \in {"commit", "drop", "idle"}
        /\ \A s \in Symbols : lots'[s] = lots[s] \/ lots'[s] = {}
    BY <1>0, <1>3 DEF SellVictim, GoTo, Become, Free, Locals
  <2> QED BY <1>1, <2>1 DEF Buying
<1>4. CASE CheckPosition(p)
  <2>1. UNCHANGED <<buys, lots>> /\ worker[p].pc = "position"
    BY <1>4 DEF CheckPosition, account
  <2>2. Become(p, Free) \/ (~Held(SymbolAt(p)) /\ GoTo(p, "buy"))
    BY <1>4 DEF CheckPosition, PositionAnswers, SymbolAt
  <2>3. worker'[p].pc = "idle" \/ (lots[SymbolAt(p)] = {} /\ worker'[p].signal = n)
    BY <1>0, <2>2, Freed, Went DEF Busy, Held
  <2>4. Buying(p)' => lots[SymbolAt(p)] = {} /\ worker'[p].signal = n
    BY <2>3 DEF Buying
  <2> QED BY <1>1, <2>1, <2>4
<1>5. CASE AwaitBuy(p)
  <2>1. UNCHANGED <<buys, lots>> /\ worker[p].pc = "await"
    BY <1>5 DEF AwaitBuy, account
  <2>2. \/ buys[n] # "working" /\ worker'[p].pc \in {"insert", "idle"}
        \/ buys[n] = "working" /\ worker'[p].pc = "cancel" /\ worker'[p].signal = n
    BY <1>0, <1>5 DEF AwaitBuy, GoTo, Become, Free, Locals, Orders
  <2>3. buys[n] = "working" => lots[SymbolAt(p)] = {}
    BY <2>1 DEF BuyInv, BuyerFoundNone, Buying
  <2> QED BY <1>1, <2>1, <2>2, <2>3 DEF Buying
<1>6. CASE Buy(p)
  <2>1. worker[p].pc = "buy" /\ lots' = lots /\ lots[SymbolAt(p)] = {}
    BY <1>6 DEF Buy, BuyInv, BuyerFoundNone, Buying
  <2>2. CASE buys' = buys /\ Become(p, Free)
    <3>1. worker'[p].pc = "idle"
      BY <1>0, <2>2 DEF Become, Free
    <3> QED BY <1>1, <2>1, <2>2, <3>1 DEF Buying
  <2>3. CASE buys' = [buys EXCEPT ![n] = "working"] /\ GoTo(p, "await")
    <3>1. worker'[p].pc = "await" /\ worker'[p].signal = n
      BY <1>0, <2>3 DEF GoTo, Become, Locals, Free
    <3>2. WorkingIsAwaited'
      BY <1>0, <2>1, <2>3, <3>1 DEF BuyInv, WorkingIsAwaited
    <3>3. ASSUME NEW q \in Workers, Buying(q)' PROVE lots'[SymbolAt(q)'] = {}
      <4>1. CASE q = p
        BY <2>1, <3>1, <4>1 DEF SymbolAt
      <4>2. CASE q # p
        <5>1. Buying(q) /\ SymbolAt(q)' = SymbolAt(q)
          BY <1>0, <2>3, <3>3, <4>2 DEF Buying, SymbolAt
        <5> QED BY <2>1, <5>1 DEF BuyInv, BuyerFoundNone
      <4> QED BY <4>1, <4>2
    <3>4. OneLot'
      BY <2>1 DEF BuyInv, OneLot
    <3> QED BY <3>2, <3>3, <3>4 DEF BuyerFoundNone
  <2> QED BY <1>6, <2>2, <2>3 DEF Buy
<1>7. CASE CancelBuy(p)
  <2>1. worker[p].pc = "cancel" /\ worker'[p].pc = "recover"
    BY <1>0, <1>7 DEF CancelBuy, GoTo, Become, Locals, Free
  <2>2. CASE UNCHANGED <<buys, lots>> /\ buys[n] # "working"
    BY <1>1, <2>1, <2>2 DEF Buying
  <2>3. ASSUME buys[n] = "working", NEW o \in {"dead", "partial"}, buys' = [buys EXCEPT ![n] = o],
               lots' = lots \/ lots' = [lots EXCEPT ![SymbolAt(p)] = lots[SymbolAt(p)] \cup {n}]
        PROVE  WorkingIsAwaited' /\ BuyerFoundNone' /\ OneLot'
    <3>1. lots[SymbolAt(p)] = {}
      BY <2>1, <2>3 DEF BuyInv, BuyerFoundNone, Buying
    <3>2. WorkingIsAwaited'
      BY <1>0, <2>1, <2>3 DEF BuyInv, WorkingIsAwaited
    <3>3. ASSUME NEW q \in Workers, Buying(q)' PROVE lots'[SymbolAt(q)'] = {}
      <4>1. q # p
        BY <2>1, <3>3 DEF Buying
      <4>2. Buying(q) /\ SymbolAt(q)' = SymbolAt(q) /\ SymbolAt(q) # SymbolAt(p)
        BY <1>0, <2>3, <3>3, <4>1 DEF Buying, SymbolAt
      <4>3. lots[SymbolAt(q)] = {} /\ SymbolAt(q) \in Symbols
        BY <1>0, <4>1, <4>2, BusyWorker DEF BuyInv, BuyerFoundNone, Buying
      <4>4. lots'[SymbolAt(q)] = lots[SymbolAt(q)]
        BY <1>0, <2>3, <4>2, <4>3
      <4> QED BY <4>2, <4>3, <4>4
    <3>4. OneLot'
      BY <1>0, <2>3, <3>1 DEF BuyInv, OneLot
    <3> QED BY <3>2, <3>3, <3>4 DEF BuyerFoundNone
  <2> QED BY <1>7, <2>2, <2>3 DEF CancelBuy, account, SymbolAt
<1> QED BY <1>2, <1>3, <1>4, <1>5, <1>6, <1>7 DEF Evaluate

(* What happens beside the workers: buys fill and die, positions go.       *)
LEMMA MarketKeepsBuys ==
  ASSUME BuyInv,
         \/ \E n \in Signals : FillBuy(n) \/ BuyDies(n)
         \/ \E w \in Watches : MonitorExit(w) \/ StreamExit(w) \/ Seal(w)
         \/ \E s \in Symbols : StopFills(s) \/ ReconcilePositions(s)
         \/ Reconcile \/ UNCHANGED vars
  PROVE  WorkingIsAwaited' /\ BuyerFoundNone' /\ OneLot' /\ worker' = worker
<1>0. /\ TypeOK /\ buys \in [Signals -> Orders] /\ lots \in [Symbols -> SUBSET Signals]
      /\ \A q \in Workers : worker[q].pc # "idle" =>
           worker[q].signal \in Signals /\ SymbolAt(q) \in Symbols
  BY BusyWorker DEF BuyInv, TypeOK
<1>1. ASSUME UNCHANGED <<worker, buys>>, \A s \in Symbols : lots'[s] = lots[s] \/ lots'[s] = {}
      PROVE  WorkingIsAwaited' /\ BuyerFoundNone' /\ OneLot'
  <2>1. \A q \in Workers : Buying(q)' => Buying(q) /\ SymbolAt(q)' = SymbolAt(q) /\ SymbolAt(q) \in Symbols
    BY <1>0, <1>1 DEF Buying, SymbolAt
  <2> QED BY <1>1, <2>1 DEF BuyInv, WorkingIsAwaited, BuyerFoundNone, OneLot
<1>2. ASSUME NEW n \in Signals, FillBuy(n)
      PROVE  WorkingIsAwaited' /\ BuyerFoundNone' /\ OneLot' /\ worker' = worker
  <2>1. /\ buys[n] = "working" /\ buys' = [buys EXCEPT ![n] = "filled"] /\ worker' = worker
        /\ lots' = [lots EXCEPT ![SymbolOf[n]] = lots[SymbolOf[n]] \cup {n}]
    BY <1>2 DEF FillBuy
  <2>2. PICK p \in Workers : Buying(p) /\ worker[p].signal = n /\ worker[p].pc # "buy"
    BY <2>1 DEF BuyInv, WorkingIsAwaited, Buying
  <2>3. lots[SymbolOf[n]] = {}
    BY <2>2 DEF BuyInv, BuyerFoundNone, SymbolAt
  <2>4. ASSUME NEW q \in Workers, Buying(q)' PROVE lots'[SymbolAt(q)'] = {}
    <3>1. Buying(q) /\ SymbolAt(q)' = SymbolAt(q)
      BY <1>0, <2>1, <2>4 DEF Buying, SymbolAt
    <3>2. q # p
      <4>1. n \in Signals /\ buys'[n] = "filled"
        BY <1>0, <2>1
      <4> QED BY <2>1, <2>2, <2>4, <4>1 DEF Buying
    <3>3. SymbolAt(q) # SymbolOf[n]
      BY <2>2, <3>1, <3>2 DEF BuyInv, OneEvaluation, Buying, SymbolAt
    <3> QED BY <1>0, <2>1, <3>1, <3>3 DEF BuyInv, BuyerFoundNone, Buying
  <2>5. WorkingIsAwaited'
    BY <1>0, <2>1 DEF BuyInv, WorkingIsAwaited
  <2>6. OneLot'
    BY <1>0, <2>1, <2>3 DEF BuyInv, OneLot
  <2> QED BY <2>1, <2>4, <2>5, <2>6 DEF BuyerFoundNone
<1>3. ASSUME NEW n \in Signals, BuyDies(n)
      PROVE  WorkingIsAwaited' /\ BuyerFoundNone' /\ OneLot' /\ worker' = worker
  <2>1. buys' = [buys EXCEPT ![n] = "dead"] /\ worker' = worker /\ lots' = lots
    BY <1>3 DEF BuyDies
  <2>2. \A q \in Workers : Buying(q)' => Buying(q) /\ SymbolAt(q)' = SymbolAt(q)
    BY <1>0, <2>1 DEF Buying, SymbolAt
  <2> QED BY <1>0, <2>1, <2>2 DEF BuyInv, WorkingIsAwaited, BuyerFoundNone, OneLot
<1>4. ASSUME \/ \E w \in Watches : MonitorExit(w) \/ StreamExit(w) \/ Seal(w)
             \/ \E s \in Symbols : StopFills(s) \/ ReconcilePositions(s)
             \/ Reconcile \/ UNCHANGED vars
      PROVE  /\ UNCHANGED <<worker, buys>>
             /\ \A s \in Symbols : lots'[s] = lots[s] \/ lots'[s] = {}
  BY <1>0, <1>4 DEF MonitorExit, StreamExit, Seal, StopFills, ReconcilePositions, Reconcile,
     ReconcileListed, ReconcileSold, ReconcileMissing, ReconcileOrders, ReconcileAdopt, vars, account
<1> QED BY <1>1, <1>2, <1>3, <1>4

LEMMA NextKeepsBuys ==
  ASSUME BuyInv, [Next]_vars, Faults = {}, MaxCrashes = 0
  PROVE  BuyInv'
<1>1. TypeOK /\ TypeOK'
  BY NextTyped DEF BuyInv
<1>2. ASSUME NEW p \in Workers, Evaluate(p) PROVE BuyInv'
  BY <1>1, <1>2, EvaluateKeepsOne, EvaluateKeepsBuys DEF BuyInv
<1>3. ASSUME NEW p \in Workers, NEW n \in Signals, Begin(p, n) PROVE BuyInv'
  <2>1. /\ worker[p].pc = "idle" /\ ~Evaluating(SymbolOf[n])
        /\ worker' = [worker EXCEPT ![p] = [pc |-> "count", signal |-> n, victim |-> None]]
        /\ UNCHANGED <<buys, lots>>
    BY <1>3 DEF Begin, Become, account
  <2>2. /\ worker'[p].pc = "count" /\ worker'[p].signal = n
        /\ \A q \in Workers \ {p} : worker'[q] = worker[q]
    BY <1>1, <2>1 DEF TypeOK
  <2>3. OneEvaluation'
    BY <2>1, <2>2 DEF BuyInv, OneEvaluation, Evaluating, SymbolAt
  <2>4. WorkingIsAwaited' /\ OneLot'
    BY <2>1, <2>2 DEF BuyInv, WorkingIsAwaited, OneLot
  <2>5. \A q \in Workers : Buying(q)' => Buying(q) /\ SymbolAt(q)' = SymbolAt(q)
    BY <2>1, <2>2 DEF Buying, SymbolAt
  <2> QED BY <1>1, <2>1, <2>3, <2>4, <2>5 DEF BuyInv, BuyerFoundNone
<1>4. ~Crash
  BY <1>1 DEF Crash, TypeOK
<1>5. CASE \/ \E n \in Signals : FillBuy(n) \/ BuyDies(n)
           \/ \E w \in Watches : MonitorExit(w) \/ StreamExit(w) \/ Seal(w)
           \/ \E s \in Symbols : StopFills(s) \/ ReconcilePositions(s)
           \/ Reconcile \/ UNCHANGED vars
  <2>1. WorkingIsAwaited' /\ BuyerFoundNone' /\ OneLot' /\ worker' = worker
    BY <1>5, MarketKeepsBuys
  <2> QED BY <1>1, <2>1 DEF BuyInv, OneEvaluation, SymbolAt
<1> QED BY <1>2, <1>3, <1>4, <1>5 DEF Next

(* No symbol is bought twice, where every call answers, no two workers     *)
(* evaluate a symbol at once and the program runs on: the position check   *)
(* and the cancelling of a buy that timed out leave no second buy, however *)
(* exits, reconcile and fills fall in with the evaluation                  *)
(* (_evaluate_for_config, _resolve_buy_after_timeout).                     *)
THEOREM NoSymbolBoughtTwice ==
  ASSUME Faults = {}, MaxCrashes = 0
  PROVE  Spec => []NoDoubleBuy
<1>1. BuyInv => NoDoubleBuy
  <2> SUFFICES ASSUME BuyInv, NEW s \in Symbols PROVE Cardinality(lots[s]) <= 1
    BY DEF NoDoubleBuy
  <2>1. lots[s] = {} \/ \E n \in lots[s] : lots[s] = {n}
    BY DEF BuyInv, OneLot
  <2>2. CASE lots[s] = {}
    BY <2>2, FS_EmptySet
  <2>3. CASE \E n \in lots[s] : lots[s] = {n}
    BY <2>3, FS_Singleton
  <2> QED BY <2>1, <2>2, <2>3
<1>2. BuyInv /\ [Next]_vars => BuyInv'
  BY NextKeepsBuys
<1> QED BY <1>1, <1>2, InitBuys, PTL DEF Spec
=============================================================================
