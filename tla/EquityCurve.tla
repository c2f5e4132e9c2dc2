------------------------------ MODULE EquityCurve ------------------------------
(***************************************************************************)
(* The equity curve of a simulated portfolio: rows that the live monitor   *)
(* adds from the watches as they are (_snapshot_equity), that the dashboard *)
(* replaces by a replay of their entries and exits (backfill_portfolio),   *)
(* and that an operator's script recomputes in place                       *)
(* (backfill_equity_full.py).  All three read first and write later.       *)
(* A minute passes with each trade and with each move of a price.          *)
(***************************************************************************)
EXTENDS Integers, FiniteSets, FiniteSetsExt

CONSTANTS Watches, Symbols, SymbolOf,
          DirectionOf,           \* 1 for bullish, -1 for bearish
          Prices, PosSize, Slots, Start,
          Recent,                \* watches the monitor reads
          Answers,               \* sets of symbols for which prices can be known
          MaxTime, MaxLive       \* minutes, and live rows at a time

VARIABLES now,
          close,   \* the minute closes of each symbol so far
          watch,   \* the watches table: a watch never bought has the time 0
          view,    \* the monitor's snapshot in progress: watches, and when read
          tool,    \* the backfill or script in progress: what it has read
          rows     \* portfolio_equity_snapshots

equityVars == <<now, close, watch, view, tool, rows>>

Idle == [task |-> "none"]
Absent == [status |-> "none", price |-> 0, bought |-> 0, sold |-> 0, pnl |-> 0]

Init == /\ now = 0
        /\ \E p \in Prices : close = [s \in Symbols |-> [t \in {0} |-> p]]
        /\ watch = [w \in Watches |-> Absent]
        /\ view = Idle /\ tool = Idle /\ rows = {}

Holding == {w \in Watches : watch[w].status = "holding"}

(* Direction-aware P&L of a fixed position, in dollars.                     *)
PctPnl(w, entry, price) == DirectionOf[w] * ((PosSize * (price - entry)) \div entry)

PassMinute(new) ==
  /\ now < MaxTime /\ now' = now + 1
  /\ close' = [s \in Symbols |-> [t \in 0..(now + 1) |-> IF t <= now THEN close[s][t] ELSE new[s]]]

Still == [s \in Symbols |-> close[s][now]]

Move(s) == /\ \E p \in Prices \ {close[s][now]} : PassMinute([Still EXCEPT ![s] = p])
           /\ UNCHANGED <<watch, view, tool, rows>>

Buy(w) == /\ watch[w].status = "none" /\ Cardinality(Holding) < Slots
          /\ \A v \in Holding : SymbolOf[v] # SymbolOf[w]
          /\ PassMinute(Still)
          /\ watch' = [watch EXCEPT ![w] = [@ EXCEPT !.status = "holding",
                                            !.price = Still[SymbolOf[w]], !.bought = now + 1]]
          /\ UNCHANGED <<view, tool, rows>>

Sell(w) == /\ watch[w].status = "holding" /\ PassMinute(Still)
           /\ watch' = [watch EXCEPT ![w] = [@ EXCEPT !.status = "exited", !.sold = now + 1,
                                             !.pnl = PctPnl(w, watch[w].price, Still[SymbolOf[w]])]]
           /\ UNCHANGED <<view, tool, rows>>

Age(w) == /\ \/ watch[w].status = "exited" /\ watch' = [watch EXCEPT ![w].status = "cooling_off"]
             \/ watch[w].status = "cooling_off" /\ watch' = [watch EXCEPT ![w].status = "sealed"]
          /\ UNCHANGED <<now, close, view, tool, rows>>

(***************************************************************************)
(* Valuation by status, and by replay.                                      *)
(***************************************************************************)
Row(src, by, at, held, real, known, unreal) ==
  [src |-> src, by |-> by, at |-> at, count |-> Cardinality(held), real |-> real,
   cash |-> Start - Cardinality(held) * PosSize + real, unreal |-> unreal,
   equity |-> Start + real + unreal, known |-> known]

PnlOf(table, ws) == MapThenSumSet(LAMBDA w : table[w].pnl, ws)

MarkedToMarket(table, ws, t) ==
  MapThenSumSet(LAMBDA w : PctPnl(w, table[w].price, close[SymbolOf[w]][t]), ws)

(* Mutant: a position that cools off is not counted.                        *)
CountedBeside(table, ws) == {w \in ws : table[w].status \in {"exited", "sealed"}}

(* summarize_sim_portfolio: what a status counts as.                        *)
Counted(table, ws) == {w \in ws : table[w].status \in {"exited", "cooling_off", "sealed"}}

(* The newest watches, as get_all_watches returns them with a limit.        *)
Newest(table) ==
  {w \in Watches : /\ table[w].status # "none"
                   /\ Cardinality({v \in Watches : table[v].bought > table[w].bought}) < Recent}

SnapshotRead == /\ view.task = "none"
                /\ Cardinality({r \in rows : r.src = "live"}) < MaxLive
                /\ view' = [task |-> "mark", at |-> now, watch |-> watch]
                /\ UNCHANGED <<now, close, watch, tool, rows>>

(* Every symbol held must have a mark, or the row is left out: a missing    *)
(* one would look like a loss.                                              *)
EveryHoldingPriced(held, known) ==
  Cardinality({w \in held : SymbolOf[w] \in known}) >= Cardinality({SymbolOf[w] : w \in held})

SnapshotWrite ==
  /\ view.task = "mark"
  /\ LET table == view.watch
         seen  == Newest(table)
         held  == {w \in seen : table[w].status = "holding"}
     IN \E known \in Answers :
          IF EveryHoldingPriced(held, known)
          THEN rows' = rows \cup
                 {Row("live", "live", view.at, held, PnlOf(table, Counted(table, seen)), known,
                      MarkedToMarket(table, {w \in held : SymbolOf[w] \in known}, now))}
          ELSE rows' = rows
  /\ view' = Idle /\ UNCHANGED <<now, close, watch, tool>>

(* The replay: what was held and closed at a time.                          *)
HeldAt(table, t) == {w \in Watches : table[w].bought \in 1..t
                                     /\ (table[w].sold = 0 \/ table[w].sold > t)}
ClosedAt(table, t) == {w \in Watches : table[w].sold \in 1..t}

Replay(src, by, table, t, known, unreal) ==
  Row(src, by, t, HeldAt(table, t), PnlOf(table, ClosedAt(table, t)), known, unreal)

ToolRead(task) == /\ tool.task = "none"
                  /\ tool' = [task |-> task, watch |-> watch, rows |-> rows]
                  /\ UNCHANGED <<now, close, watch, view, rows>>

(* backfill_portfolio starts with a row of the config's creation, takes     *)
(* every watch for bullish, counts a symbol that has no price at its cost,  *)
(* and replaces the rows of its own source only.                            *)
EventTimes(table) ==
  {0} \cup {table[w].bought : w \in Watches} \cup {table[w].sold : w \in Watches}

BackfillWrite ==
  /\ tool.task = "backfill"
  /\ LET table == tool.watch
         Bullish(ws, t) == MapThenSumSet(
           LAMBDA w : (PosSize * (close[SymbolOf[w]][t] - table[w].price)) \div table[w].price, ws)
     IN \E known \in Answers :
          rows' = {r \in rows : r.src # "backfill"} \cup
                  {Replay("backfill", "backfill", table, t, known,
                          Bullish({w \in HeldAt(table, t) : SymbolOf[w] \in known}, t))
                     : t \in EventTimes(table)}
  /\ tool' = Idle /\ UNCHANGED <<now, close, watch, view>>

(* The script recomputes the rows it has read, those whose equity or        *)
(* unrealised P&L differ, with the candles it could fetch.                  *)
RebuildWrite ==
  /\ tool.task = "rebuild"
  /\ LET table == tool.watch
         Anew(r, known) == Replay(r.src, "rebuild", table, r.at, known,
           MarkedToMarket(table, {w \in HeldAt(table, r.at) : SymbolOf[w] \in known}, r.at))
         Differs(r, n) == r.equity # n.equity \/ r.unreal # n.unreal
     IN \E known \in Answers :
          rows' = {IF r \in tool.rows /\ Differs(r, Anew(r, known)) THEN Anew(r, known) ELSE r
                     : r \in rows}
  /\ tool' = Idle /\ UNCHANGED <<now, close, watch, view>>

Next == \/ \E s \in Symbols : Move(s)
        \/ \E w \in Watches : Buy(w) \/ Sell(w) \/ Age(w)
        \/ SnapshotRead \/ SnapshotWrite
        \/ ToolRead("backfill") \/ ToolRead("rebuild") \/ BackfillWrite \/ RebuildWrite

Spec == Init /\ [][Next]_equityVars

(* Whoever wrote it, and whatever was traded meanwhile, a row says what the *)
(* portfolio held and had earned at its time; its unrealised P&L is that of *)
(* the prices its writer knew: all of those held for the monitor, at a      *)
(* price of its time or later.  Backfills ignore that a watch is bearish    *)
(* (equity_backfill.py:165), and the monitor forgets all but the newest     *)
(* watches (live_monitor.py:1606).                                          *)
RowsTrue ==
  \A r \in rows :
    LET held == HeldAt(watch, r.at)
        bought == {w \in Watches : watch[w].bought \in 1..r.at}
        marked == {w \in held : SymbolOf[w] \in r.known}
    IN \/ r.by = "live" /\ Cardinality(bought) > Recent
       \/ /\ r.count = Cardinality(held) /\ r.real = PnlOf(watch, ClosedAt(watch, r.at))
          /\ r.cash + PosSize * r.count + r.unreal = r.equity
          /\ r.by = "live" => marked = held
          /\ \/ r.by = "backfill" /\ \E w \in held : DirectionOf[w] = -1
             \/ \E t \in r.at..(IF r.by = "live" THEN now ELSE r.at) :
                  r.unreal = MarkedToMarket(watch, marked, t)
================================================================================
