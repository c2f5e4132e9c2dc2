---------------------------- MODULE BacktestExits ----------------------------
(***************************************************************************)
(* When a strategy exits.  The runners of backtest.py decide it from all   *)
(* the bars there are, the live monitor from the bars so far, again in     *)
(* every cycle and with indicators it keeps; a backtest keeps its results  *)
(* on disk.  Bars arrive one by one, and the last may be in progress: it   *)
(* widens and its close moves until the next one starts.  A bar is what    *)
(* the strategies tell apart: how low and how high it goes, and whether    *)
(* the strategy's indicator signals at its close.  The price of an exit    *)
(* follows from its bar and its reason.                                    *)
(***************************************************************************)
EXTENDS Integers, Sequences, FiniteSetsExt

CONSTANTS Bars,     \* what a bar may be: low, high, signal
          MaxLen,   \* bound: bars
          Plans,    \* strategy, and are there a guard and a trailing guard
          MinHold, Lookback, MaxBars,
          Entry, Stop, Target, GuardStop, GuardTarget, Trail   \* prices

VARIABLES plan,    \* the strategy and the guards of the watch
          bars,    \* from the entry bar on
          cached,  \* the monitor's indicator cache: bars it was made from, signals
          live,    \* what the monitor's last cycle found, on how many bars
          stored   \* the result cache of the backtest, likewise

vars == <<plan, bars, cached, live, stored>>

NoCache  == [len |-> 0, signals |-> <<>>]
NoResult == [result |-> [at |-> 0, why |-> "none"], len |-> 0]

Init ==
  /\ plan \in Plans
  /\ bars \in {<<b>> : b \in Bars}
  /\ cached = NoCache
  /\ live = NoResult /\ stored = NoResult

Signals(b) == [i \in 1 .. Len(b) |-> b[i].signal]

(* The high-water mark since the strategy runs, from the entry price up.   *)
Peak(b, s, i) == Max({Entry} \cup {b[j].high : j \in s .. i})

TrailHit(b, s, i) == b[i].low <= Peak(b, s, i) - Trail

LevelHit(b, i) ==
  \/ plan.strategy \in {"fixed_stop_loss", "risk_reward_target"} /\ b[i].low <= Stop
  \/ plan.strategy \in {"fixed_take_profit", "risk_reward_target"} /\ b[i].high >= Target

(* A moving average, oscillator or flow has turned, on the closes so far.  *)
SignalHit(signals, i) == i <= Len(signals) /\ signals[i]

DivergenceHit(signals, s, i) == i >= s + Lookback /\ SignalHit(signals, i)

TimeHit(s, i) == i = s + MaxBars

(* The reasons for which the strategy's runner, started at s, exits at i.  *)
StrategyHit(b, signals, s, i) ==
  CASE plan.strategy = "trailing_stop"           -> TrailHit(b, s, i)
    [] plan.strategy = "indicator"               -> SignalHit(signals, i)
    [] plan.strategy = "volume_delta_divergence" -> DivergenceHit(signals, s, i)
    [] plan.strategy = "max_holding_period"      -> TimeHit(s, i)
    [] OTHER                                     -> LevelHit(b, i)

StrategyReason(b, i) ==
  CASE plan.strategy \in {"fixed_stop_loss", "trailing_stop"} -> "stop"
    [] plan.strategy = "fixed_take_profit"  -> "target"
    [] plan.strategy = "risk_reward_target" -> IF b[i].low <= Stop THEN "stop" ELSE "target"
    [] plan.strategy = "max_holding_period" -> "time"
    [] OTHER                                -> "signal"

GuardHit(b, i) == plan.guard /\ (b[i].low <= GuardStop \/ b[i].high >= GuardTarget)

GuardReason(b, i) == IF b[i].low <= GuardStop THEN "guard_stop" ELSE "guard_target"

(* With fewer bars than min_hold, the strategy looks at the last one.      *)
RunFrom(b) == Min({1 + MinHold, Len(b)})

StillOpen(b) == [at |-> Len(b), why |-> "still_open"]

(* A runner: the first bar on which a guard or the strategy is hit; on the *)
(* same bar the guard decides, and of two levels the lower.                *)
Runner(b, signals) ==
  LET s    == RunFrom(b)
      hits == {i \in s .. Len(b) : GuardHit(b, i) \/ StrategyHit(b, signals, s, i)}
      i    == Min(hits)
  IN IF hits = {} THEN StillOpen(b)
     ELSE [at |-> i, why |-> IF GuardHit(b, i) THEN GuardReason(b, i) ELSE StrategyReason(b, i)]

(* entry_idx + bars_held - 1 with the bars_held of the runner, which for a *)
(* time exit does not count the exit bar.                                  *)
RunnerBar(r) == IF r.why = "time" THEN r.at - 1 ELSE r.at

(* Mutant: a trailing guard hit at any time decides.                       *)
TrailFirstAlways(r, t) == TRUE

TrailFirst(r, t) == r.why = "still_open" \/ t <= RunnerBar(r)

(* evaluate_exit, and the same steps of _evaluate_symbol_entries.          *)
EvaluateExit(b, signals) ==
  LET s     == RunFrom(b)
      r     == Runner(b, signals)
      trail == {i \in s .. Len(b) : plan.trail /\ TrailHit(b, s, i)}
  IN IF trail # {} /\ TrailFirst(r, Min(trail))
       THEN [at |-> Min(trail), why |-> "guard_trail"]
       ELSE r

(* A new bar starts; the one in progress widens.                           *)
NewBar ==
  /\ Len(bars) < MaxLen
  /\ \E b \in Bars : bars' = Append(bars, b)
  /\ UNCHANGED <<plan, cached, live, stored>>

BarGrows ==
  /\ \E b \in Bars :
       /\ b.low <= bars[Len(bars)].low /\ b.high >= bars[Len(bars)].high
       /\ bars' = [bars EXCEPT ![Len(bars)] = b]
  /\ UNCHANGED <<plan, cached, live, stored>>

(* Mutant: what was computed once is used for all later bars.              *)
IndicatorsForEver == IF cached # NoCache THEN cached
                     ELSE [len |-> Len(bars), signals |-> Signals(bars)]

(* The cache is cleared when the number of bars has changed.               *)
Indicators == IF cached.len = Len(bars) THEN cached
              ELSE [len |-> Len(bars), signals |-> Signals(bars)]

(* A cycle of the live exit monitor.                                       *)
LiveCycle ==
  /\ live.result.why \in {"none", "still_open"}
  /\ LET r == EvaluateExit(bars, Indicators.signals) IN
       /\ live' = [result |-> r, len |-> Len(bars)]
       /\ cached' = IF r.why = "still_open" THEN Indicators ELSE NoCache
  /\ UNCHANGED <<plan, bars, stored>>

(* _can_short_circuit_backtest_cache and _is_backtest_cache_valid: a closed*)
(* result is reused for ever, an open one until there is another bar.      *)
CacheValid ==
  /\ stored # NoResult
  /\ stored.result.why = "still_open" => stored.len = Len(bars)

Backtest ==
  /\ ~CacheValid
  /\ stored' = [result |-> EvaluateExit(bars, Signals(bars)), len |-> Len(bars)]
  /\ UNCHANGED <<plan, bars, cached, live>>

Next == NewBar \/ BarGrows \/ LiveCycle \/ Backtest

Spec == Init /\ [][Next]_vars

-----------------------------------------------------------------------------
Fresh == EvaluateExit(bars, Signals(bars))

(* A decision on a bar that was complete, made when min_hold was over.     *)
Settled(d) == d # NoResult /\ d.result.at < d.len /\ d.len >= 1 + MinHold

(* What the monitor decided on the bars so far, and what a backtest has    *)
(* stored, is what a backtest of all the bars says, however many come:     *)
(* guards, strategy and trailing guard are merged the same way at every    *)
(* length.                                                                 *)
DecisionsStand == \A d \in {live, stored} : Settled(d) => d.result = Fresh

(* A cycle that does not exit has missed nothing on the bars that were     *)
(* complete: indicators kept from the last cycle can be wrong about the    *)
(* bar in progress only.                                                   *)
NoMissedExit ==
  live.result.why = "still_open" /\ live.len > 1 + MinHold
    => LET complete == SubSeq(bars, 1, live.len - 1)
       IN EvaluateExit(complete, Signals(complete)).why = "still_open"
=============================================================================
