-------------------------------- MODULE TickVdd --------------------------------
(***************************************************************************)
(* The volume-delta divergence exit on ticks (tick_collector/vdd.py): the  *)
(* trades of the last minutes in buckets, thin ones left out; a signal if   *)
(* the close is no lower than the closes of the lookback while the volume   *)
(* of the upticks less that of the downticks has gone down.  The monitor    *)
(* asks on a window that begins in the middle of a bucket                   *)
(* (live_monitor.py:212), and falls back to bars when it has no pool.       *)
(***************************************************************************)
EXTENDS Integers, Sequences, FiniteSets, FiniteSetsExt

CONSTANTS Prices, Sizes,
          Quotes,         \* the price above (1) or below (-1) the midpoint, or neither (0)
          Width,          \* ticks of a bucket
          Lookback,       \* buckets
          Slack,          \* ticks by which the window exceeds the lookback
          MinTrades, Modes, MaxTicks

VARIABLES mode,
          tick,      \* the time
          trades,    \* the trades table of the symbol, oldest first
          pool,      \* the monitor's connection: none, alive or dead
          answer     \* what the last check returned: None is no answer

vddVars == <<mode, tick, trades, pool, answer>>

Init == /\ mode \in Modes /\ tick = 0 /\ trades = <<>> /\ pool = "none" /\ answer = "none"

(* Lee-Ready, or the tick rule where the quote does not tell.               *)
TickRule(p) == IF trades = <<>> \/ p = trades[Len(trades)].price THEN 0
               ELSE IF p > trades[Len(trades)].price THEN 1 ELSE -1

Classify(p, quote) == IF quote # 0 THEN quote ELSE TickRule(p)

Trade(p, size, quote) ==
  /\ trades' = Append(trades, [at |-> tick, price |-> p, size |-> size, dir |-> Classify(p, quote)])
  /\ tick < MaxTicks /\ tick' = tick + 1 /\ answer' = "none"
  /\ UNCHANGED <<mode, pool>>

Quiet == /\ tick < MaxTicks /\ tick' = tick + 1 /\ answer' = "none"
         /\ UNCHANGED <<mode, trades, pool>>

(***************************************************************************)
(* get_vdd_bars, on the rows I of the trades table.  A bar is named by its  *)
(* bucket.                                                                  *)
(***************************************************************************)
All == DOMAIN trades

Window == {i \in All : trades[i].at >= tick - (Lookback * Width + Slack)}

Bucket(i) == trades[i].at \div Width

Bucketed(I) == {Bucket(i) : i \in I}

BarOf(I, b) == {i \in I : Bucket(i) = b}

Close(I, b) == trades[Max(BarOf(I, b))].price

Volume(own) == MapThenSumSet(LAMBDA i : trades[i].size, own)

Sized(own, dir) == Volume({i \in own : trades[i].dir = dir})

Thick(own) == Cardinality(own) >= MinTrades

Bars(I) == {b \in Bucketed(I) : Thick(BarOf(I, b))}

(* The direction of the last change of the close, up to bar b.              *)
CloseMove(I, b) ==
  LET before(c) == Max({p \in Bars(I) : p < c})
      moves == {c \in Bars(I) : /\ c <= b /\ \E p \in Bars(I) : p < c
                                /\ Close(I, c) # Close(I, before(c))}
  IN IF moves = {} THEN 0
     ELSE IF Close(I, Max(moves)) > Close(I, before(Max(moves))) THEN 1 ELSE -1

(* The share of a bar's volume that went up less the one that went down, in *)
(* sixths, in which shares of up to three are exact.                        *)
Delta(I, b) ==
  LET own  == BarOf(I, b)
      up   == Sized(own, 1)
      down == Sized(own, -1)
  IN CASE mode = "visible_only" -> up - down
       [] mode = "bar_binary" -> Volume(own) * CloseMove(I, b)
       [] OTHER -> IF up + down > 0 THEN (6 * Volume(own) * (up - down)) \div (up + down) ELSE 0

CumDelta(I, b) == MapThenSumSet(LAMBDA c : Delta(I, c), {c \in Bars(I) : c <= b})

(* The bar from which the last one looks Lookback bars back, if there is.   *)
IsLag(I, lag) == lag \in Bars(I) /\ Cardinality({b \in Bars(I) : b > lag}) = Lookback

(* The last close is no lower than the closes from the lag on.              *)
HoldsUp(I, lag) == \A b \in Bars(I) : b >= lag => Close(I, Max(Bars(I))) >= Close(I, b)

(* Mutant: the whole sum has gone down.                                     *)
SignalOfSum(I) ==
  \E lag \in Bars(I) : IsLag(I, lag) /\ HoldsUp(I, lag) /\ CumDelta(I, Max(Bars(I))) < 0

(* compute_vdd_signal, on the last bar.                                     *)
Signal(I) ==
  \E lag \in Bars(I) : /\ IsLag(I, lag) /\ HoldsUp(I, lag)
                       /\ CumDelta(I, Max(Bars(I))) < CumDelta(I, lag)

(* get_pool gives a live connection or replaces a dead one, or fails.       *)
Check(connects) ==
  /\ answer = "none" /\ (pool = "alive" => connects)
  /\ pool' = IF connects THEN "alive" ELSE "none"
  /\ answer' = IF ~connects THEN "fallback" ELSE IF Signal(Window) THEN "exit" ELSE "hold"
  /\ UNCHANGED <<mode, tick, trades>>

(* The query itself may fail.                                               *)
CheckFails == /\ answer = "none" /\ answer' = "fallback" /\ pool' = "alive"
              /\ UNCHANGED <<mode, tick, trades>>

PoolDies == /\ pool = "alive" /\ pool' = "dead" /\ UNCHANGED <<mode, tick, trades, answer>>

Next == \/ \E p \in Prices, s \in Sizes, q \in Quotes : Trade(p, s, q)
        \/ Quiet \/ PoolDies \/ CheckFails \/ \E c \in BOOLEAN : Check(c)

Spec == Init /\ [][Next]_vddVars

(* The window decides as the whole history would, where it has enough bars: *)
(* although it cuts a bucket in two and its sums begin elsewhere.  With      *)
(* bar_binary it does not, since a bar without a move takes its direction   *)
(* from the bars before it.                                                 *)
WindowDecides ==
  answer \in {"exit", "hold"} /\ mode # "bar_binary" =>
    (answer = "exit") = (Cardinality(Bars(Window)) > Lookback /\ Signal(All))
================================================================================
