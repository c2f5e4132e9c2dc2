------------------------------ MODULE ShadowVolume -----------------------------
(***************************************************************************)
(* One symbol's volume by the direction of its ticks                       *)
(* (market/volume_delta_shadow.py), fed by Schwab's level-one stream, kept  *)
(* in minute bars that are appended to a log as they close and recovered    *)
(* from it when the process starts again.  The log is one file per UTC day; *)
(* the exchange's running total starts anew at another time.                *)
(***************************************************************************)
EXTENDS Integers, Sequences, SequencesExt, FiniteSetsExt

CONSTANTS Prices, None,
          MaxVolume, MaxMinute, MaxDay, MaxRestarts, MaxResets

VARIABLES minute, day,       \* the clock, and the UTC date of the log
          price, total,      \* what the exchange says
          traded,            \* everything that was traded
          active, acc,       \* the collector, and its accumulator of the symbol
          log,               \* the JSONL file of each day
          saved,             \* the summary that save_daily writes
          restarts, resets

shadowVars == <<minute, day, price, total, traded, active, acc, log, saved, restarts, resets>>

Init == /\ minute = 0 /\ day = 0 /\ price \in Prices /\ total = 0 /\ traded = 0
        /\ active = FALSE /\ acc = None /\ log = [d \in 0..MaxDay |-> <<>>] /\ saved = <<>>
        /\ restarts = 0 /\ resets = 0

Fresh(bars) == [prev |-> None, seen |-> 0, dir |-> 0, up |-> 0, down |-> 0, zero |-> 0,
                bars |-> bars, recovered |-> Len(bars),
                start |-> 0, vol |-> 0, minUp |-> 0, minDown |-> 0]

(* on_update: the first update sets the start; later ones are classified by *)
(* the tick rule, an unchanged price going on in the last direction.        *)
Count(a, dv, dir) ==
  [a EXCEPT !.dir = dir, !.vol = @ + dv,
            !.up = @ + (IF dir > 0 THEN dv ELSE 0), !.minUp = @ + (IF dir > 0 THEN dv ELSE 0),
            !.down = @ + (IF dir < 0 THEN dv ELSE 0), !.minDown = @ + (IF dir < 0 THEN dv ELSE 0),
            !.zero = @ + (IF dir = 0 THEN dv ELSE 0)]

Direction(a, p) == IF p > a.prev THEN 1 ELSE IF p < a.prev THEN -1 ELSE a.dir

Bar(a) == [t |-> a.start, v |-> a.vol, up |-> a.minUp, down |-> a.minDown]

(* A bar closes with the first tick of a later minute, which it includes;  *)
(* without volume it stays open.                                            *)
Closes(a) == minute > a.start /\ a.vol > 0

(* Mutant: the minute's volume goes on.                                     *)
NewMinuteOnTop(a) == [a EXCEPT !.bars = Append(@, Bar(a)), !.start = minute]

NewMinute(a) == [a EXCEPT !.bars = Append(@, Bar(a)), !.start = minute,
                          !.vol = 0, !.minUp = 0, !.minDown = 0]

(* A bar is in memory before it is appended to the log, and an append that  *)
(* fails is logged and forgotten (_append_bar_to_log).                      *)
OnUpdate(p, vol) ==
  IF acc.prev = None
  THEN /\ acc' = [acc EXCEPT !.prev = p, !.seen = vol, !.start = minute]
       /\ UNCHANGED log
  ELSE LET a == Count(acc, Max({0, vol - acc.seen}), Direction(acc, p))
       IN /\ acc' = [(IF Closes(a) THEN NewMinute(a) ELSE a) EXCEPT !.prev = p, !.seen = vol]
          /\ \/ Closes(a) /\ log' = [log EXCEPT ![day] = Append(@, Bar(a))]
             \/ UNCHANGED log

(* A trade, and the message of it: an unchanged price may be left out, and  *)
(* then the collector is not told.                                          *)
Trade(p) ==
  /\ traded < MaxVolume
  /\ price' = p /\ total' = total + 1 /\ traded' = traded + 1
  /\ \/ /\ active /\ acc # None /\ OnUpdate(p, total + 1)
     \/ /\ p = price \/ ~active \/ acc = None
        /\ UNCHANGED <<acc, log>>
  /\ UNCHANGED <<minute, day, active, saved, restarts, resets>>

MinutePasses == /\ minute < MaxMinute /\ minute' = minute + 1
                /\ UNCHANGED <<day, price, total, traded, active, acc, log, saved, restarts, resets>>

(* Midnight in UTC.                                                         *)
DayPasses == /\ day < MaxDay /\ day' = day + 1
             /\ UNCHANGED <<minute, price, total, traded, active, acc, log, saved, restarts, resets>>

(* The exchange's total starts anew.                                        *)
TotalResets == /\ resets < MaxResets /\ resets' = resets + 1 /\ total' = 0
               /\ UNCHANGED <<minute, day, price, traded, active, acc, log, saved, restarts>>

StartCollector == /\ ~active /\ active' = TRUE
                  /\ UNCHANGED <<minute, day, price, total, traded, acc, log, saved, restarts, resets>>

StopCollector == /\ active /\ active' = FALSE
                 /\ UNCHANGED <<minute, day, price, total, traded, acc, log, saved, restarts, resets>>

(* A log that cannot be read counts as empty (_load_bars_from_log).         *)
(* Removing a symbol changes nothing: it goes on being counted.             *)
AddSymbol == /\ acc = None
             /\ \E bars \in {log[day], <<>>} : acc' = Fresh(bars)
             /\ UNCHANGED <<minute, day, price, total, traded, active, log, saved, restarts, resets>>

(* reset, reset_symbol, reset_all: nothing calls them so far.               *)
Reset == /\ acc # None /\ acc' = Fresh(<<>>)
         /\ UNCHANGED <<minute, day, price, total, traded, active, log, saved, restarts, resets>>

SaveDaily == /\ acc # None /\ saved # acc.bars /\ saved' = acc.bars
             /\ UNCHANGED <<minute, day, price, total, traded, active, acc, log, restarts, resets>>

Restart == /\ restarts < MaxRestarts /\ restarts' = restarts + 1
           /\ active' = FALSE /\ acc' = None
           /\ UNCHANGED <<minute, day, price, total, traded, log, saved, resets>>

Next == \/ \E p \in Prices : Trade(p)
        \/ MinutePasses \/ DayPasses \/ TotalResets
        \/ StartCollector \/ StopCollector \/ AddSymbol \/ Reset
        \/ SaveDaily \/ Restart

Spec == Init /\ [][Next]_shadowVars

VolumeOf(bars) == FoldSeq(LAMBDA b, sum : b.v + sum, 0, bars)

Logged == MapThenSumSet(LAMBDA d : VolumeOf(log[d]), 0..MaxDay)

(* Whatever restarts, resets, midnights, totals that start anew and appends *)
(* that fail come between: nothing is counted twice in the logs, a day's    *)
(* bars come in the order of their minutes and no minute twice, a bar that  *)
(* is in the day's log and not in memory is older than all that is, and     *)
(* what was closed since the start and the open minute add up to what was   *)
(* counted.                                                                 *)
LogIsVolume ==
  /\ Logged + (IF acc = None THEN 0 ELSE acc.vol) <= traded
  /\ \A d \in 0..MaxDay : \A i \in 1..(Len(log[d]) - 1) : log[d][i].t < log[d][i + 1].t
  /\ acc # None =>
       /\ \A b \in ToSet(log[day]) :
            b \in ToSet(acc.bars) \/ \A c \in ToSet(acc.bars) : b.t < c.t
       /\ VolumeOf(SubSeq(acc.bars, acc.recovered + 1, Len(acc.bars))) + acc.vol
            = acc.up + acc.down + acc.zero
================================================================================
