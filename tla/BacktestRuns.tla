----------------------------- MODULE BacktestRuns -----------------------------
(***************************************************************************)
(* A backtest started in the dashboard, among others.  A run loads the     *)
(* bars of each symbol and looks its entries up in a cache on disk         *)
(* (threads), then evaluates what is left (processes, or serially when     *)
(* those cannot be had).  Earlier and concurrent runs share the cache:     *)
(* they appear as what they write to it.                                   *)
(*                                                                         *)
(* Time passes in days; `now' is the last day with bars.  A load that does *)
(* not fail brings every day of its range.  Files are written in place: a  *)
(* reader that meets a torn one finds nothing.  What a strategy makes of   *)
(* bars is the subject of BacktestExits; here an entry has a first bar and *)
(* a day of exit, and a result says no more.                               *)
(***************************************************************************)
EXTENDS Integers, FiniteSets, FiniteSetsExt

CONSTANTS Symbols,
          Entries,   \* per entry: its symbol, day, first bar's day, day of its exit
          Window,    \* days that are searched for the first bars, after the last entry
          Horizon,   \* bound: the last day
          None

VARIABLES
  now,
  job,                          \* the status in _backtest_jobs
  phase, todo, pending, since,  \* run_backtest: phase, symbols and entries left, its begin
  bars, failed,                 \* per symbol, the last day loaded, or -1; loads that failed
  result,                       \* per entry
  resolution, disk              \* on disk: entries with known first bar; results

runVars == <<phase, todo, pending, since, bars, failed, result>>
vars == <<now, job, runVars, resolution, disk>>

Days == 0 .. Horizon

Of(s) == {e \in Entries : e.symbol = s}

NoData    == [reason |-> "no_data", end |-> None]
Open(h)   == [reason |-> "still_open", end |-> h]
Closed(h) == [reason |-> "closed", end |-> h]   \* end: data_end of the cache

Cached  == {Open(h) : h \in Days} \cup {Closed(h) : h \in Days} \cup {None}

TypeOK ==
  /\ now \in Days /\ since \in Days
  /\ job \in {"none", "running", "complete", "aborted", "error", "pruned"}
  /\ phase \in {"idle", "prefetch", "evaluate", "serial", "ended"}
  /\ todo \subseteq Symbols /\ pending \subseteq Entries
  /\ bars \in [Symbols -> Days \cup {-1}]
  /\ failed \subseteq Symbols
  /\ result \in [Entries -> Cached \cup {NoData}]
  /\ resolution \subseteq Entries
  /\ disk \in [Entries -> Cached]

Init ==
  /\ now = 0
  /\ job = "none" /\ phase = "idle" /\ todo = {} /\ pending = {} /\ since = 0
  /\ bars = [s \in Symbols |-> -1] /\ failed = {} /\ result = [e \in Entries |-> None]
  /\ resolution = {} /\ disk = [e \in Entries |-> None]

TimePasses ==
  /\ phase # "ended"
  /\ now < Horizon
  /\ now' = now + 1
  /\ UNCHANGED <<job, runVars, resolution, disk>>

Request ==
  /\ job = "none"
  /\ job' = "running"
  /\ phase' = "prefetch" /\ todo' = Symbols /\ since' = now
  /\ UNCHANGED <<now, pending, bars, failed, result, resolution, disk>>

(* task.cancel(): the thread behind the task goes on, and writes results.  *)
Abort ==
  /\ job = "running"
  /\ job' = "aborted"
  /\ UNCHANGED <<now, runVars, resolution, disk>>

(* A request for another run forgets the jobs of more than an hour ago,    *)
(* also one that still runs and then has no place for its result.          *)
Prune ==
  /\ job \notin {"none", "pruned"}
  /\ job' = "pruned"
  /\ UNCHANGED <<now, runVars, resolution, disk>>

(* The result of an entry, from bars up to day h.                          *)
Evaluated(e, h) == IF e.bar > h THEN NoData ELSE IF e.exit > h THEN Open(h) ELSE Closed(h)

(* Another run writes what it makes of bars it has loaded some time ago,   *)
(* and before that the first bar it has found.  (It matters until this one *)
(* has ended.)                                                             *)
OtherRun(e, h) ==
  /\ phase # "ended"
  /\ e.bar <= h /\ h <= now
  /\ resolution' = resolution \cup {e}
  /\ disk' \in {disk, [disk EXCEPT ![e] = Evaluated(e, h)]}
  /\ UNCHANGED <<now, job, runVars>>

(* Mutant: any result is taken from the cache.                             *)
CanShortCircuitAny(x) == x # None

(* _can_short_circuit_backtest_cache: a closed result needs no bars.       *)
CanShortCircuit(x) == x # None /\ x.reason = "closed"

(* _is_backtest_cache_valid, for bars up to day h.                         *)
Valid(e, x, h) ==
  /\ x # None /\ h >= x.end
  /\ IF x.reason = "closed" THEN e.exit <= h ELSE h = x.end

(* _get_ohlcv_1m: the bars up to today, or when they cannot be had the     *)
(* days that have been kept, or nothing.                                   *)
Loads == -1 .. now

(* The last day that is searched for the first bars of a symbol's entries. *)
WindowEnd(s) == Min({now, Max({e.at : e \in Of(s)}) + Window})

(* _prefetch_symbol_backtest_job.  Without a directory of results for the  *)
(* symbol nothing is looked up.  Files of either kind may be unreadable or *)
(* never have been written; a load may fail.                               *)
Prefetch(s) ==
  /\ phase = "prefetch" /\ s \in todo
  /\ \E warm \in BOOLEAN, early \in Loads, late \in Loads :
     \E known \in SUBSET (Of(s) \cap resolution), readable \in SUBSET Of(s) :
       LET window == Min({early, WindowEnd(s)})
           looked == IF window >= 0 THEN Of(s) \ known ELSE {}
           beyond == {e \in looked : e.bar > window}
           found  == looked \ beyond
           hits   == {e \in readable \cap (known \cup found) : CanShortCircuit(disk[e])}
           done   == IF warm THEN beyond \cup hits ELSE {}
           left   == Of(s) \ done
       IN /\ ~warm => /\ early = now /\ known = {} /\ readable = {}
                      /\ \A e \in Of(s) : disk[e] = None
          /\ left = {} => late = now
          /\ resolution' = IF warm THEN resolution \cup found ELSE resolution
          /\ pending' = pending \cup left
          /\ bars' = [bars EXCEPT ![s] = IF left # {} THEN late ELSE -1]
          /\ failed' = failed \cup (IF early < now \/ late < now THEN {s} ELSE {})
          /\ result' = [e \in Entries |-> IF e \notin done THEN result[e]
                                          ELSE IF e \in hits THEN disk[e] ELSE NoData]
  /\ IF todo = {s} THEN phase' = "evaluate" /\ todo' = Symbols
                   ELSE phase' = phase /\ todo' = todo \ {s}
  /\ UNCHANGED <<now, job, since, disk>>

(* _evaluate_symbol_entries, in whatever order the symbols come back.      *)
(* Files may be unreadable, or not be written.                             *)
Evaluate(s) ==
  /\ phase \in {"evaluate", "serial"} /\ s \in todo
  /\ todo' = todo \ {s}
  /\ LET h     == bars[s]
         mine  == Of(s) \cap pending
         there == {e \in mine : e.bar <= h}
     IN \E readable \in SUBSET there, written \in SUBSET there :
          LET fresh == there \ {e \in readable : Valid(e, disk[e], h)}
          IN /\ resolution' = resolution \cup there
             /\ disk' = [e \in Entries |-> IF e \in fresh \cap written THEN Evaluated(e, h)
                                           ELSE disk[e]]
             /\ result' = [e \in Entries |-> IF e \in there \ fresh THEN disk[e]
                                             ELSE IF e \in mine THEN Evaluated(e, h)
                                             ELSE result[e]]
  /\ UNCHANGED <<now, job, phase, pending, since, bars, failed>>

(* No processes can be started, or one breaks off with an OSError: all     *)
(* symbols are evaluated again, one after the other.                       *)
FallBack ==
  /\ phase = "evaluate"
  /\ phase' = "serial" /\ todo' = Symbols
  /\ UNCHANGED <<now, job, pending, since, bars, failed, result, resolution, disk>>

Ends(status) ==
  /\ phase' = "ended" /\ todo' = {}
  /\ job' = IF job = "running" THEN status ELSE job
  /\ UNCHANGED <<now, pending, since, bars, failed, result, resolution, disk>>

Finish == phase \in {"evaluate", "serial"} /\ todo = {} /\ Ends("complete")

(* Any other exception, of the run or of the allocation after it.          *)
Fail == phase \in {"prefetch", "evaluate", "serial"} /\ Ends("error")

Next == \/ TimePasses \/ Request \/ Abort \/ Prune \/ FallBack \/ Finish \/ Fail
        \/ \E s \in Symbols : Prefetch(s) \/ Evaluate(s)
        \/ \E e \in Entries, h \in Days : OtherRun(e, h)

Spec == Init /\ [][Next]_vars

-----------------------------------------------------------------------------
(* The first bar comes later than the window that a warm cache looks at.   *)
Late(e) == e.bar > Max({f.at : f \in Of(e.symbol)}) + Window

Sound(e) ==
  LET x == result[e] IN
    /\ x # None
    /\ x.reason = "closed" => e.exit <= now
    /\ x.reason = "still_open" => e.bar <= x.end /\ x.end < e.exit
    /\ e.symbol \in failed \/ Late(e) \/
         /\ x.reason = "still_open" => since <= x.end
         /\ x.reason = "no_data" => e.bar > since

(* Neither caches, nor other runs, nor the order in which symbols come     *)
(* back, nor a fall-back in the middle make a result older than its run:   *)
(* every entry has one; a closed one is closed, an open one was open on    *)
(* its last day, and if the bars could be loaded that day is no earlier    *)
(* than the beginning of the run, and an entry without data had none then. *)
(* Late entries are the exception: a warm cache reports those without data *)
(* for ever (_prefetch_symbol_backtest_job, _is_backtest_cache_valid).     *)
ResultsFresh == job = "complete" => \A e \in Entries : Sound(e)
=============================================================================
