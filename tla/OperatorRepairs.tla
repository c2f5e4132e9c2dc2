--------------------------- MODULE OperatorRepairs ---------------------------
(***************************************************************************)
(* What an operator's scripts write into the watches while the program runs *)
(* (src/scripts): backfill_exit_prices.py looks up the price of exits made  *)
(* by a replacement, backfill_pnl_extremes.py measures how far a watch went *)
(* up and down, and import_holdings.py adds a portfolio that is only        *)
(* tracked.  The first two read rows, ask for prices for minutes, and write *)
(* whole rows; SQLite holds the lock from a script's first UPDATE to its    *)
(* commit, so its writes are one step.  The monitor works on the rows it    *)
(* read at the start of its cycle.  Watches is a portfolio without a broker *)
(* whose watches are of one symbol.  Prices stand for the percentages over  *)
(* the entry of a bullish watch.                                            *)
(***************************************************************************)
EXTENDS Integers, FiniteSetsExt

CONSTANTS Watches, Holdings,      \* simulated ones, and those of a screenshot
          Prices,
          Sources,                \* what is known of a minute besides its close
          MaxAge, Window, After,  \* of ticks, of candles before and after an exit
          MaxTime, MaxRuns,       \* bounds: minutes, runs of the scripts
          None

VARIABLES now, feed,       \* the minute, and what the market was at each
          row,             \* column and JSON of a watch
          cycle,           \* rows the monitor has read and not yet handled
          pricer, meter,   \* the rows the two scripts have read, with the time
          importer,        \* its progress
          runs,
          exited,          \* an exit as it was recorded first
          torn             \* rows whose JSON was written over a transition

repairVars == <<now, feed, row, cycle, pricer, meter, importer, runs, exited, torn>>

Closed == {"exited", "cooling_off", "sealed"}

NoRows == [w \in {} |-> None]

Stored == {w \in DOMAIN row : row[w] # None}

MarketData == [close : Prices, known : Sources]

Holding(price, at) ==
  [status |-> "holding", entry |-> price, from |-> at, exit |-> None,
   peak |-> None, trough |-> None, whole |-> FALSE]

Row(json) == [col |-> json.status, json |-> json]

Init == /\ now = 0 /\ \E m \in MarketData : feed = [t \in {0} |-> m]
        /\ row = [w \in Watches \cup Holdings |->
                    IF w \in Watches THEN Row(Holding(feed[0].close, 0)) ELSE None]
        /\ cycle = NoRows /\ pricer = None /\ meter = None /\ importer = "idle"
        /\ runs = 0 /\ exited = [w \in Watches |-> None] /\ torn = {}

TimePasses == /\ now < MaxTime /\ now' = now + 1
              /\ \E m \in MarketData :
                   feed' = [t \in 0..now + 1 |-> IF t = now + 1 THEN m ELSE feed[t]]
              /\ UNCHANGED <<row, cycle, pricer, meter, importer, runs, exited, torn>>

(***************************************************************************)
(* The monitor.  It reads rows by their column and goes by the status in    *)
(* their JSON; it writes if the column is still what that was.              *)
(***************************************************************************)
Close == feed[now].close

UpdateIf(w, json, expected) ==
  row' = IF row[w].col = expected THEN [row EXCEPT ![w] = Row(json)] ELSE row

Exit(json, price, reason) ==
  [json EXCEPT !.status = "exited", !.exit = [at |-> now, price |-> price, reason |-> reason]]

Exits(w, json, expected) ==
  /\ UpdateIf(w, json, expected)
  /\ exited' = IF row[w].col = expected THEN [exited EXCEPT ![w] = json.exit] ELSE exited

Marked(json) ==
  [json EXCEPT !.peak = IF @ = None \/ Close > @ THEN Close ELSE @,
               !.trough = IF @ = None \/ Close < @ THEN Close ELSE @, !.whole = FALSE]

(* Mutant: holdings that are only tracked are exited too.                   *)
OfAnyConfig(w) == TRUE

(* The watches of a tracking config are mirrors.                            *)
OfLiveConfig(w) == w \notin Holdings

ReadCycle ==
  /\ cycle = NoRows
  /\ cycle' = [w \in {v \in Stored : row[v].col # "sealed"} |-> row[w].json]
  /\ UNCHANGED <<now, feed, row, pricer, meter, importer, runs, exited, torn>>

Unread(w) == [v \in DOMAIN cycle \ {w} |-> cycle[v]]

CheckHolding(w) ==
  /\ cycle[w].status = "holding" /\ OfLiveConfig(w)
  /\ \/ UpdateIf(w, Marked(cycle[w]), "holding") /\ UNCHANGED exited
     \/ \E p \in Prices : Exits(w, Exit(Marked(cycle[w]), p, "strategy"), "holding")

SkipTracked(w) == /\ cycle[w].status = "holding" /\ ~OfLiveConfig(w) /\ UNCHANGED <<row, exited>>

StartCoolingOff(w) == /\ cycle[w].status = "exited"
                      /\ UpdateIf(w, [cycle[w] EXCEPT !.status = "cooling_off"], "exited")
                      /\ UNCHANGED exited

CheckCoolingOff(w) == /\ cycle[w].status = "cooling_off"
                      /\ \/ UpdateIf(w, [cycle[w] EXCEPT !.status = "sealed"], "cooling_off")
                         \/ UNCHANGED row
                      /\ UNCHANGED exited

(* A row whose JSON is sealed is read when its column is not.               *)
IgnoreSealed(w) == cycle[w].status = "sealed" /\ UNCHANGED <<row, exited>>

Handle(w) == /\ w \in DOMAIN cycle /\ cycle' = Unread(w)
             /\ \/ CheckHolding(w) \/ SkipTracked(w)
                \/ StartCoolingOff(w) \/ CheckCoolingOff(w) \/ IgnoreSealed(w)
             /\ UNCHANGED <<now, feed, pricer, meter, importer, runs, torn>>

(* A worker replaces a watch, at a quote or, for want of one, at the entry. *)
ExitVictim(w) ==
  /\ row[w].json.status = "holding"
  /\ \E p \in {Close, row[w].json.entry} : Exits(w, Exit(row[w].json, p, "replaced"), "holding")
  /\ UNCHANGED <<now, feed, cycle, pricer, meter, importer, runs, torn>>

(***************************************************************************)
(* backfill_exit_prices.py.  Candidates are all replacements, or those      *)
(* whose exit is at the price of the entry.                                 *)
(***************************************************************************)
Candidates(all) ==
  {w \in Watches : /\ row[w].col \in Closed /\ row[w].json.exit # None
                   /\ row[w].json.exit.reason = "replaced"
                   /\ all \/ row[w].json.exit.price = row[w].json.entry}

LoadCandidates == /\ pricer = None /\ runs < MaxRuns /\ runs' = runs + 1
                  /\ \E all \in BOOLEAN :
                       /\ Candidates(all) # {}
                       /\ pricer' = [w \in Candidates(all) |-> row[w]]
                  /\ UNCHANGED <<now, feed, row, cycle, meter, importer, exited, torn>>

(* Mutant: the candle in progress when the lookup is past it.               *)
AtOrAfter(times, at) ==
  LET later == {t \in times : t >= at} IN
  IF later = {} THEN None ELSE Min(later)

AtOrBefore(times, at) ==
  LET earlier == {t \in times : t <= at} IN
  IF earlier = {} THEN None ELSE Max(earlier)

LastTick(at) ==
  LET t == AtOrBefore({u \in DOMAIN feed : "tick" \in feed[u].known}, at) IN
  IF t # None /\ at - t <= MaxAge THEN t ELSE None

(* The candles of the symbol are fetched for all its candidates at once.    *)
Series ==
  LET times == {pricer[w].json.exit.at : w \in DOMAIN pricer} IN
  {t \in DOMAIN feed : /\ "candle" \in feed[t].known
                       /\ t \in Min(times) - Window .. Max(times) + After}

PricedAt(w) ==
  LET at == pricer[w].json.exit.at IN
  IF LastTick(at) # None THEN LastTick(at) ELSE AtOrBefore(Series, at)

(* Mutant: the JSON is written without the column.                          *)
RepairedJson(w) ==
  [row[w] EXCEPT !.json = [pricer[w].json EXCEPT !.exit.price = feed[PricedAt(w)].close,
                                                 !.whole = FALSE]]

(* The row as it was read, with the price; nothing without one.             *)
Repaired(w) ==
  [pricer[w] EXCEPT !.json.exit.price = feed[PricedAt(w)].close, !.json.whole = FALSE]

CommitPrices ==
  /\ pricer # None /\ pricer' = None
  /\ row' = [w \in DOMAIN row |-> IF w \in DOMAIN pricer /\ PricedAt(w) # None
                                  THEN Repaired(w) ELSE row[w]]
  /\ UNCHANGED <<now, feed, cycle, meter, importer, runs, exited, torn>>

(***************************************************************************)
(* backfill_pnl_extremes.py.  It reads the JSON of the watches that lack    *)
(* the extremes, or of all, and writes those that have changed.             *)
(***************************************************************************)
LoadWatches ==
  /\ meter = None /\ runs < MaxRuns /\ runs' = runs + 1
  /\ \E force \in BOOLEAN :
       meter' = [at |-> now,
                 rows |-> [w \in {v \in Stored : force \/ row[v].json.peak = None} |-> row[w].json]]
  /\ UNCHANGED <<now, feed, row, cycle, pricer, importer, exited, torn>>

(* From the entry to the exit or, without one, to the start of the script.  *)
Candles(json) ==
  {feed[t].close : t \in {u \in DOMAIN feed :
                            /\ "candle" \in feed[u].known
                            /\ u \in json.from .. IF json.exit = None THEN meter.at
                                                  ELSE json.exit.at}}

(* Mutant: the candles only, which need not contain the price of an exit.   *)
PassedInCandles(json) == {json.entry} \cup Candles(json)

Passed(json) == {json.entry} \cup Candles(json)
                \cup IF json.exit = None THEN {} ELSE {json.exit.price}

Measured(json) == [json EXCEPT !.peak = Max(Passed(json)), !.trough = Min(Passed(json)),
                               !.whole = json.exit # None]

Changed == {w \in DOMAIN meter.rows :
              LET json == meter.rows[w] IN
              <<json.peak, json.trough>> # <<Measured(json).peak, Measured(json).trough>>}

(* The column is left as it is.                                             *)
CommitExtremes ==
  /\ meter # None /\ meter' = None
  /\ row' = [w \in DOMAIN row |->
               IF w \in Changed THEN [row[w] EXCEPT !.json = Measured(meter.rows[w])] ELSE row[w]]
  /\ torn' = torn \cup {w \in Changed : meter.rows[w].status # row[w].json.status}
  /\ UNCHANGED <<now, feed, cycle, pricer, importer, runs, exited>>

(***************************************************************************)
(* import_holdings.py.  Without holdings, or a price for each, nothing is   *)
(* written; otherwise the config is, and then watch after watch.            *)
(***************************************************************************)
InsertConfig == /\ importer = "idle" /\ Holdings # {} /\ importer' = "config"
                /\ UNCHANGED <<now, feed, row, cycle, pricer, meter, runs, exited, torn>>

RefuseImport == /\ importer = "idle" /\ Holdings # {} /\ importer' = "refused"
                /\ UNCHANGED <<now, feed, row, cycle, pricer, meter, runs, exited, torn>>

InsertHolding(h) == /\ importer = "config" /\ row[h] = None
                    /\ row' = [row EXCEPT ![h] = Row(Holding(Close, now))]
                    /\ UNCHANGED <<now, feed, cycle, pricer, meter, importer, runs, exited, torn>>

EndImport == /\ importer = "config" /\ \A h \in Holdings : row[h] # None
             /\ importer' = "done"
             /\ UNCHANGED <<now, feed, row, cycle, pricer, meter, runs, exited, torn>>

(* A script is killed: what it has not committed is rolled back.            *)
Kill == /\ \/ pricer # None /\ pricer' = None /\ UNCHANGED <<meter, importer>>
           \/ meter # None /\ meter' = None /\ UNCHANGED <<pricer, importer>>
           \/ importer = "config" /\ importer' = "killed" /\ UNCHANGED <<pricer, meter>>
        /\ UNCHANGED <<now, feed, row, cycle, runs, exited, torn>>

Next == \/ TimePasses \/ ReadCycle
        \/ LoadCandidates \/ CommitPrices \/ LoadWatches \/ CommitExtremes
        \/ InsertConfig \/ RefuseImport \/ EndImport \/ Kill
        \/ \E w \in DOMAIN row : Handle(w)
        \/ \E w \in Watches : ExitVictim(w)
        \/ \E h \in Holdings : InsertHolding(h)

Spec == Init /\ [][Next]_repairVars

(* A row whose column and JSON disagree is read by one and handled by the   *)
(* other, and every write of the monitor is refused from then on.  Of the   *)
(* scripts, only one that leaves the column alone tears rows so             *)
(* (backfill_pnl_extremes.py:224), and only those that change under it.     *)
RowsAgree == \A w \in DOMAIN row : row[w] # None /\ w \notin torn => row[w].col = row[w].json.status

(* An exit once recorded stays, with its time and reason, whatever copies   *)
(* are written over it; its price is the recorded one or one that the       *)
(* market had at or before it (backfill_exit_prices.py:293).                *)
ExitsStand ==
  \A w \in Watches : exited[w] # None /\ w \notin torn =>
    LET exit == row[w].json.exit IN
    /\ row[w].col \in Closed /\ exit # None
    /\ exit.at = exited[w].at /\ exit.reason = exited[w].reason
    /\ exit.price \in {exited[w].price} \cup {feed[t].close : t \in 0..exit.at}

(* What was measured after the exit encloses it, until its price is looked  *)
(* up anew (backfill_pnl_extremes.py:151).                                  *)
ExtremesEnclose ==
  \A w \in Watches : LET json == row[w].json IN
    json.whole => json.trough <= json.exit.price /\ json.exit.price <= json.peak

(* A holding that is only tracked is never exited, and a portfolio whose    *)
(* import has ended has all of them (import_holdings.py:253).               *)
TrackedStand ==
  /\ \A h \in Holdings : row[h] # None => row[h].col = "holding" /\ row[h].json.exit = None
  /\ importer = "done" => \A h \in Holdings : row[h] # None
=============================================================================
