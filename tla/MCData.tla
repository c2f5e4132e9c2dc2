------------------------------ MODULE MCData --------------------------------
(***************************************************************************)
(* Instances of the components that compute or keep data: backtests, ticks *)
(* and volume deltas, equity curves, market data, snapshots, repairs and   *)
(* knowledge files; and of the core with what its own runs leave out.      *)
(* A behaviour is one of a single component, chosen at the start from      *)
(* Parts; the others stay as they are initially.                           *)
(***************************************************************************)
EXTENDS Integers, FiniteSets, TLC

CONSTANTS Parts,       \* what is checked
          None,
          s1, s2,      \* symbols
          w1, w2,      \* watches
          (* The core: its watches and orders, the exit monitor, workers, what *)
          (* goes wrong while a watch is replaced, or while a sync runs.       *)
          Exitable, Orders, monitor, Replacers, ReplaceFaults, SyncFaults, MaxCoreCrashes,
          (* Trades that are allocated: their number, what they may be, rules. *)
          MaxTrades, Inputs, MaxOpen, Rules, Margin, Offset, Delay, Start,
          (* A simulated portfolio: watches, their symbols and directions,     *)
          (* prices, what the monitor reads, of what prices can be known.      *)
          Tracked, Traded, SymbolOf, DirectionOf, Marks, PosSize, Slots, Funds, Recent,
          Knowable, Minutes, MaxLive,
          (* Exits: bars, strategies with guards, bounds, prices.              *)
          ExitBars, ExitPlans, MaxLen, MinHold, Lookback, TimeLimit,
          Entry, Stop, Target, GuardStop, GuardTarget, Trail,
          (* Trades in buckets: prices, sizes, quotes, buckets, the window.    *)
          TickPrices, Sizes, Sides, Width, BucketsBack, Slack, MinTrades, Modes, MaxTicks,
          (* The tick collector, and the volume by direction: prices, bounds.  *)
          Collected, MaxTotal, Sessions, MaxBatch, MaxPending,
          Levels, MaxVolume, MaxMinute, MaxDay, MaxRestarts, MaxResets,
          (* Symbols with metrics, what vendors know of them, requests, limits. *)
          Quoted, ClassShares, Replies, Requests, Filters, Ttl, MarketDays,
          (* Knowledge files: threads that learn, pages, what they may learn. *)
          Appenders, Pages, Words, Proper, LongOnly, Shorting, Described, Odd, Kind, MaxKills,
          (* A backtest: its symbols and entries, its window, the last day.    *)
          Backtested, Entries, SearchDays, Horizon,
          (* Snapshots, runs that add prices to them, bounds.                  *)
          Ids, Collectors, MaxRewrites, MaxPrices,
          (* What scripts repair and import, what the market is, bounds.       *)
          Mendable, Imported, Prices, Sources, ImportSources, MaxAge, Around, After,
          MaxTime, MaxRuns, MaxImports

ASSUME AllocationAssumption ==
  /\ MaxTrades \in Nat /\ MaxOpen \in Nat /\ {Offset, Delay, Start} \subseteq Int
  /\ \A i \in Inputs : i.at \in Int /\ i.held \in Int /\ i.drift \in Int

ASSUME ExitAssumption == MinHold \in Nat /\ \A b \in ExitBars : b.signal \in BOOLEAN

ASSUME DivergenceAssumption ==
  /\ Width \in Nat \ {0} /\ BucketsBack \in Nat \ {0} /\ Slack \in Int /\ MinTrades \in Nat
  /\ Sizes \subseteq Int

ASSUME VolumeAssumption ==
  /\ None \notin Int \cup Levels /\ MaxBatch \in Nat /\ MaxDay \in Nat

ASSUME EquityAssumption ==
  /\ IsFiniteSet(Tracked) /\ Marks \subseteq Nat \ {0}
  /\ \A w \in Tracked : SymbolOf[w] \in Traded /\ DirectionOf[w] \in {1, -1}
  /\ PosSize \in Int /\ Funds \in Int /\ Recent \in Nat

ASSUME MarketAssumption ==
  /\ Ttl \in Nat \ {0} /\ Requests \subseteq SUBSET Quoted
  /\ None \notin {"schwab", "yfinance", "finnhub"}

ASSUME LearningAssumption == None \notin Appenders

ASSUME BacktestAssumption ==
  /\ SearchDays \in Nat /\ Horizon \in Nat /\ IsFiniteSet(Entries)
  /\ \A e \in Entries : e.symbol \in Backtested /\ {e.at, e.bar, e.exit} \subseteq Nat
  /\ None \notin [reason : {"no_data", "still_open", "closed"}, end : Int \cup {None}]

ASSUME RepairAssumption ==
  /\ IsFiniteSet(Prices) /\ Prices \subseteq Int
  /\ None \notin [at : Int, price : Int, reason : {"strategy", "replaced"}]
  /\ None \notin [col : {"holding"},
                  json : [status : {"holding"}, entry : Prices, from : Nat, exit : {None},
                          peak : Prices \cup {None}, trough : Prices \cup {None},
                          whole : {FALSE}]]

VARIABLES part

VARIABLES rule, trade, paired, turn, phase, next, open, out, cash, active, invested, pending

(* Trades of one or three minutes that lose or gain, and one without bars. *)
ShortTrades == [at : 0..2, held : {1}, drift : {1}, data : {TRUE}]
               \cup [at : 0..2, held : {3}, drift : {-1}, data : {TRUE}]
               \cup {[at |-> 1, held |-> 0, drift |-> 0, data |-> FALSE]}

Allocated == INSTANCE Allocation WITH N <- MaxTrades

VARIABLES plan, bars, cached, live, stored

(* A bar that moves nothing, one that signals, one that reaches stop and   *)
(* target; an indicator, one with a lookback, prices and a time limit.     *)
ThreeBars == [low : {5}, high : {5}, signal : BOOLEAN]
             \cup [low : {3}, high : {7}, signal : {FALSE}]

FourPlans == [strategy : {"indicator"}, guard : {TRUE}, trail : {FALSE}]
             \cup [strategy : {"volume_delta_divergence", "risk_reward_target",
                               "max_holding_period"}, guard : {FALSE}, trail : {TRUE}]

Exits == INSTANCE BacktestExits WITH Bars <- ExitBars, Plans <- ExitPlans, MaxBars <- TimeLimit

VARIABLES btNow, btJob, btPhase, todo, btPending, since, btBars, failed, result, resolution, disk

(* Two entries of one symbol, the second of which trades a day later.      *)
TwoEntries == {[symbol |-> s1, at |-> 0, bar |-> 0, exit |-> 1],
               [symbol |-> s1, at |-> 0, bar |-> 1, exit |-> 2]}

Backtests == INSTANCE BacktestRuns
  WITH Symbols <- Backtested, Window <- SearchDays, now <- btNow, job <- btJob,
       phase <- btPhase, pending <- btPending, bars <- btBars

VARIABLES total, day, prev, buffer, batch, process, flushing, tickStored, lost, opened, bare

Ticks == INSTANCE TickBuffer
  WITH Symbols <- Collected, Unknown <- None, stored <- tickStored

VARIABLES minute, utcDay, price, daily, traded, collecting, acc, log, saved, shadowStarts, resets

Shadow == INSTANCE ShadowVolume
  WITH Prices <- Levels,
       day <- utcDay, total <- daily, active <- collecting, restarts <- shadowStarts

VARIABLES mode, tick, tape, vddPool, verdict

(* A price above the midpoint, or below it.                                *)
UpOrDown == {1, -1}

Divergence == INSTANCE TickVdd
  WITH Prices <- TickPrices, Quotes <- Sides, Lookback <- BucketsBack,
       trades <- tape, pool <- vddPool, answer <- verdict

VARIABLES clock, close, watch, view, tool, rows

(* A bullish watch and a bearish one, of two symbols.                      *)
OfSymbols == (w1 :> s1) @@ (w2 :> s2)

BothWays == (w1 :> 1) @@ (w2 :> -1)

Equity == INSTANCE EquityCurve
  WITH Watches <- Tracked, Symbols <- Traded, Prices <- Marks, Start <- Funds,
       Answers <- Knowable, MaxTime <- Minutes, now <- clock

VARIABLES asked, ans, cache, page, call

(* Vendors that know different fields of a symbol.                         *)
PartialReplies ==
  {[schwab |-> None, yahoo |-> {"price"}, finnhub |-> TRUE, bars |-> FALSE],
   [schwab |-> {"price", "shares"}, yahoo |-> {"pe", "vol"}, finnhub |-> FALSE, bars |-> FALSE],
   [schwab |-> {"vol", "eps", "cap"}, yahoo |-> {"cap", "price"}, finnhub |-> FALSE, bars |-> TRUE]}

Market == INSTANCE MarketData
  WITH Symbols <- Quoted, Pages <- Requests, MaxTime <- MarketDays, now <- asked

VARIABLES row, held, working, filled, sold, sellEvents, buyEvents, fired, seller,
          fills, rec, web, crashes

(* The core with a worker that sells the watch to replace it.              *)
Replaced == INSTANCE LiveExit
  WITH WatchIds <- Exitable, OrderIds <- Orders, Monitor <- monitor, Workers <- Replacers,
       Unprotected <- {}, Faults <- ReplaceFaults, MaxCrashes <- MaxCoreCrashes,
       open <- working, events <- sellEvents, signal <- fired, stream <- fills

(* The core with a sync or the thread of a liquidation beside the monitor. *)
Synced == INSTANCE LiveExit
  WITH WatchIds <- Exitable, OrderIds <- Orders, Monitor <- monitor, Workers <- {},
       Unprotected <- {}, Faults <- SyncFaults, MaxCrashes <- MaxCoreCrashes,
       open <- working, events <- sellEvents, signal <- fired, stream <- fills

ASSUME CoreAssumption ==
  /\ Exitable # {} /\ Orders # {} /\ None \notin Exitable \cup Orders
  /\ monitor \notin Replacers /\ MaxCoreCrashes \in Nat
  /\ ReplaceFaults \cup SyncFaults \subseteq Replaced!AllFaults

VARIABLES file, lock, proc, form, told, kills

AllVerified == [s \in Described |-> "verified"]

Learned == INSTANCE Knowledge WITH Symbols <- Described, page <- form

VARIABLES sealed, fields, jsonFile, zip, adding, mover, script, rewrites, prices, clash

Snapshots == INSTANCE SnapshotFields
  WITH row <- fields, live <- jsonFile, archiver <- mover

VARIABLES repairNow, feed, watchRows, cycle, pricer, meter, importer, runs, exited, torn

(* Watches that runs of the scripts repair; a portfolio that is imported.   *)
OneSource == {{}, {"candle"}, {"tick"}}

CandlesOnly == {{}, {"candle"}}

Repairs == INSTANCE OperatorRepairs
  WITH Watches <- Mendable, Holdings <- {}, Window <- Around,
       now <- repairNow, row <- watchRows

Imports == INSTANCE OperatorRepairs
  WITH Watches <- {}, Holdings <- Imported, Sources <- ImportSources, Window <- Around,
       MaxRuns <- MaxImports, now <- repairNow, row <- watchRows

allocVars  == <<rule, trade, paired, turn, phase, next, open, out, cash, active, invested,
                pending>>
exitVars   == <<plan, bars, cached, live, stored>>
runVars    == <<btNow, btJob, btPhase, todo, btPending, since, btBars, failed, result,
                resolution, disk>>
tickVars   == <<total, day, prev, buffer, batch, process, flushing, tickStored, lost,
                opened, bare>>
shadowVars == <<minute, utcDay, price, daily, traded, collecting, acc, log, saved,
                shadowStarts, resets>>
vddVars    == <<mode, tick, tape, vddPool, verdict>>
equityVars == <<clock, close, watch, view, tool, rows>>
marketVars == <<asked, ans, cache, page, call>>
coreVars   == <<row, held, working, filled, sold, sellEvents, buyEvents, fired, seller,
                fills, rec, web, crashes>>
learnVars  == <<file, lock, proc, form, told, kills>>
fieldVars  == <<sealed, fields, jsonFile, zip, adding, mover, script, rewrites, prices, clash>>
repairVars == <<repairNow, feed, watchRows, cycle, pricer, meter, importer, runs, exited, torn>>

backtestVars == <<allocVars, exitVars, runVars>>
deltaVars    == <<tickVars, shadowVars, vddVars>>
priceVars    == <<equityVars, marketVars>>
recordVars   == <<coreVars, learnVars, fieldVars, repairVars>>

vars == <<part, backtestVars, deltaVars, priceVars, recordVars>>

(* Parts with several initial states have one when they are not checked.   *)
NoAllocation == /\ rule = None /\ trade = None /\ paired = None /\ turn = None /\ phase = None /\ next = None
                /\ open = None /\ out = None /\ cash = None /\ active = None
                /\ invested = None /\ pending = None

NoExits == plan = None /\ bars = None /\ cached = None /\ live = None /\ stored = None

NoEquity == clock = None /\ close = None /\ watch = None /\ view = None /\ tool = None /\ rows = None

NoShadow == /\ minute = None /\ utcDay = None /\ price = None /\ daily = None /\ traded = None
            /\ collecting = None /\ acc = None /\ log = None /\ saved = None
            /\ shadowStarts = None /\ resets = None

NoRepairs == /\ repairNow = None /\ feed = None /\ watchRows = None /\ cycle = None
             /\ pricer = None /\ meter = None /\ importer = None /\ runs = None
             /\ exited = None /\ torn = None

NoMarket == asked = None /\ ans = None /\ cache = None /\ page = None /\ call = None

Init == /\ part \in Parts
        /\ IF part = "allocation" THEN Allocated!Init ELSE NoAllocation
        /\ IF part = "exits" THEN Exits!Init ELSE NoExits
        /\ IF part = "market" THEN Market!Init ELSE NoMarket
        /\ IF part = "shadow" THEN Shadow!Init ELSE NoShadow
        /\ Divergence!Init /\ (part # "vdd" => mode = "proportional")
        /\ IF part = "equity" THEN Equity!Init ELSE NoEquity
        /\ IF part = "synced" THEN Synced!Init
           ELSE Replaced!Init /\ (part # "replacement" => working = Replaced!NoOrder)
        /\ IF part = "repairs" THEN Repairs!Init
           ELSE IF part = "imports" THEN Imports!Init ELSE NoRepairs
        /\ Backtests!Init /\ Ticks!Init /\ Learned!Init /\ Snapshots!Init

NextBacktest ==
  \/ part = "allocation" /\ Allocated!Next /\ UNCHANGED <<exitVars, runVars>>
  \/ part = "exits" /\ Exits!Next /\ UNCHANGED <<allocVars, runVars>>
  \/ part = "backtests" /\ Backtests!Next /\ UNCHANGED <<allocVars, exitVars>>

NextDelta ==
  \/ part = "ticks" /\ Ticks!Next /\ UNCHANGED <<shadowVars, vddVars>>
  \/ part = "shadow" /\ Shadow!Next /\ UNCHANGED <<tickVars, vddVars>>
  \/ part = "vdd" /\ Divergence!Next /\ UNCHANGED <<tickVars, shadowVars>>

NextPrice ==
  \/ part = "equity" /\ Equity!Next /\ UNCHANGED marketVars
  \/ part = "market" /\ Market!Next /\ UNCHANGED equityVars

NextRecord ==
  \/ part = "replacement" /\ Replaced!Next /\ UNCHANGED <<learnVars, fieldVars, repairVars>>
  \/ part = "synced" /\ Synced!Next /\ UNCHANGED <<learnVars, fieldVars, repairVars>>
  \/ part = "knowledge" /\ Learned!Next /\ UNCHANGED <<coreVars, fieldVars, repairVars>>
  \/ part = "snapshots" /\ Snapshots!Next /\ UNCHANGED <<coreVars, learnVars, repairVars>>
  \/ part = "repairs" /\ Repairs!Next /\ UNCHANGED <<coreVars, learnVars, fieldVars>>
  \/ part = "imports" /\ Imports!Next /\ UNCHANGED <<coreVars, learnVars, fieldVars>>

Next ==
  /\ UNCHANGED part
  /\ \/ NextBacktest /\ UNCHANGED <<deltaVars, priceVars, recordVars>>
     \/ NextDelta /\ UNCHANGED <<backtestVars, priceVars, recordVars>>
     \/ NextPrice /\ UNCHANGED <<backtestVars, deltaVars, recordVars>>
     \/ NextRecord /\ UNCHANGED <<backtestVars, deltaVars, priceVars>>

Spec == Init /\ [][Next]_vars

(* A backtest keeps max_pos at every entry as it walks over them, and what *)
(* its allocation takes, the simulation of the cash has a slot for, when   *)
(* the results come in the order of the entries.                           *)
SlotsKept == part = "allocation" => Allocated!CapKept /\ Allocated!TakenHasSlot

(* The simulation of the cash neither loses a dollar nor pays it twice.    *)
MoneyConserved == part = "allocation" => Allocated!MoneyConserved

(* The live monitor finds every exit that the bars it has contain; what a  *)
(* strategy has decided on complete bars, later bars do not change; and a  *)
(* divergence is decided by a window as by the whole history.              *)
LiveExitsAgree == /\ part = "exits" => Exits!NoMissedExit /\ Exits!DecisionsStand
                  /\ part = "vdd" => Divergence!WindowDecides

(* A backtest's results are as new as its run, whatever is in the cache.   *)
ResultsFresh == part = "backtests" => Backtests!ResultsFresh

(* The volume of a symbol is counted once on its way into the database,    *)
(* and once on its way into the logs of the volume delta.                  *)
VolumeCounted == /\ part = "ticks" => Ticks!VolumeComplete
                 /\ part = "shadow" => Shadow!LogIsVolume

(* Whoever wrote it, a row of an equity curve is true of its time.         *)
RowsTrue == part = "equity" => Equity!RowsTrue

(* What a vendor knows is sealed and shown, and not from the day before.   *)
MetricsServed == part = "market" => Market!MetricsServed

(* Neither a sale that a worker makes beside the monitor's nor a reconcile  *)
(* beside it records a fill's price while the account holds the position.  *)
ExitPriceIsReal == /\ part = "replacement" => Replaced!ExitPriceIsReal
                   /\ part = "synced" => Synced!ExitPriceIsReal

(* A knowledge file that can be read has all that was learned.             *)
AppendsKept == part = "knowledge" => Learned!AppendsKept

(* What was captured at a decision stands, in the row and in the files, and *)
(* what was recorded of an exit, whatever a script writes over it.          *)
SealedStands == /\ part = "snapshots" => Snapshots!SealedStands
                /\ part = "repairs" => /\ Repairs!RowsAgree /\ Repairs!ExitsStand
                                       /\ Repairs!ExtremesEnclose
                /\ part = "imports" => Imports!TrackedStand /\ Imports!RowsAgree

(* No more than max_pos of the trades that a backtest takes run at once.   *)
CapIsHard == part = "allocation" => Allocated!CapIsHard
=============================================================================
