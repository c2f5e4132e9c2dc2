CONSTANTS
  Parts = {"allocation", "ticks", "shadow", "exits", "backtests", "vdd", "equity", "market",
           "replacement", "synced", "knowledge", "snapshots", "repairs", "imports"}
  None = None
  s1 = s1
  s2 = s2
  w1 = w1
  w2 = w2
  Exitable = {w1}
  Orders = {o1, o2, o3, o4, o5, o6}
  monitor = monitor
  Replacers = {x1}
  ReplaceFaults = {"api_error", "bulk_miss", "lost_event", "late_buy_fill"}
  SyncFaults = {"sync", "liquidate", "manual_exit", "bulk_miss", "old_sell"}
  MaxCoreCrashes = 0
  MaxTrades = 3
  Inputs <- ShortTrades
  MaxOpen = 2
  Rules = {"skip", "unreal_pl", "other"}
  Margin = 2
  Offset = 1
  Delay = 1
  Start = 64
  Tracked = {w1, w2}
  Traded = {s1, s2}
  SymbolOf <- OfSymbols
  DirectionOf <- BothWays
  Marks = {1, 2}
  PosSize = 2
  Slots = 2
  Funds = 4
  Recent = 2
  Knowable = {{s1, s2}, {s2}}
  Minutes = 3
  MaxLive = 1
  ExitBars <- ThreeBars
  ExitPlans <- FourPlans
  MaxLen = 4
  MinHold = 1
  Lookback = 1
  TimeLimit = 1
  Entry = 5
  Stop = 3
  Target = 7
  GuardStop = 3
  GuardTarget = 7
  Trail = 2
  TickPrices = {1, 2}
  Sizes = {1}
  Sides <- UpOrDown
  Width = 2
  BucketsBack = 1
  Slack = 1
  MinTrades = 1
  Modes = {"proportional", "visible_only", "bar_binary"}
  MaxTicks = 5
  Collected = {s1, s2}
  MaxTotal = 2
  Sessions = 2
  MaxBatch = 1
  MaxPending = 1
  Levels = {1, 2}
  MaxVolume = 4
  MaxMinute = 2
  MaxDay = 1
  MaxRestarts = 1
  MaxResets = 1
  Quoted = {s1, s2}
  ClassShares = {s2}
  Replies <- PartialReplies
  Requests = {{s1}, {s1, s2}}
  Filters = {{"price"}}
  Ttl = 1
  MarketDays = 1
  Appenders = {p1, p2}
  Pages = {g1}
  Words = {"a", "b"}
  Proper = {"a", "b"}
  LongOnly = {"c"}
  Shorting = FALSE
  Described = {s1}
  Odd = {}
  Kind <- AllVerified
  MaxKills = 1
  Backtested = {s1}
  Entries <- TwoEntries
  SearchDays = 1
  Horizon = 2
  Ids = {s1, s2}
  Collectors = {x1}
  MaxRewrites = 1
  MaxPrices = 1
  Mendable = {w1}
  Imported = {w1, w2}
  Prices = {1, 2}
  Sources <- OneSource
  ImportSources <- CandlesOnly
  MaxAge = 0
  Around = 0
  After = 1
  MaxTime = 1
  MaxRuns = 2
  MaxImports = 1

SPECIFICATION Spec
INVARIANTS
  SlotsKept
  MoneyConserved
  VolumeCounted
  LiveExitsAgree
  ResultsFresh
  RowsTrue
  MetricsServed
  ExitPriceIsReal
  AppendsKept
  SealedStands
CHECK_DEADLOCK FALSE
