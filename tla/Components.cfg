CONSTANTS
  Parts = {"pair", "single", "streams", "legacy", "agents", "tools", "two_phase", "follow_ups",
           "bursts", "news", "subscriptions", "switches"}
  None = None
  c1 = c1
  c2 = c2
  a1 = a1
  a2 = a2
  s1 = s1
  s2 = s2
  t1 = t1
  t2 = t2
  w1 = w1
  Configs = {c1, c2}
  Accounts = {a1, a2}
  Registered = {a1}
  Traded = {s1}
  LinksOfPair <- SharedAccount
  LinksOfSingle <- OneLinked
  PairThreads = {t1}
  SingleThreads = {t1, t2}
  LinkedAccounts = {a1}
  Startup = startup
  Callers = {handler, archiver}
  StreamObjects = {ts1, ts2, ts3}
  MaxLinks = 3
  BurstThreads = {t1, t2}
  BurstSlots = {b1, b2}
  Rules = {r1}
  Revised = {r2}
  MaxBursts = 1
  Retries = 1
  MaxEvents = 1
  Articles = {n1, n2}
  Retention = 1
  Horizon = 2
  MaxKills = 1
  Feeds = {n1}
  Followed = {f1}
  Offsets = 3
  FollowUpSearches = 2
  WebSearches = 1
  FollowUpCost = 4
  Reserve = 1
  MaxFee = 2
  MaxAborts = 2
  MaxErrors = 1
  AgentOrder <- OneOfEach
  MaxRounds = 2
  MaxTurns = 2
  PipelineCost = 2
  Fallback = TRUE
  Jobs = 2
  Research = "grok"
  XSearch = "grok"
  MaxActions = 3
  MaxBranches = 3
  MaxHops = 8
  ActionFees = {1}
  Hypotheses = {h1, h2}
  Suggestions <- TwoSuggestions
  ArticleSymbols <- TwoSymbols
  Peers = {}
  Few = 1
  Fetched = {"price", "returns"}
  Used = {"check_price", "get_movers", "x_search"}
  Keys = {{"grok", "gemini"}, {"openai", "gemini"}, {"pydanticai", "gemini"}}
  Priced = {"grok", "openai"}
  XLimit = 1
  MaxCalls = 2
  MaxSearches = 1

SPECIFICATION FairSpec
INVARIANTS
  
  LinkedIsServed
  SpendingBounded
  FindingsKept
  BurstsAccounted
  ArticlesKept
PROPERTIES
  NeverRevived
  ArchivingEnds
  EveryWatchSealed
  EveryFollowUpCompletes
  HeldIsStreamed
CHECK_DEADLOCK FALSE
