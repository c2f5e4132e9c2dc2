----------------------------- MODULE MCComponents ----------------------------
(***************************************************************************)
(* Instances of the components beside the trading core that are threads,   *)
(* jobs or processes of their own, with what they must come to do.  A      *)
(* behaviour is one of a single component, chosen at the start from Parts; *)
(* the others stay as they are initially.  Variables of two components     *)
(* that have one name carry a prefix here.                                 *)
(***************************************************************************)
EXTENDS Integers, Sequences, FiniteSets, TLC

CONSTANTS Parts,                       \* what is checked
          None,
          c1, c2, a1, a2, s1, s2, t1, t2,  \* configs, accounts, symbols, threads
          w1                           \* a watch

(* The parameters of the parts that are proved about, as general as those  *)
(* of their modules.                                                       *)
CONSTANTS Configs, Accounts, Registered, Traded, LinksOfPair, LinksOfSingle,
          PairThreads, SingleThreads,
          LinkedAccounts, Startup, Callers, StreamObjects, MaxLinks,
          BurstThreads, BurstSlots, Rules, Revised, MaxBursts, Retries, MaxEvents,
          Articles, Retention, Horizon, MaxKills,
          Feeds,
          Followed, Offsets, FollowUpSearches, WebSearches, FollowUpCost, Reserve, MaxFee,
          MaxAborts, MaxErrors,
          AgentOrder, MaxRounds, MaxTurns, PipelineCost, Fallback, Jobs,
          Research, XSearch, MaxActions, MaxBranches, MaxHops, ActionFees, Hypotheses, Suggestions,
          ArticleSymbols, Peers, Few, Fetched, Used, Keys, Priced, XLimit, MaxCalls, MaxSearches

ASSUME BurstsAssumption == /\ IsFiniteSet(BurstThreads) /\ BurstThreads # {}
                           /\ MaxBursts \in Nat /\ Retries \in Nat /\ MaxEvents \in Nat

ASSUME StreamsAssumption == None \notin LinkedAccounts

ASSUME NewsAssumption == Horizon \in Nat /\ Retention \in Int /\ None \notin 0 .. Horizon

ASSUME FollowUpsAssumption ==
  /\ None \notin Followed
  /\ FollowUpSearches \in Nat /\ WebSearches \in 0 .. FollowUpSearches
  /\ FollowUpCost \in Nat /\ Reserve \in Nat /\ MaxFee \in Nat
  /\ MaxAborts \in Nat /\ MaxErrors \in Nat

(* Gemini comes last in the default pipeline.                              *)
ASSUME AgentsAssumption ==
  /\ AgentOrder \in Seq({"grok", "openai", "gemini"})
  /\ \A i \in 1 .. Len(AgentOrder) - 1 : AgentOrder[i] # "gemini"
  /\ MaxRounds \in Nat \ {0} /\ MaxTurns \in Nat /\ PipelineCost \in Nat
  /\ Fallback \in BOOLEAN /\ Jobs \in Nat

ASSUME PhasesAssumption == ActionFees \subseteq Nat

ASSUME ToolsAssumption ==
  /\ None \notin {ArticleSymbols[i] : i \in DOMAIN ArticleSymbols} \cup Peers
  /\ XLimit \in Nat /\ MaxCalls \in Nat \ {0} /\ MaxSearches \in Nat

VARIABLES part

VARIABLES conf, hold, pos, eval, job, dash, broken

(* Two configs that can share an account, with restarts; and one config    *)
(* whose row is written back stale, with an archiving beside a deletion.   *)
Pair == INSTANCE ConfigLifecycle
  WITH Symbols <- Traded, Links <- LinksOfPair, Threads <- PairThreads,
       Edits <- FALSE, Restarts <- TRUE

Single == INSTANCE ConfigLifecycle
  WITH Symbols <- Traded, Links <- LinksOfSingle, Threads <- SingleThreads,
       Edits <- TRUE, Restarts <- TRUE

SharedAccount == (c1 :> {a1}) @@ (c2 :> {a1, a2, None})
OneLinked     == (c1 :> {a1, a2, None}) @@ (c2 :> {})

VARIABLES pool, linked, registry, stream, caller, links

Streams == INSTANCE TradeStreams
  WITH Accounts <- LinkedAccounts, Streams <- StreamObjects

VARIABLES fu, due, run, seen, flagged, spent, aborts, errors

FollowUps == INSTANCE FollowUps
  WITH Ids <- Followed, Searches <- FollowUpSearches, MaxCost <- FollowUpCost

VARIABLES pipePhase, pipeJob, round, agent, task, signal, flag, left, pipeSpent, paid

OneOfEach == <<"grok", "openai", "gemini">>

Agents == INSTANCE Pipeline
  WITH Agents <- AgentOrder, MaxCost <- PipelineCost,
       phase <- pipePhase, job <- pipeJob, spent <- pipeSpent

VARIABLES pc, picked, trace, total, billed, idea, followed, usedTools, items

(* A suggestion may name an action that is not on the menu.                *)
TwoSuggestions == {{"news_confirmation", "filing_check", "no_action"},
                   {"x_volume_alerts", "google_sentiment"}}

TwoPhases == INSTANCE TwoPhase WITH Fees <- ActionFees

VARIABLES pipe, reports, base, rounds, prompt, toolPhase, turn, calls, todo, traces, usage

(* An article of two symbols; an agent of each kind, and the final one.    *)
TwoSymbols == <<s1, s2>>

Tools == INSTANCE AgentTools
  WITH Symbols <- ArticleSymbols,
       phase <- toolPhase

VARIABLES today, xDay, count, starter, current, burst, stopEvt, atX, kept, started,
          ending, events

Bursts == INSTANCE XStream
  WITH Threads <- BurstThreads, Slots <- BurstSlots, day <- xDay

VARIABLES newsNow, newsHot, newsDay, newsWhole, newsZip, newsPc, newsTodo, newsOpen, newsLeft,
          newsSession, newsLost, newsKills

News == INSTANCE NewsArchive
  WITH now <- newsNow, hot <- newsHot, day <- newsDay, whole <- newsWhole, zip <- newsZip,
       pc <- newsPc, todo <- newsTodo, open <- newsOpen, left <- newsLeft,
       session <- newsSession, lost <- newsLost, kills <- newsKills

VARIABLES oldRow, quote, cycle, oldDash, postExit

(* One watch, bought at 4, with a check-in of either kind and a force-exit. *)
Legacy == INSTANCE LegacyWatcher
  WITH Watches <- {w1}, Prices <- {1, 4}, Entry <- 4, StopLoss <- 2,
       Checkins <- <<[until |-> 1, every |-> 1, depth |-> "lightweight"],
                     [until |-> 2, every |-> 1, depth |-> "medium"]>>,
       Retros <- <<[until |-> 1, every |-> 1]>>, MaxRetro <- 2, Top <- 2, Online <- TRUE,
       row <- oldRow, dash <- oldDash

VARIABLES held, tickActive, age, tickSubs, tickStream, heard, silence, restarts,
          waited, running, trades, faults

Subscriptions == INSTANCE TickSubscriptions
  WITH Symbols <- {s1, s2}, Cooloff <- 1, DeadAfter <- 1, Cooldown <- 1, MaxRestarts <- 2,
       SendFails <- FALSE, MaxTrades <- 3, MaxFaults <- 3,
       subs <- tickSubs, active <- tickActive, stream <- tickStream

VARIABLES feedsUp, watchLoop, manager, setting, market, online, reading, choice

Switched == INSTANCE Switches
  WITH started <- feedsUp, loop <- watchLoop, feed <- manager

configVars   == <<conf, hold, pos, eval, job, dash, broken>>
streamVars   == <<pool, linked, registry, stream, caller, links>>
oldVars      == <<oldRow, quote, cycle, oldDash, postExit>>
agentVars    == <<pipePhase, pipeJob, round, agent, task, signal, flag, left, pipeSpent, paid>>
phaseVars    == <<pc, picked, trace, total, billed, idea, followed, usedTools, items>>
toolVars     == <<pipe, reports, base, rounds, prompt, toolPhase, turn, calls, todo, traces,
                  usage>>
followUpVars == <<fu, due, run, seen, flagged, spent, aborts, errors>>
xVars        == <<today, xDay, count, starter, current, burst, stopEvt, atX, kept, started,
                  ending, events>>
newsVars     == <<newsNow, newsHot, newsDay, newsWhole, newsZip, newsPc, newsTodo, newsOpen,
                  newsLeft, newsSession, newsLost, newsKills>>
subsVars     == <<held, tickActive, age, tickSubs, tickStream, heard, silence, restarts,
                  waited, running, trades, faults>>
switchVars   == <<feedsUp, watchLoop, manager, setting, market, online, reading, choice>>

tradeVars   == <<configVars, streamVars, oldVars>>
exploreVars == <<agentVars, phaseVars, followUpVars, toolVars>>
feedVars    == <<xVars, newsVars, subsVars, switchVars>>

vars == <<part, tradeVars, exploreVars, feedVars>>

NoTools == /\ pipe = <<>> /\ reports = {} /\ base = {} /\ rounds = <<>> /\ prompt = {}
           /\ toolPhase = "next" /\ turn = 0 /\ calls = {} /\ todo = <<>> /\ traces = {}
           /\ usage = Tools!NoUsage

(* Parts with several initial states have one when they are not checked.   *)
Init == /\ part \in Parts
        /\ IF part = "pair" THEN Pair!Init ELSE Single!Init
        /\ Legacy!Init /\ (part # "legacy" => quote = None)
        /\ IF part = "tools" THEN Tools!Init ELSE NoTools
        /\ Subscriptions!Init /\ (part # "subscriptions" => held = {s1})
        /\ Switched!Init
        /\ \/ part = "switches"
           \/ /\ ~market /\ setting = [online |-> FALSE, auto |-> FALSE]
              /\ \A f \in Feeds : ~manager[f].enabled
        /\ Streams!Init /\ Agents!Init /\ TwoPhases!Init /\ FollowUps!Init
        /\ Bursts!Init /\ News!Init

NextTrade ==
  \/ /\ \/ part = "pair" /\ Pair!Next
        \/ part = "single" /\ Single!Next
     /\ UNCHANGED <<streamVars, oldVars>>
  \/ part = "streams" /\ Streams!Next /\ UNCHANGED <<configVars, oldVars>>
  \/ part = "legacy" /\ Legacy!Next /\ UNCHANGED <<configVars, streamVars>>

NextExplore ==
  \/ part = "agents" /\ Agents!Next /\ UNCHANGED <<phaseVars, followUpVars, toolVars>>
  \/ part = "two_phase" /\ TwoPhases!Next /\ UNCHANGED <<agentVars, followUpVars, toolVars>>
  \/ part = "follow_ups" /\ FollowUps!Next /\ UNCHANGED <<agentVars, phaseVars, toolVars>>
  \/ part = "tools" /\ Tools!Next /\ UNCHANGED <<agentVars, phaseVars, followUpVars>>

NextFeed ==
  \/ part = "bursts" /\ Bursts!Next /\ UNCHANGED <<newsVars, subsVars, switchVars>>
  \/ part = "news" /\ News!Next /\ UNCHANGED <<xVars, subsVars, switchVars>>
  \/ part = "subscriptions" /\ Subscriptions!Next /\ UNCHANGED <<xVars, newsVars, switchVars>>
  \/ part = "switches" /\ Switched!Next /\ UNCHANGED <<xVars, newsVars, subsVars>>

Next ==
  /\ UNCHANGED part
  /\ \/ NextTrade /\ UNCHANGED <<exploreVars, feedVars>>
     \/ NextExplore /\ UNCHANGED <<tradeVars, feedVars>>
     \/ NextFeed /\ UNCHANGED <<tradeVars, exploreVars>>

(* Each component's own fairness, in its part.                             *)
Fairness == /\ \A t \in PairThreads :
                 WF_configVars(part = "pair" /\ (Pair!ThreadStep(t) \/ Pair!WriteRow))
            /\ \A t \in SingleThreads :
                 WF_configVars(part = "single" /\ Single!ThreadStep(t))
            /\ WF_configVars(part = "single" /\ Single!WriteRow)
            /\ \A f \in Followed :
                 /\ WF_followUpVars(part = "follow_ups" /\ FollowUps!TimePasses(f))
                 /\ SF_followUpVars(part = "follow_ups" /\ FollowUps!BeginCollection(f))
            /\ WF_followUpVars(part = "follow_ups" /\ FollowUps!CollectorStep)
            /\ WF_oldVars(part = "legacy" /\ Legacy!Tick)
            /\ WF_oldVars(part = "legacy" /\ Legacy!StartCycle)
            /\ WF_oldVars(part = "legacy" /\ Legacy!Handle)
            /\ WF_oldVars(part = "legacy" /\ (Legacy!AgentAnswers \/ Legacy!Fails))
            /\ SF_oldVars(part = "legacy" /\ Legacy!OverriddenAnswer)
            /\ WF_oldVars(part = "legacy" /\ Legacy!DashboardExits)
            /\ WF_oldVars(part = "legacy" /\ Legacy!CoolingEnds(w1))
            /\ WF_subsVars(part = "subscriptions" /\ Subscriptions!TimePasses)
            /\ WF_subsVars(part = "subscriptions" /\ Subscriptions!SyncPortfolio)
            /\ WF_subsVars(part = "subscriptions" /\ Subscriptions!HealthCheck)

Spec == Init /\ [][Next]_vars

FairSpec == Spec /\ Fairness

(* No config is archived or deleted while a watch of it stands for a       *)
(* position, with and without a row written back stale.                    *)
SoldBeforeGone == part \in {"pair", "single"} => Pair!SoldBeforeGone

(* No thread or stale row activates a config that is being archived.       *)
NeverRevived == Pair!NeverRevived

(* Every archiving ends, unless it is broken off.                          *)
ArchivingEnds == Pair!ArchivingEnds

(* Concurrent syncs leave no linked account without a stream.              *)
LinkedIsServed == part = "streams" => Streams!LinkedIsServed

(* Every watch of the old monitor is sealed, whoever else writes its row.  *)
EveryWatchSealed == part = "legacy" => Legacy!EveryWatchSealed

(* A follow-up overspends by a bounded number of searches, a pipeline by   *)
(* one agent and the final agent of every round: cost limits are looked at *)
(* between steps, and what fails or is aborted records none.  An agent's   *)
(* searches exceed their limit by less than a response can ask for, and    *)
(* what the budget counts of it is what it cost.                           *)
SpendingBounded == /\ part = "follow_ups" => FollowUps!OverspendBounded
                   /\ part = "agents" => Agents!SpendBounded
                   /\ part = "tools" => Tools!XSearchesBounded /\ Tools!CostKnown

(* Every follow-up completes in spite of aborts and failures.              *)
EveryFollowUpCompletes == FollowUps!EveryFollowUpCompletes

(* Follow-ups of the first explorer repeat a tool only for want of another, *)
(* and its cost is what was billed.  What an agent found is told to those  *)
(* after it, unless it was to be fetched for them.                         *)
FindingsKept == /\ part = "two_phase" => TwoPhases!Orthogonal
                /\ part = "tools" => Tools!FindingsTold

(* No rule is left at X that no burst will remove, but by a request that   *)
(* failed, and the bursts of a day are bounded, whatever threads and       *)
(* midnight do.                                                            *)
BurstsAccounted == part = "bursts" => Bursts!RulesAreOwned /\ Bursts!BurstsBounded

(* No news is lost but what was in the archive that a kill cut off; the    *)
(* directory of an enabled feed is watched, however toggles fall in with   *)
(* the start; and a toggle of online mode stands until the market turns.   *)
ArticlesKept == /\ part = "news" => News!ArticlesKept
                /\ part = "switches" => Switched!EnabledIsWatched /\ Switched!ManualStands

(* Every symbol held comes to be streamed, whatever breaks.                *)
HeldIsStreamed == Subscriptions!HeldIsStreamed
=============================================================================
