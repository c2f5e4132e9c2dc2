------------------------------ MODULE AgentTools ------------------------------
(***************************************************************************)
(* What the agents of an exploration ask, are told and are charged.  Data  *)
(* of the article's first symbols is fetched once, for every prompt.  An   *)
(* agent's tool calls leave traces; the next agent's prompt has their      *)
(* results, but for those that were fetched anyway.  The native runners    *)
(* execute the calls of a response one after the other, PydanticAI's runs  *)
(* them concurrently.  The budget, time-outs and aborts are Pipeline's.    *)
(* A request costs one unit and a search another.                          *)
(***************************************************************************)
EXTENDS Naturals, Sequences, FiniteSets

CONSTANTS
  Symbols,      \* of the article, a sequence
  Peers,        \* other symbols
  None,
  Few,          \* for how many symbols data is fetched; 3 in the code
  Fetched,      \* bound: the sections of a prompt that may fail to be fetched
  Used,         \* bound: the tools that models call
  Keys,         \* possible sets of API keys, and runners of a test's pipeline
  Priced,       \* runners whose model has a price
  MaxTurns,     \* request_limit
  XLimit,       \* x_search_limit, 0 for none
  MaxCalls,     \* bound: calls in one response
  MaxSearches   \* bound: server-side searches in one response

VARIABLES
  pipe,      \* the runners, in order
  reports,   \* what xAI's API says of costs: "ticks", "details"
  base,      \* the sections fetched
  rounds,    \* the agents that answered
  prompt,    \* what the running agent is told
  phase,     \* next, ask, call, answer or over
  turn,
  calls,     \* of the last response
  todo,      \* per call of PydanticAI's: new, busy or done
  traces,    \* of the running agent
  usage

vars == <<pipe, reports, base, rounds, prompt, phase, turn, calls, todo, traces, usage>>

-----------------------------------------------------------------------------
(* Tools.                                                                  *)

Registry ==
  {"check_price", "check_market_context", "check_options_activity", "get_fundamentals",
   "get_movers", "check_insider_activity", "get_company_news", "get_analyst_ratings",
   "get_price_history", "get_technical_indicators", "check_price_spike",
   "check_volume_regime", "get_financial_statements", "url_fetch", "x_stream_cache"}

(* PydanticAI's toolset wraps the same functions; its x_search is a call.  *)
Toolset == Registry \cup {"x_search"}

(* Tools that ask market data let its exceptions pass; the others answer   *)
(* with an error.                                                          *)
Guarded == {"url_fetch", "x_stream_cache", "x_search"}

MarketTools == Registry \ Guarded

(* The wrapper of get_movers passes an argument that the function does not *)
(* take.                                                                   *)
Raises(tool) == tool = "get_movers"

WithoutSymbol == {"check_market_context", "get_movers", "url_fetch", "x_search"}

(* Only of searches a response may have several that ask for different      *)
(* things.                                                                 *)
CallsOf(tools) ==
  [tool : tools \cap WithoutSymbol, symbol : {None}, nth : {1}]
  \cup [tool : tools \cap {"x_search"}, symbol : {None}, nth : 1 .. MaxCalls]
  \cup [tool : tools \ WithoutSymbol, nth : {1},
        symbol : {Symbols[i] : i \in DOMAIN Symbols} \cup Peers]

GrokTools == Registry

OpenAITools == Registry \ {"x_stream_cache"}

GeminiTools == {}

PydanticTools == Toolset

Offered(runner) ==
  CASE runner = "grok"       -> GrokTools
    [] runner = "openai"     -> OpenAITools
    [] runner = "gemini"     -> GeminiTools
    [] runner = "pydanticai" -> PydanticTools

(* One agent per key, in this order; the last is the final one.            *)
DefaultPipeline(keys) ==
  SelectSeq(<<"grok", "openai", "pydanticai", "gemini">>, LAMBDA r : r \in keys)

-----------------------------------------------------------------------------
(* Data that is fetched for the prompt.  Each section may fail by itself.  *)

First(n) == {Symbols[i] : i \in {j \in DOMAIN Symbols : j <= n}}

PriceSections     == {"price", "returns", "range", "fundamentals"}
TechnicalSections == {"technicals"}
ActivitySections  == {"options", "volume", "delta", "spike", "insider", "news"}
AnalystSections   == {"ratings", "metrics", "targets", "ownership", "peers"}
NewsSections      == {"coverage", "earnings"}

Sections == PriceSections \cup TechnicalSections \cup ActivitySections
            \cup AnalystSections \cup NewsSections

Market == [section |-> "context", symbol |-> None]

Tried == [section : Sections, symbol : First(Few)] \cup {Market}

(* Returns and the range are parts of the section on the price.            *)
Fits(got) ==
  \A f \in got : f.section \in {"returns", "range"}
                   => [section |-> "price", symbol |-> f.symbol] \in got

Bases == {got \in {Tried \ out : out \in SUBSET {f \in Tried : f.section \in Fetched}} : Fits(got)}

-----------------------------------------------------------------------------
(* The ledger of an agent's results.                                       *)

(* The tools whose results are in the prompt, by its sections.             *)
SectionOf ==
  [check_price |-> "price", get_fundamentals |-> "fundamentals",
   get_technical_indicators |-> "technicals", check_options_activity |-> "options",
   check_volume_regime |-> "volume", check_price_spike |-> "spike",
   check_insider_activity |-> "insider", get_company_news |-> "news",
   get_analyst_ratings |-> "ratings", get_price_history |-> "returns",
   check_market_context |-> "context"]

(* Mutant: every symbol of the article is taken for a primary one.         *)
OmittedAll(call) ==
  call.tool \in DOMAIN SectionOf /\ call.symbol \in First(Len(Symbols)) \cup {None}

Omitted(call) == call.tool \in DOMAIN SectionOf /\ call.symbol \in First(Few) \cup {None}

(* Of a server-side search only the query is told.                         *)
Ledger(results) == {r \in results : r.tool # "search" /\ ~Omitted(r)}

Prompt == base \cup UNION {Ledger(rounds[i].results) : i \in DOMAIN rounds}

-----------------------------------------------------------------------------
(* Costs.                                                                  *)

NoUsage == [requests |-> 0, searches |-> 0, last |-> 0, asked |-> 0, billed |-> 0]

(* Mutant: only the last response is counted.                              *)
CountLast(u, n) == [u EXCEPT !.requests = 1, !.searches = n, !.last = n]

Count(u, n) == [u EXCEPT !.requests = @ + 1, !.searches = @ + n, !.last = n]

TokenCost(runner) == IF runner \in Priced THEN usage.requests ELSE 0

(* Grok's count of searches is replaced by what the last response reports. *)
Searches(runner) ==
  CASE runner = "grok"       -> IF "details" \in reports THEN usage.last ELSE usage.searches
    [] runner = "pydanticai" -> 0
    [] OTHER                 -> usage.searches

(* What an agent really cost: what its requests and searches were billed.  *)
Real == usage.billed + usage.asked

AgentCost(runner) ==
  IF runner = "grok" /\ "ticks" \in reports
    THEN usage.requests + usage.searches
    ELSE TokenCost(runner) + Searches(runner)

-----------------------------------------------------------------------------
Runner == pipe[Len(rounds) + 1]

Init ==
  /\ pipe \in {DefaultPipeline(k) : k \in Keys}
  /\ reports \in SUBSET {"ticks", "details"}
  /\ ("grok" \notin {pipe[i] : i \in DOMAIN pipe} => reports = {})
  /\ base \in Bases
  /\ rounds = <<>> /\ prompt = {} /\ phase = "next"
  /\ turn = 0 /\ calls = {} /\ todo = <<>> /\ traces = {} /\ usage = NoUsage

NextAgent ==
  /\ phase = "next" /\ Len(rounds) < Len(pipe)
  /\ prompt' = Prompt
  /\ phase' = "ask"
  /\ turn' = 0 /\ calls' = {} /\ todo' = <<>> /\ traces' = {} /\ usage' = NoUsage
  /\ UNCHANGED <<pipe, reports, base, rounds>>

Responses(runner) ==
  {cs \in SUBSET CallsOf(Offered(runner) \cap Used) : Cardinality(cs) <= MaxCalls}

Trace(call) == [tool |-> call.tool, symbol |-> call.symbol, turn |-> turn, nth |-> call.nth]

Searched(n) == {Trace([tool |-> "search", symbol |-> None, nth |-> i]) : i \in 1 .. n}

Executed == {Trace(c) : c \in calls}

(* A request and its response.  Server-side searches leave their traces;   *)
(* calls of a response after the last turn are not executed, and           *)
(* PydanticAI's limit is an error.                                         *)
Ask ==
  /\ phase = "ask"
  /\ Runner = "pydanticai" => turn < MaxTurns
  /\ \E cs \in Responses(Runner), n \in 0 .. MaxSearches :
       /\ Runner = "pydanticai" => n = 0
       /\ calls' = cs
       /\ todo' = IF Runner = "pydanticai" THEN [c \in cs |-> "new"] ELSE <<>>
       /\ usage' = [Count(usage, n) EXCEPT !.billed = @ + 1 + n]
       /\ traces' = traces \cup Searched(n)
       /\ phase' = IF cs = {} \/ (Runner # "pydanticai" /\ turn = MaxTurns)
                     THEN "answer" ELSE "call"
  /\ UNCHANGED <<pipe, reports, base, rounds, prompt, turn>>

(* The native runners: what a tool raises is its result.                   *)
ExecuteCalls ==
  /\ phase = "call" /\ Runner # "pydanticai"
  /\ traces' = traces \cup Executed
  /\ turn' = turn + 1
  /\ calls' = {}
  /\ phase' = "ask"
  /\ UNCHANGED <<pipe, reports, base, rounds, prompt, todo, usage>>

(* Mutant: one search more than the limit.                                 *)
SearchesLeftOne(prior) == XLimit = 0 \/ prior <= XLimit

SearchesLeft(prior) == XLimit = 0 \/ prior < XLimit

Prior == Cardinality({t \in traces : t.tool = "x_search"})

(* x_search counts the traces and searches, or answers that it must not.   *)
StartCall(c) ==
  /\ phase = "call" /\ Runner = "pydanticai" /\ todo[c] = "new"
  /\ todo' = [todo EXCEPT ![c] = "busy"]
  /\ usage' = IF c.tool = "x_search" /\ SearchesLeft(Prior)
                THEN [usage EXCEPT !.asked = @ + 1] ELSE usage
  /\ UNCHANGED <<pipe, reports, base, rounds, prompt, phase, turn, calls, traces>>

(* The trace is written when the tool has returned.                        *)
EndCall(c) ==
  /\ phase = "call" /\ Runner = "pydanticai" /\ todo[c] = "busy"
  /\ ~Raises(c.tool)
  /\ todo' = [todo EXCEPT ![c] = "done"]
  /\ traces' = traces \cup {Trace(c)}
  /\ UNCHANGED <<pipe, reports, base, rounds, prompt, phase, turn, calls, usage>>

CallsAnswered ==
  /\ phase = "call" /\ Runner = "pydanticai"
  /\ \A c \in DOMAIN todo : todo[c] = "done"
  /\ turn' = turn + 1 /\ phase' = "ask" /\ calls' = {} /\ todo' = <<>>
  /\ UNCHANGED <<pipe, reports, base, rounds, prompt, traces, usage>>

(* A request is lost, or a tool raises what PydanticAI does not catch: the *)
(* pipeline ends, and nothing of the agent is kept.                        *)
Fail ==
  /\ \/ phase = "ask"
     \/ \E c \in DOMAIN todo : todo[c] = "busy" /\ c.tool \in MarketTools
  /\ phase' = "over"
  /\ UNCHANGED <<pipe, reports, base, rounds, prompt, turn, calls, todo, traces, usage>>

Answer ==
  /\ phase = "answer"
  /\ rounds' = Append(rounds,
       [runner |-> Runner, real |-> Real, cost |-> AgentCost(Runner),
        results |-> {[tool |-> t.tool, symbol |-> t.symbol] : t \in traces}])
  /\ phase' = "next"
  /\ turn' = 0 /\ calls' = {} /\ todo' = <<>> /\ traces' = {} /\ usage' = NoUsage
  /\ UNCHANGED <<pipe, reports, base, prompt>>

Next ==
  \/ NextAgent \/ Ask \/ ExecuteCalls \/ CallsAnswered \/ Fail \/ Answer
  \/ \E c \in DOMAIN todo : StartCall(c) \/ EndCall(c)

Spec == Init /\ [][Next]_vars

-----------------------------------------------------------------------------
(* Whatever an agent's tool returned is told to the agents after it, or    *)
(* was to be fetched for all of them: nothing falls between the ledger,    *)
(* which leaves out what was fetched, and the fetching.                    *)
FindingsTold ==
  phase \notin {"next", "over"} =>
    \A i \in DOMAIN rounds : \A r \in rounds[i].results :
      \/ r.tool = "search"
      \/ r \in prompt
      \/ /\ r.tool \in DOMAIN SectionOf
         /\ [section |-> SectionOf[r.tool], symbol |-> r.symbol] \in Tried

(* x_search checks its limit against the traces, which are written after   *)
(* the search: calls of one response that run at once exceed it, by as     *)
(* many as there are but one.                                              *)
XSearchesBounded == XLimit > 0 => usage.asked < XLimit + MaxCalls

(* What the budget counts of an agent that answered is what it cost, if    *)
(* its model has a price and its provider says how often it searched: xAI  *)
(* says it of the last response only, unless it bills the whole, and       *)
(* PydanticAI's searches are not counted.                                  *)
CostKnown ==
  \A i \in DOMAIN rounds :
    LET r == rounds[i] IN
    r.runner \in Priced \ {"pydanticai"} /\ (r.runner = "grok" => reports # {"details"})
      => r.cost = r.real

(* What the docstring of _format_tool_ledger says: what it leaves out is   *)
(* in the prompt.                                                          *)
OmittedIsTold ==
  phase \notin {"next", "over"} =>
    \A i \in DOMAIN rounds : \A r \in rounds[i].results :
      Omitted(r) => [section |-> SectionOf[r.tool], symbol |-> r.symbol] \in prompt
=============================================================================
