------------------------------ MODULE MarketData -------------------------------
(***************************************************************************)
(* Quotes and metrics of symbols from three vendors (MarketDataService):    *)
(* Schwab, then yfinance, then Finnhub for quotes; Schwab and yfinance,     *)
(* field by field, for metrics.  A snapshot is sealed with the metrics of   *)
(* its symbol, the dashboard fills what is missing from a cache that lasts  *)
(* a day, and the live filters ask anew.  What a vendor answers is an       *)
(* input of each call; of a value only when it was observed is kept.        *)
(***************************************************************************)
EXTENDS Integers, FiniteSets

CONSTANTS Symbols,
          ClassShares,   \* symbols that Schwab writes differently, as BRK/B
          Replies,       \* what the vendors can know of a symbol:
                         \* [schwab, yahoo : None or fields, finnhub, bars : BOOLEAN]
          Pages,         \* sets of symbols that a request asks for
          Filters,       \* sets of metrics for which a config has a minimum
          Ttl, MaxTime, None

VARIABLES now,
          ans,      \* what the vendors would answer, and whether Schwab is up
          cache,    \* _fundamentals_cache of the dashboard
          page,     \* a request for the table or of the fundamentals API
          call      \* the last call that has returned

marketVars == <<now, ans, cache, page, call>>

Metrics == {"price", "vol", "cap", "pe"}
Cached == {"vol", "cap", "pe"}
NoCall == [kind |-> "none"]

Answers == [up : BOOLEAN, of : [Symbols -> Replies]]

Init == /\ now = 0 /\ ans \in Answers
        /\ cache = [s \in Symbols |-> None]
        /\ page = NoCall /\ call = NoCall

Vendors == /\ \/ ans' = [ans EXCEPT !.up = ~@]
              \/ \E s \in Symbols, r \in Replies : r # ans.of[s] /\ ans' = [ans EXCEPT !.of[s] = r]
           /\ call' = NoCall /\ UNCHANGED <<now, cache, page>>

Has(fields, f) == fields # None /\ f \in fields

(* A batch is keyed by Schwab's names, in which its caller looks a symbol   *)
(* up by its own.                                                           *)
Listed(s) == IF ans.up /\ s \notin ClassShares THEN ans.of[s].schwab ELSE None

(***************************************************************************)
(* Quotes                                                                   *)
(***************************************************************************)
(* The vendors that come after Schwab.                                      *)
Fallback(s) == IF Has(ans.of[s].yahoo, "price") THEN "yfinance"
               ELSE IF ans.of[s].finnhub THEN "finnhub" ELSE None

(* Schwab's client makes a quote of zeros of a symbol without one.          *)
Quote(s) == IF ans.up THEN "schwab" ELSE Fallback(s)

SchwabKnows == {s \in Symbols : ans.up /\ ans.of[s].schwab # None}

(* A batch of which Schwab knows any is Schwab's.                           *)
Quotes == [s \in Symbols |-> IF SchwabKnows = {} THEN Fallback(s)
                             ELSE IF s \in SchwabKnows \ ClassShares THEN "schwab" ELSE None]

AskQuotes == /\ call' = [kind |-> "quotes", batch |-> Quotes, single |-> [s \in Symbols |-> Quote(s)]]
             /\ UNCHANGED <<now, ans, cache, page>>

(***************************************************************************)
(* Metrics                                                                  *)
(***************************************************************************)
(* A field that is set from Schwab, also to nothing, is yfinance's only     *)
(* when Schwab has no record of the symbol.                                 *)
Either(s, f) == IF Listed(s) # None THEN f \in Listed(s) ELSE Has(ans.of[s].yahoo, f)

FirstKnown(s, f) == Has(Listed(s), f) \/ Has(ans.of[s].yahoo, f)

(* get_quotes_with_fundamentals: what it finds of a symbol.  P/E can be had *)
(* from the earnings, the capitalisation from the shares, and the volume,   *)
(* where it is asked for, from minute bars.                                 *)
Known(s, history) ==
  {m \in Metrics :
     CASE m = "price" -> Either(s, "price")
       [] m = "pe"    -> FirstKnown(s, "pe") \/ (Either(s, "eps") /\ Either(s, "price"))
       [] m = "cap"   -> \/ Has(ans.of[s].yahoo, "cap")
                         \/ Has(Listed(s), "shares") /\ Either(s, "price")
       [] OTHER       -> FirstKnown(s, "vol") \/ (history /\ ans.of[s].bars)}

(* _capture_decision_metrics, for the snapshot that is sealed.              *)
Seal(s) == /\ call' = [kind |-> "seal", symbol |-> s, known |-> Known(s, TRUE)]
           /\ UNCHANGED <<now, ans, cache, page>>

(***************************************************************************)
(* The dashboard's cache.  Its requests run one at a time; the stamp is     *)
(* from before the fetch.                                                   *)
(***************************************************************************)
Fresh(s) == cache[s] # None /\ now - cache[s].at < Ttl

Lookup(kind, symbols) ==
  /\ page = NoCall /\ symbols # {}
  /\ page' = [kind |-> kind, at |-> now, symbols |-> symbols,
              hits |-> [s \in {t \in symbols : Fresh(t)} |-> cache[s]]]
  /\ call' = NoCall /\ UNCHANGED <<now, ans, cache>>

(* The API caches whatever came back, the table only what says something.   *)
Kept(known) == page.kind = "api" \/ known \cap Cached # {}

Fetch ==
  /\ page # NoCall
  /\ LET missing == page.symbols \ DOMAIN page.hits
         got == [s \in missing |-> [at |-> page.at, seen |-> now, known |-> Known(s, FALSE)]]
     IN /\ cache' = [s \in Symbols |-> IF s \in missing /\ Kept(got[s].known) THEN got[s]
                                       ELSE cache[s]]
        /\ call' = [kind |-> "page", at |-> page.at,
                    answer |-> [s \in page.symbols |-> IF s \in missing THEN got[s]
                                                      ELSE page.hits[s]]]
  /\ page' = NoCall /\ UNCHANGED <<now, ans>>

(***************************************************************************)
(* Filters                                                                  *)
(***************************************************************************)
(* The fundamentals of one symbol: Schwab's, or yfinance's.                 *)
Fundamentals(s) == IF s \in SchwabKnows THEN ans.of[s].schwab ELSE ans.of[s].yahoo

(* The key under which get_fundamentals returns a metric, and those under   *)
(* which the live filter looks for it.                                      *)
KeyOf(s, m) == CASE m = "cap" -> "market_cap"
                 [] m = "pe"  -> "pe_ratio"
                 [] OTHER     -> IF s \in SchwabKnows THEN "avg_10d_volume" ELSE "avg_volume"

LookedFor(m) == CASE m = "cap" -> {"marketCap"}
                  [] m = "pe"  -> {"peRatio", "trailingPE", "forwardPE"}
                  [] OTHER     -> {"avg10DaysVolume", "averageVolume"}

(* The metrics that _apply_market_filters finds; the price is a quote's,    *)
(* and Schwab's may be zero.                                                *)
Found(s) ==
  {m \in Metrics :
     IF m = "price"
     THEN Quotes[s] # None /\ (Quotes[s] = "schwab" => "price" \in ans.of[s].schwab)
     ELSE Has(Fundamentals(s), m) /\ KeyOf(s, m) \in LookedFor(m)}

(* A live evaluation of a symbol that is below every minimum of a config: a *)
(* metric that is not found is let pass.                                    *)
Evaluate(s) ==
  /\ \E filters \in Filters :
       call' = [kind |-> "live", symbol |-> s, filters |-> filters,
                admitted |-> filters \cap Found(s) = {}]
  /\ UNCHANGED <<now, ans, cache, page>>

Tick == /\ now < MaxTime /\ now' = now + 1 /\ call' = NoCall
        /\ UNCHANGED <<ans, cache, page>>

Next == \/ Vendors \/ AskQuotes \/ Fetch \/ Tick
        \/ \E s \in Symbols : Seal(s) \/ Evaluate(s)
        \/ \E ss \in Pages : Lookup("table", ss) \/ Lookup("api", ss)

Spec == Init /\ [][Next]_marketVars

(* A metric that either vendor tells is sealed, whichever fields the other  *)
(* leaves out or fills with nothing; what the dashboard shows was observed  *)
(* less than a day before its request; and a symbol that any vendor prices  *)
(* is left without a quote only by a batch of which Schwab knows a part     *)
(* (data_service.py:285).                                                   *)
MetricsServed ==
  /\ call.kind = "seal" =>
       \A m \in Cached :
         (m # "cap" /\ Has(Listed(call.symbol), m)) \/ Has(ans.of[call.symbol].yahoo, m)
           => m \in call.known
  /\ call.kind = "page" => \A s \in DOMAIN call.answer : call.answer[s].seen > call.at - Ttl
  /\ call.kind = "quotes" =>
       \A s \in Symbols :
         LET r == ans.of[s]
         IN (ans.up /\ Has(r.schwab, "price")) \/ Has(r.yahoo, "price") \/ r.finnhub =>
              /\ call.single[s] # None
              /\ call.batch[s] = None => SchwabKnows \ {s} # {} \/ s \in ClassShares

(* A live config with a minimum buys no symbol that is below it, if the     *)
(* fundamentals it asks for say so: "Apply filters - uses the same keys as  *)
(* the backtest UI" (live_monitor.py:747).                                  *)
FiltersApply ==
  call.kind = "live" /\ call.admitted =>
    \A m \in call.filters \cap Cached : ~Has(Fundamentals(call.symbol), m)
================================================================================
