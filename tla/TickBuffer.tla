------------------------------ MODULE TickBuffer -----------------------------
(***************************************************************************)
(* The way of a trade through the tick collector: the stream's thread      *)
(* parses messages and appends trades to the buffer (TickCollector.        *)
(* _parse_l1, TradeBuffer.append), the flush loop drains batches and       *)
(* inserts them into the database (_flush_loop, insert_trades), and the    *)
(* shutdown drains one more batch before it stops the stream (run,         *)
(* _shutdown).                                                             *)
(*                                                                         *)
(* A trade is its symbol and its volume_delta, the growth of the symbol's  *)
(* total volume since the last update that was looked at.  A trade at the  *)
(* exchange is one share, which is its last size as well.  Prices, times   *)
(* and directions are left out.  A message carries each symbol once.       *)
(***************************************************************************)
EXTENDS Integers, Sequences, FiniteSetsExt

CONSTANTS Symbols,
          MaxTotal,     \* bound: a symbol's volume in a session
          Sessions,     \* bound: trading days the collector runs
          MaxBatch,     \* flush_batch_size
          MaxPending,   \* bound: trades in the buffer, when a message comes
          Unknown       \* no total volume seen yet; a trade without one

VARIABLES
  total,      \* total[s]: volume the exchange reports for the session
  day,
  prev,       \* _prev_total_volume
  buffer,     \* TradeBuffer._buf
  batch,      \* drained by the flush loop or the shutdown, not yet inserted
  process,    \* "running", "stopping" (_stop is set), "drained", "stopped"
  flushing,   \* the flush loop has not ended
  stored,     \* stored[s]: volume inserted in this session
  lost,       \* lost[s]: volume of batches whose insertion failed
  opened,     \* opened[s]: the first total of this session that is looked at
  bare        \* bare[s]: its trades that came without a total

vars == <<total, day, prev, buffer, batch, process, flushing, stored, lost, opened, bare>>

Totals == 0..MaxTotal

Trades == Seq([symbol : Symbols, delta : Totals \cup {Unknown}])

(* An update of the stream.  Only fields that changed are sent: an update  *)
(* without a last size is a quote, and a trade can lack the total volume.  *)
Contents == [symbol : Symbols, kind : {"quote", "trade", "bare_trade"}]

Messages == {<<c>> : c \in Contents}
            \cup {m \in Contents \X Contents : m[1].symbol # m[2].symbol}

TypeOK == /\ total \in [Symbols -> Totals] /\ day \in 1..Sessions
          /\ prev \in [Symbols -> Totals \cup {Unknown}]
          /\ buffer \in Trades /\ batch \in Trades
          /\ process \in {"running", "stopping", "drained", "stopped"}
          /\ flushing \in BOOLEAN
          /\ stored \in [Symbols -> Nat] /\ lost \in [Symbols -> Nat]
          /\ opened \in [Symbols -> Totals \cup {Unknown}]
          /\ bare \in [Symbols -> Totals]

Init == /\ total = [s \in Symbols |-> 0] /\ day = 1
        /\ prev = [s \in Symbols |-> Unknown]
        /\ buffer = <<>> /\ batch = <<>>
        /\ process = "running" /\ flushing = TRUE
        /\ stored = [s \in Symbols |-> 0] /\ lost = [s \in Symbols |-> 0]
        /\ opened = [s \in Symbols |-> Unknown] /\ bare = [s \in Symbols |-> 0]

-----------------------------------------------------------------------------
(* The market.                                                             *)

TradeHappens(s) ==
  /\ process # "stopped" /\ total[s] < MaxTotal
  /\ total' = [total EXCEPT ![s] = @ + 1]
  /\ UNCHANGED <<day, prev, buffer, batch, process, flushing, stored, lost, opened, bare>>

(* A trading day begins: totals start again, the collector goes on with    *)
(* yesterday's.  By then the buffer has long been flushed.                 *)
NewSession ==
  /\ process = "running" /\ day < Sessions /\ buffer = <<>> /\ batch = <<>>
  /\ day' = day + 1
  /\ total' = [s \in Symbols |-> 0]
  /\ stored' = [s \in Symbols |-> 0] /\ lost' = [s \in Symbols |-> 0]
  /\ opened' = [s \in Symbols |-> Unknown] /\ bare' = [s \in Symbols |-> 0]
  /\ UNCHANGED <<prev, buffer, batch, process, flushing>>

-----------------------------------------------------------------------------
(* The stream's thread: _parse_l1.                                         *)

Grown(s) == total[s] - prev[s]

(* No new trade: the rest of the message is not looked at either.          *)
Stale(c) == c.kind = "trade" /\ prev[c.symbol] # Unknown /\ Grown(c.symbol) <= 0

Looked(m) == {i \in DOMAIN m : \A j \in 1 .. i - 1 : ~Stale(m[j])}

(* Mutant: the total volume is noted of quotes too.                        *)
NotedOfAll(m) == {m[i].symbol : i \in {j \in Looked(m) : m[j].kind # "bare_trade"}}

(* The symbols whose total volume is noted.                                *)
Noted(m) == {m[i].symbol : i \in {j \in Looked(m) : m[j].kind = "trade"}}

Delta(c) == IF c.kind = "bare_trade" \/ prev[c.symbol] = Unknown THEN Unknown
            ELSE Grown(c.symbol)

AsTrade(c) == [symbol |-> c.symbol, delta |-> Delta(c)]

(* The trades of a message, in its order.                                  *)
Parsed(m) ==
  LET kept == {i \in Looked(m) : m[i].kind # "quote" /\ ~Stale(m[i])}
  IN  IF kept = {1, 2} THEN <<AsTrade(m[1]), AsTrade(m[2])>>
      ELSE IF kept = {} THEN <<>> ELSE <<AsTrade(m[Max(kept)])>>

(* How many trades of a symbol a message brings without a total: one is    *)
(* looked at, or none.                                                     *)
Bare(m, s) ==
  IF \E i \in Looked(m) : m[i].symbol = s /\ m[i].kind = "bare_trade" THEN 1 ELSE 0

(* The trades of a message are appended one at a time; no drain between    *)
(* them matters to what is counted.  A trade comes without a total once.   *)
Receive(m) ==
  /\ process # "stopped"
  /\ \A i \in DOMAIN m : m[i].kind # "quote" => total[m[i].symbol] > 0
  /\ Len(buffer) < MaxPending
  /\ buffer' = buffer \o Parsed(m)
  /\ prev' = [s \in Symbols |-> IF s \in Noted(m) THEN total[s] ELSE prev[s]]
  /\ opened' = [s \in Symbols |-> IF opened[s] = Unknown /\ s \in Noted(m)
                                  THEN total[s] ELSE opened[s]]
  /\ \A s \in Symbols : bare[s] + Bare(m, s) <= total[s]
  /\ bare' = [s \in Symbols |-> bare[s] + Bare(m, s)]
  /\ UNCHANGED <<total, day, batch, process, flushing, stored, lost>>

-----------------------------------------------------------------------------
(* The flush loop and the shutdown.                                        *)

Size == 1

(* COALESCE(volume_delta, size)                                            *)
Counts(t) == IF t.delta = Unknown THEN Size ELSE t.delta

(* The volume that bars_1m sums up of a symbol.                            *)
Volume(trades, s) ==
  MapThenSumSet(LAMBDA i : Counts(trades[i]), {i \in DOMAIN trades : trades[i].symbol = s})

(* TradeBuffer.drain                                                       *)
Drained == LET n == Min({Len(buffer), MaxBatch}) IN
           /\ batch' = SubSeq(buffer, 1, n)
           /\ buffer' = SubSeq(buffer, n + 1, Len(buffer))

(* The loop looks at _stop only after it has slept, drained and inserted.  *)
Drain ==
  /\ flushing /\ batch = <<>>
  /\ buffer # <<>> \/ process = "stopping"
  /\ Drained
  /\ flushing' = (process = "running" \/ buffer # <<>>)
  /\ UNCHANGED <<total, day, prev, process, stored, lost, opened, bare>>

(* insert_trades succeeds, or the batch is lost: the exception is logged   *)
(* by the loop, and ends the program in the shutdown.                      *)
Insert(ok) ==
  /\ batch # <<>>
  /\ batch' = <<>>
  /\ stored' = [s \in Symbols |-> stored[s] + IF ok THEN Volume(batch, s) ELSE 0]
  /\ lost' = [s \in Symbols |-> lost[s] + IF ok THEN 0 ELSE Volume(batch, s)]
  /\ flushing' = (process = "running")
  /\ process' = IF process = "drained" /\ ~ok THEN "stopped" ELSE process
  /\ UNCHANGED <<total, day, prev, buffer, opened, bare>>

(* _handle_signal                                                          *)
Signal ==
  /\ process = "running"
  /\ process' = "stopping"
  /\ UNCHANGED <<total, day, prev, buffer, batch, flushing, stored, lost, opened, bare>>

(* The other loops sleep for up to a minute more before the last batch is  *)
(* drained; the stream goes on meanwhile.                                  *)
FinalDrain ==
  /\ process = "stopping" /\ ~flushing /\ batch = <<>>
  /\ Drained
  /\ process' = "drained"
  /\ UNCHANGED <<total, day, prev, flushing, stored, lost, opened, bare>>

StopStream ==
  /\ process = "drained" /\ batch = <<>>
  /\ process' = "stopped"
  /\ UNCHANGED <<total, day, prev, buffer, batch, flushing, stored, lost, opened, bare>>

Next == \/ \E s \in Symbols : TradeHappens(s)
        \/ NewSession \/ Drain \/ Signal \/ FinalDrain \/ StopStream
        \/ \E m \in Messages : Receive(m)
        \/ \E ok \in BOOLEAN : Insert(ok)

Spec == Init /\ [][Next]_vars

-----------------------------------------------------------------------------
(* All of a symbol's volume in this session that is in the database, or in *)
(* a batch or trade still on its way, or in a batch that was lost.         *)
Counted(s) == stored[s] + lost[s] + Volume(buffer, s) + Volume(batch, s)

(* From the first total of a session that is looked at, each share is      *)
(* counted once, and once more if its trade came without a total first.    *)
(* The first update itself counts for no more than the volume so far.      *)
(* Repeated updates, quotes, updates behind a repeated one and what was    *)
(* known from yesterday must not make it more or less (_parse_l1, drain,   *)
(* _flush_loop, bars_1m).                                                  *)
VolumeComplete ==
  \A s \in Symbols :
    opened[s] # Unknown =>
      /\ prev[s] - opened[s] + bare[s] <= Counted(s)
      /\ Counted(s) <= prev[s] + bare[s]

(* "volume_delta (from total_volume differencing) captures ALL volume that *)
(* moved between L1 updates": the first update of a session, when the one  *)
(* before was of an earlier session, counts at least the volume since the  *)
(* session began (_parse_l1).                                              *)
DeltaCapturesAll ==
  [][\A s \in Symbols :
       prev[s] # Unknown /\ opened[s] = Unknown /\ opened'[s] # Unknown
         => Volume(buffer', s) - Volume(buffer, s) >= total[s]]_vars
=============================================================================
