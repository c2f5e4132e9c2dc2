-------------------------- MODULE TickSubscriptions --------------------------
(***************************************************************************)
(* Which symbols the tick collector streams.  PortfolioSync.sync compares  *)
(* the trader's holding watches with its active symbols; the collector     *)
(* subscribes the new ones, unsubscribes those not held for the cool-off,  *)
(* and its health check restarts a stream that is inactive or silent       *)
(* (_portfolio_sync_loop, _health_check_loop, _restart_stream).            *)
(*                                                                         *)
(* Time passes in health-check intervals.  The stream object (schwabdev)   *)
(* is external: it remembers the subscriptions sent to it and replays them *)
(* when it is started, as the collector's comments say.                    *)
(***************************************************************************)
EXTENDS Naturals

CONSTANTS Symbols,
          Cooloff,       \* portfolio_cooloff_min, in intervals
          DeadAfter,     \* heartbeat_timeout_sec, in intervals
          Cooldown,      \* restart_cooldown_sec, in intervals
          MaxRestarts,   \* restarts without a sign of life before giving up
          SendFails,     \* a send to the stream may raise
          MaxTrades,     \* bound: changes of the trader's holdings
          MaxFaults      \* bound: broken streams, failed reads, failed starts

VARIABLES
  held,      \* symbols with a holding watch in trader.db
  active,    \* PortfolioSync._active
  age,       \* age[s]: intervals since _last_held, Cooloff + 1 when longer or never
  subs,      \* subscriptions the stream object remembers
  stream,    \* "up", "deaf" (active, but nothing arrives), "down" (inactive)
  heard,     \* _last_message_time is set
  silence,   \* intervals since _last_message_time, at most DeadAfter
  restarts,  \* consecutive_restarts
  waited,    \* intervals since the last restart attempt, at most Cooldown
  running,   \* _stop is not set
  trades, faults

portfolioVars == <<active, age, subs>>
healthVars == <<stream, heard, silence, restarts, waited>>
vars == <<held, portfolioVars, healthVars, running, trades, faults>>

TypeOK == /\ held \subseteq Symbols /\ active \subseteq Symbols /\ subs \subseteq Symbols
          /\ age \in [Symbols -> 0 .. Cooloff + 1]
          /\ stream \in {"up", "deaf", "down"}
          /\ heard \in BOOLEAN /\ silence \in 0..DeadAfter
          /\ restarts \in 0 .. MaxRestarts + 1 /\ waited \in 0..Cooldown
          /\ running \in BOOLEAN
          /\ trades \in 0..MaxTrades /\ faults \in 0..MaxFaults

(* run: the first sync finds a holding, the stream connects and the active *)
(* symbols are subscribed.                                                 *)
Init == /\ held \in SUBSET Symbols \ {{}}
        /\ active = held /\ subs = held
        /\ age = [s \in Symbols |-> IF s \in held THEN 0 ELSE Cooloff + 1]
        /\ stream = "up" /\ heard = FALSE /\ silence = 0
        /\ restarts = 0 /\ waited = Cooldown
        /\ running = TRUE /\ trades = 0 /\ faults = 0

-----------------------------------------------------------------------------
(* The trader, the network and time.                                       *)

TraderBuysOrSells(s) ==
  /\ trades < MaxTrades
  /\ trades' = trades + 1
  /\ held' = IF s \in held THEN held \ {s} ELSE held \cup {s}
  /\ UNCHANGED <<portfolioVars, healthVars, running, faults>>

StreamBreaks ==
  /\ stream = "up" /\ faults < MaxFaults
  /\ faults' = faults + 1
  /\ stream' \in {"deaf", "down"}
  /\ UNCHANGED <<held, portfolioVars, heard, silence, restarts, waited,
                 running, trades>>

(* _on_message: data, or a heartbeat.                                      *)
Message ==
  /\ stream = "up"
  /\ heard' = TRUE /\ silence' = 0
  /\ UNCHANGED <<held, portfolioVars, stream, restarts, waited, running,
                 trades, faults>>

UpTo(n, bound) == IF n < bound THEN n + 1 ELSE bound

(* A stream that is up is heard of in every interval.                      *)
TimePasses ==
  /\ running
  /\ IF stream = "up" THEN heard' = TRUE /\ silence' = 0
     ELSE heard' = heard /\ silence' = IF heard THEN UpTo(silence, DeadAfter) ELSE 0
  /\ waited' = UpTo(waited, Cooldown)
  /\ age' = [s \in Symbols |-> UpTo(age[s], Cooloff + 1)]
  /\ UNCHANGED <<held, active, subs, stream, restarts, running, trades, faults>>

-----------------------------------------------------------------------------
(* PortfolioSync.sync with the loop's subscriptions.  A trader.db that     *)
(* cannot be read holds nothing.                                           *)

ToAdd(found) == found \ active

ToRemove(found) == {s \in active \ found : age[s] > Cooloff}

Sync(readable) ==
  LET found == IF readable THEN held ELSE {}
  IN  /\ age' = [s \in Symbols |-> IF s \in found THEN 0
                                   ELSE IF s \in ToRemove(found) THEN Cooloff + 1
                                   ELSE age[s]]
      /\ active' = (active \cup ToAdd(found)) \ ToRemove(found)
      /\ \E sent \in IF SendFails THEN BOOLEAN ELSE {TRUE} :
           subs' = IF sent THEN (subs \cup ToAdd(found)) \ ToRemove(found) ELSE subs

SyncPortfolio ==
  /\ running
  /\ Sync(TRUE)
  /\ UNCHANGED <<held, healthVars, running, trades, faults>>

SyncUnreadable ==
  /\ running /\ faults < MaxFaults
  /\ faults' = faults + 1
  /\ Sync(FALSE)
  /\ UNCHANGED <<held, healthVars, running, trades>>

-----------------------------------------------------------------------------
(* _health_check_loop                                                      *)

Well == stream # "down" /\ silence < DeadAfter

FoundWell ==
  /\ running /\ heard /\ Well
  /\ restarts' = 0
  /\ UNCHANGED <<held, portfolioVars, stream, heard, silence, waited, running, trades, faults>>

MayRestart == running /\ heard /\ ~Well /\ waited = Cooldown

(* Mutant: the restart clears the subscriptions.                           *)
RestartedEmpty ==
  /\ UNCHANGED <<active, age>> /\ subs' = {}
  /\ stream' = "up"

(* _restart_stream: the subscriptions are kept and replayed.               *)
Restarted ==
  /\ UNCHANGED portfolioVars
  /\ stream' = "up"

Restart ==
  /\ MayRestart /\ restarts < MaxRestarts
  /\ restarts' = restarts + 1
  /\ waited' = 0
  /\ Restarted
  /\ UNCHANGED <<held, heard, silence, running, trades, faults>>

(* stop or start raises, or the stream does not connect.                   *)
RestartFails ==
  /\ MayRestart /\ restarts < MaxRestarts /\ faults < MaxFaults
  /\ faults' = faults + 1
  /\ restarts' = restarts + 1
  /\ waited' = 0
  /\ stream' = "down"
  /\ UNCHANGED <<held, portfolioVars, heard, silence, running, trades>>

(* More than MaxRestarts: only an error is logged from here on, but a      *)
(* stream that connects again by itself is found well again.               *)
GiveUp ==
  /\ MayRestart /\ restarts = MaxRestarts
  /\ restarts' = MaxRestarts + 1
  /\ UNCHANGED <<held, portfolioVars, stream, heard, silence, waited,
                 running, trades, faults>>

HealthCheck == FoundWell \/ Restart \/ RestartFails \/ GiveUp

StreamReconnects ==
  /\ stream # "up"
  /\ stream' = "up"
  /\ UNCHANGED <<held, portfolioVars, heard, silence, restarts, waited,
                 running, trades, faults>>

(* _handle_signal                                                          *)
Signal ==
  /\ running
  /\ running' = FALSE
  /\ UNCHANGED <<held, portfolioVars, healthVars, trades, faults>>

Next == \/ \E s \in Symbols : TraderBuysOrSells(s)
        \/ StreamBreaks \/ Message \/ TimePasses
        \/ SyncPortfolio \/ SyncUnreadable
        \/ HealthCheck \/ StreamReconnects \/ Signal

(* The loops run until the signal; that a stream reconnects by itself is   *)
(* not assumed.                                                            *)
Fairness == /\ WF_vars(TimePasses) /\ WF_vars(SyncPortfolio)
            /\ WF_vars(HealthCheck)

Spec == Init /\ [][Next]_vars

FairSpec == Spec /\ Fairness

-----------------------------------------------------------------------------
GivenUp == restarts > MaxRestarts

Streamed(s) == stream = "up" /\ s \in subs

(* A symbol that the trader holds comes to be streamed, whatever breaks:   *)
(* the stream, its restarts, the reading of the portfolio; unless it is    *)
(* sold, the collector is stopped or has given up, or the stream broke     *)
(* before its first message, when the health check does not begin.         *)
HeldIsStreamed ==
  \A s \in Symbols :
    s \in held ~> Streamed(s) \/ s \notin held \/ ~running \/ GivenUp \/ ~heard
=============================================================================
