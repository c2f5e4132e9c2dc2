------------------------------- MODULE Switches -------------------------------
(***************************************************************************)
(* What the dashboard switches while the program runs: the news feeds, each *)
(* a subprocess that writes files and a directory that the file observer    *)
(* watches (feed_manager.py), and online mode, which the market's hours     *)
(* switch too (online_mode.py).  A feed is started in two steps by two      *)
(* threads: main starts its subprocess, and the thread of the watch loop    *)
(* gives it the observer and schedules the directory, while toggles of the  *)
(* dashboard arrive.  The lock of a feed makes each call one step.          *)
(***************************************************************************)
CONSTANTS Feeds, None

VARIABLES started,     \* feeds main has registered, and whether it has gone on
          loop,        \* where the watch loop is with a feed
          feed,        \* a FeedManager, and whether its directory is observed
          setting,     \* "online" and "online_auto_market_hours" in .env
          market,      \* the trading session is open
          online,      \* enabled, and the manual override
          reading,     \* what the automatic loop has read of the market
          choice       \* history: the last toggle, and whether the market has
                       \* turned since, as far as the loop can know

feedVars == <<started, loop, feed>>
modeVars == <<setting, market, online, reading, choice>>
switchVars == <<feedVars, modeVars>>

NoChoice == [value |-> None, turned |-> FALSE]

Init == /\ started = [feeds |-> {}, up |-> FALSE]
        /\ loop = [f \in Feeds |-> "wire"]
        /\ \E on \in [Feeds -> BOOLEAN] :
             feed = [f \in Feeds |-> [enabled |-> on[f], proc |-> "none", wired |-> FALSE,
                                      handle |-> FALSE, observed |-> FALSE]]
        /\ setting \in [online : BOOLEAN, auto : BOOLEAN]
        /\ market \in BOOLEAN
        /\ online \in [enabled : {FALSE, setting.online}, override : {FALSE}]
        /\ reading = None /\ choice = NoChoice

(***************************************************************************)
(* Feeds.                                                                   *)
(***************************************************************************)
StartFeed(f) ==
  /\ f \notin started.feeds /\ started' = [started EXCEPT !.feeds = @ \cup {f}]
  /\ feed' = IF feed[f].enabled THEN [feed EXCEPT ![f].proc = "running"] ELSE feed
  /\ UNCHANGED <<loop, modeVars>>

StartWatchLoop == /\ started.feeds = Feeds /\ ~started.up /\ started' = [started EXCEPT !.up = TRUE]
                  /\ UNCHANGED <<loop, feed, modeVars>>

Scheduled(m) ==
  IF m.wired /\ ~m.handle THEN [m EXCEPT !.handle = TRUE, !.observed = TRUE] ELSE m

(* Mutant: the handle of a watch is kept when the watch is ended.           *)
UnscheduledInPart(m) == IF m.wired /\ m.handle THEN [m EXCEPT !.observed = FALSE] ELSE m

Unscheduled(m) ==
  IF m.wired /\ m.handle THEN [m EXCEPT !.handle = FALSE, !.observed = FALSE] ELSE m

(* The watch loop goes from feed to feed.                                   *)
AtFeed(f, pc) == /\ started.up /\ loop[f] = pc
                 /\ \A g \in Feeds \ {f} : loop[g] \in {"wire", "done"}

SetObserver(f) == /\ AtFeed(f, "wire") /\ loop' = [loop EXCEPT ![f] = "look"]
                  /\ feed' = [feed EXCEPT ![f].wired = TRUE]
                  /\ UNCHANGED <<started, modeVars>>

LookIfEnabled(f) ==
  /\ AtFeed(f, "look")
  /\ loop' = [loop EXCEPT ![f] = IF feed[f].enabled THEN "schedule" ELSE "done"]
  /\ UNCHANGED <<started, feed, modeVars>>

ScheduleWatch(f) == /\ AtFeed(f, "schedule") /\ loop' = [loop EXCEPT ![f] = "done"]
                    /\ feed' = [feed EXCEPT ![f] = Scheduled(@)]
                    /\ UNCHANGED <<started, modeVars>>

Toggle(f) ==
  /\ started.up
  /\ feed' = [feed EXCEPT ![f] = IF @.enabled
                THEN [Unscheduled(@) EXCEPT !.proc = "none", !.enabled = FALSE]
                ELSE [Scheduled(@) EXCEPT !.proc = "running", !.enabled = TRUE]]
  /\ UNCHANGED <<started, loop, modeVars>>

(* Nobody looks after a subprocess that has ended by itself.                *)
FeedEnds(f) == /\ feed[f].proc = "running" /\ feed' = [feed EXCEPT ![f].proc = "ended"]
               /\ UNCHANGED <<started, loop, modeVars>>

(***************************************************************************)
(* Online mode.  The loop reads the market before it takes the lock.        *)
(***************************************************************************)
MarketTurns == /\ market' = ~market /\ choice' = [choice EXCEPT !.turned = TRUE]
               /\ UNCHANGED <<feedVars, setting, online, reading>>

ReadMarket == /\ setting.auto /\ reading = None /\ reading' = market
              /\ UNCHANGED <<feedVars, setting, market, online, choice>>

(* Mutant: an override lasts until the next look at the market.             *)
SyncedNextTime(mode, open) ==
  IF mode.override THEN [mode EXCEPT !.override = FALSE] ELSE [mode EXCEPT !.enabled = open]

(* An override lasts until the market is what was chosen.                   *)
Synced(mode, open) ==
  IF mode.override THEN [mode EXCEPT !.override = mode.enabled # open]
                   ELSE [mode EXCEPT !.enabled = open]

SyncMode == /\ reading # None /\ reading' = None /\ online' = Synced(online, reading)
            /\ UNCHANGED <<feedVars, setting, market, choice>>

ToggleOnline ==
  /\ started.up /\ online' = [enabled |-> ~online.enabled, override |-> TRUE]
  /\ choice' = [value |-> online'.enabled, turned |-> reading = ~market]
  /\ UNCHANGED <<feedVars, setting, market, reading>>

(* A reload of .env sets the mode if the setting has changed.               *)
Reload == /\ started.up /\ setting' = [setting EXCEPT !.online = ~@]
          /\ online' = [online EXCEPT !.enabled = setting'.online] /\ choice' = NoChoice
          /\ UNCHANGED <<feedVars, market, reading>>

Next == \/ StartWatchLoop \/ MarketTurns \/ ReadMarket \/ SyncMode \/ ToggleOnline \/ Reload
        \/ \E f \in Feeds : \/ StartFeed(f) \/ SetObserver(f) \/ LookIfEnabled(f)
                            \/ ScheduleWatch(f) \/ Toggle(f) \/ FeedEnds(f)

Spec == Init /\ [][Next]_switchVars

(* A feed that is enabled has a subprocess once main has started it, and    *)
(* its directory is observed once the watch loop is done with it, whatever  *)
(* toggles came before, between and after; a disabled feed has no           *)
(* subprocess (feed_manager.py:91, orchestrator.py:1372).                   *)
EnabledIsWatched ==
  \A f \in started.feeds : /\ feed[f].enabled <=> feed[f].proc # "none"
                           /\ feed[f].enabled /\ loop[f] = "done" => feed[f].observed

(* "Manual toggle sets an override that persists until the next natural     *)
(* auto transition" (online_mode.py:15): the mode stays as it was chosen    *)
(* until the market turns, or has turned since the loop last read it.       *)
ManualStands == choice.value # None /\ ~choice.turned => online.enabled = choice.value
===============================================================================
