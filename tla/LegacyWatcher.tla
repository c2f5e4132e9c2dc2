----------------------------- MODULE LegacyWatcher -----------------------------
(***************************************************************************)
(* The watch monitor that came before the live exit monitor, and that      *)
(* WATCH_LEGACY_MONITOR=1 starts beside it: check-ins by price or by an    *)
(* agent, then a retrospective phase, then the seal.  A cycle reads every  *)
(* active row first and writes whole rows made from those copies, some of  *)
(* them after an agent's call.  The dashboard exits a watch by a read and  *)
(* a write too; the live monitor's writes go by the status.  Ages are in   *)
(* units of the schedules and stop at Top.                                 *)
(***************************************************************************)
EXTENDS Integers, Sequences, SequencesExt, FiniteSets

CONSTANTS Watches, Prices, Entry, StopLoss, None,
          Checkins,      \* CHECKIN_SCHEDULE: <<[until, every, depth]>>
          Retros,        \* RETRO_SCHEDULE: <<[until, every]>>
          MaxRetro,      \* WATCH_MAX_RETRO_MINUTES
          Top,           \* the age at which the count stops
          Online         \* whether agents may be called

VARIABLES row,       \* the watches table
          quote,     \* the price that can be had now, or None
          cycle,     \* copies still to be handled, and the depth an agent works at
          dash,      \* the dashboard's copy of a watch it exits
          postExit   \* follow-ups created for a sealed watch

watchVars == <<row, quote, cycle, dash, postExit>>

NewRow == [status |-> "holding", held |-> 0, idle |-> Top, exit |-> None, retro |-> 0,
           best |-> 0, worst |-> 0]

Idle == [todo |-> <<>>, agent |-> None]

Init == /\ row = [w \in Watches |-> NewRow] /\ quote \in Prices \cup {None}
        /\ cycle = Idle /\ dash = None /\ postExit = [w \in Watches |-> 0]

Active == {"holding", "exited", "retrospective", "cooling_off"}

(* Time, for rows and for the copies, whose timestamps age as well.        *)
Older(r) == LET next(age) == IF age < Top THEN age + 1 ELSE age
            IN [r EXCEPT !.held = next(@), !.idle = next(@), !.retro = next(@)]

Tick == /\ row' = [w \in Watches |-> Older(row[w])]
        /\ cycle' = [cycle EXCEPT !.todo = [i \in DOMAIN @ |-> [@[i] EXCEPT !.row = Older(@)]]]
        /\ dash' = IF dash = None THEN None ELSE [dash EXCEPT !.row = Older(@)]
        /\ UNCHANGED <<quote, postExit>>

NewQuote == /\ \E p \in (Prices \cup {None}) \ {quote} : quote' = p
            /\ UNCHANGED <<row, cycle, dash, postExit>>

(* The first line of a schedule that the age has not reached.              *)
Line(schedule, age) == SelectSeq(schedule, LAMBDA l : age < l.until)

Depth(age) == IF Line(Checkins, age) = <<>> THEN "force_exit" ELSE Line(Checkins, age)[1].depth

Due(schedule, age, idle) == \E i \in DOMAIN Line(schedule, age) :
                              i = 1 /\ idle >= Line(schedule, age)[i].every

IsDue(r) == Depth(r.held) = "force_exit" \/ Due(Checkins, r.held, r.idle)

IsRetroDue(r) == Due(Retros, r.retro, r.idle)

StartCycle ==
  /\ cycle = Idle
  /\ \E s \in SetToSeqs({w \in Watches : row[w].status \in Active}) :
       /\ s # <<>>
       /\ cycle' = [todo |-> [i \in DOMAIN s |-> [watch |-> s[i], row |-> row[s[i]]]],
                    agent |-> None]
  /\ UNCHANGED <<row, quote, dash, postExit>>

W == Head(cycle.todo).watch
Copy == Head(cycle.todo).row
Handles(status) == cycle.todo # <<>> /\ cycle.agent = None /\ Copy.status = status

Done == cycle' = [todo |-> Tail(cycle.todo), agent |-> None]

Save(r) == row' = [row EXCEPT ![W] = r] /\ Done /\ UNCHANGED <<quote, dash, postExit>>

Skip == Done /\ UNCHANGED <<row, quote, dash, postExit>>

RecordExit(r, price) == [r EXCEPT !.status = "exited", !.exit = price]

Light == ~Online \/ Depth(Copy.held) = "lightweight"

(* A check by price: nothing without one, an exit at a large loss.          *)
LightweightCheckin ==
  /\ Handles("holding") /\ IsDue(Copy) /\ Light /\ quote # None
  /\ LET r == [Copy EXCEPT !.idle = 0]
     IN Save(IF quote - Entry < -StopLoss THEN RecordExit(r, quote) ELSE r)

NothingToDo ==
  /\ \/ Handles("holding") /\ (~IsDue(Copy) \/ (Light /\ quote = None))
     \/ Handles("retrospective") /\ Copy.retro < MaxRetro
          /\ (~IsRetroDue(Copy) \/ quote = None)
     \/ Handles("cooling_off")
  /\ Skip

CallAgent == /\ Handles("holding") /\ IsDue(Copy) /\ ~Light
             /\ cycle' = [cycle EXCEPT !.agent = Depth(Copy.held)]
             /\ UNCHANGED <<row, quote, dash, postExit>>

(* Mutant: the agent is asked to exit and may still hold.                  *)
AsAnswered(depth, action) == action

(* Past the last line of the schedule an agent that holds is overridden.   *)
Decided(depth, action) == IF depth = "force_exit" THEN "exit" ELSE action

(* The answer is judged by the depth that was chosen when the call began.  *)
AgentAnswers ==
  /\ cycle.agent # None
  /\ \E action \in {"hold", "exit"} :
       LET r == [Copy EXCEPT !.idle = 0]
       IN Save(IF Decided(cycle.agent, action) = "exit"
               THEN RecordExit(r, IF quote = None THEN Entry ELSE quote) ELSE r)

(* Any exception in a check-in: the copy is written back, checked just now. *)
Fails == cycle.agent # None /\ Save([Copy EXCEPT !.idle = 0])

StartRetrospective ==
  /\ Handles("exited")
  /\ Save([Copy EXCEPT !.status = "retrospective", !.retro = 0, !.best = 0, !.worst = 0])

Larger(a, b) == IF a > b THEN a ELSE b
Smaller(a, b) == IF a < b THEN a ELSE b

Folded(r) == IF quote = None THEN r
             ELSE [r EXCEPT !.best = Larger(@, quote - r.exit),
                            !.worst = Smaller(@, quote - r.exit)]

RetrospectiveCheck ==
  /\ Handles("retrospective") /\ Copy.retro < MaxRetro /\ IsRetroDue(Copy) /\ quote # None
  /\ Save([Folded(Copy) EXCEPT !.idle = 0])

(* The seal, and a follow-up for what comes after the exit.                *)
SealWatch ==
  /\ Handles("retrospective") /\ Copy.retro >= MaxRetro
  /\ row' = [row EXCEPT ![W] = [Folded(Copy) EXCEPT !.status = "sealed"]]
  /\ postExit' = [postExit EXCEPT ![W] = IF @ < 2 THEN @ + 1 ELSE @]
  /\ Done /\ UNCHANGED <<quote, dash>>

Handle == \/ LightweightCheckin \/ NothingToDo \/ CallAgent
          \/ StartRetrospective \/ RetrospectiveCheck \/ SealWatch

(* POST /api/watches/{id}/exit: a read, a quote, a write of the whole row. *)
DashboardReads(w) == /\ dash = None /\ row[w].status = "holding"
                     /\ dash' = [watch |-> w, row |-> row[w]]
                     /\ UNCHANGED <<row, quote, cycle, postExit>>

DashboardExits ==
  /\ dash # None
  /\ row' = [row EXCEPT ![dash.watch] =
               RecordExit(dash.row, IF quote = None THEN Entry ELSE quote)]
  /\ dash' = None /\ UNCHANGED <<quote, cycle, postExit>>

(* The live monitor, on the row as it is: an exit, the cooling off, a seal. *)
LiveMonitor(w) ==
  /\ \/ /\ row[w].status = "holding" /\ quote # None
        /\ row' = [row EXCEPT ![w] = RecordExit(@, quote)]
     \/ /\ row[w].status = "exited" /\ row' = [row EXCEPT ![w].status = "cooling_off"]
     \/ /\ row[w].status = "cooling_off" /\ row' = [row EXCEPT ![w].status = "sealed"]
  /\ UNCHANGED <<quote, cycle, dash, postExit>>

(* An answer after the last line of the schedule, and the end of a cooling *)
(* off, of which the fairness speaks.                                      *)
OverriddenAnswer == cycle.agent = "force_exit" /\ AgentAnswers

CoolingEnds(w) == row[w].status = "cooling_off" /\ LiveMonitor(w)

Next == \/ Tick \/ NewQuote \/ StartCycle \/ Handle \/ AgentAnswers \/ Fails \/ DashboardExits
        \/ \E w \in Watches : DashboardReads(w) \/ LiveMonitor(w)

(* The loop goes on, its agent's calls end and not all of them fail, and   *)
(* the live monitor lets no watch cool off for ever.                       *)
Fairness ==
  /\ WF_watchVars(Tick) /\ WF_watchVars(StartCycle) /\ WF_watchVars(Handle)
  /\ WF_watchVars(AgentAnswers \/ Fails)
  /\ SF_watchVars(OverriddenAnswer)
  /\ WF_watchVars(DashboardExits)
  /\ \A w \in Watches : WF_watchVars(CoolingEnds(w))

FairSpec == Init /\ [][Next]_watchVars /\ Fairness

(* No watch is held or tracked for ever, however its check-ins fail and    *)
(* whoever else writes its row: a late check-in must exit (watcher.py:317), *)
(* the retrospective ends.                                                 *)
EveryWatchSealed == \A w \in Watches : row[w].status = "holding" ~> row[w].status = "sealed"
=============================================================================
