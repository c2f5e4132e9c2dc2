----------------------------- MODULE FollowUps -----------------------------
(***************************************************************************)
(* Follow-ups of snapshots that were not bought: at the offsets of a       *)
(* schedule the collector's thread gathers prices, news and paid searches, *)
(* under a cost limit, until every offset is collected.  The dashboard     *)
(* shows each collection as an activity and can flag it for abort; the     *)
(* flag is kept by the ActivityTracker under the activity's id.            *)
(***************************************************************************)
EXTENDS Naturals, FiniteSets

CONSTANTS Ids,          \* follow-ups
          Offsets,      \* length of the schedule
          Searches,     \* web_searches + x_searches of one collection
          WebSearches,  \* the web searches among them
          MaxCost,      \* follow_up_max_cost, in units of one search
          Reserve,      \* below this remainder no search is begun (0.01)
          MaxFee,       \* the most a search costs
          MaxAborts,    \* bound: abort requests of the user
          MaxErrors,    \* bound: collections that fail with an exception
          None

VARIABLES
  fu,       \* the follow_ups table: status, collected offsets, cost
  due,      \* per follow-up, how many offsets have passed
  run,      \* the collection the thread is at
  seen,     \* activities the tracker has shown, ended ones too
  flagged,  \* ids flagged for abort
  spent,    \* what was paid for each follow-up
  aborts, errors

vars == <<fu, due, run, seen, flagged, spent, aborts, errors>>

NoRun == [pc |-> "idle", id |-> None, searched |-> 0, cost |-> 0]

NoFollowUp == [status |-> "absent", collected |-> 0, cost |-> 0]

(* The activity of a collection: the follow-up and the offset, so that a   *)
(* collection that is tried again has the id of the first attempt.         *)
Activity(f) == <<f, fu[f].collected + 1>>
Activities  == Ids \X (1 .. Offsets)

MostSpent == MaxCost + (MaxAborts + MaxErrors + Offsets) * Searches * MaxFee

TypeOK ==
  /\ fu \in [Ids -> [status : {"absent", "active", "complete"},
                     collected : 0 .. Offsets, cost : 0 .. MostSpent]]
  /\ due \in [Ids -> 0 .. Offsets]
  /\ run \in [pc : {"idle", "start", "search", "save"}, id : Ids \cup {None},
              searched : 0 .. Searches, cost : 0 .. MostSpent]
  /\ seen \subseteq Activities /\ flagged \subseteq seen
  /\ spent \in [Ids -> 0 .. MostSpent]
  /\ aborts \in 0 .. MaxAborts /\ errors \in 0 .. MaxErrors

Init ==
  /\ fu = [f \in Ids |-> NoFollowUp]
  /\ due = [f \in Ids |-> 0]
  /\ run = NoRun
  /\ seen = {} /\ flagged = {}
  /\ spent = [f \in Ids |-> 0]
  /\ aborts = 0 /\ errors = 0

(* The orchestrator inserts a follow-up when it created no watch.          *)
Insert(f) ==
  /\ fu[f].status = "absent"
  /\ fu' = [fu EXCEPT ![f].status = "active"]
  /\ UNCHANGED <<due, run, seen, flagged, spent, aborts, errors>>

TimePasses(f) ==
  /\ fu[f].status = "active" /\ due[f] < Offsets
  /\ due' = [due EXCEPT ![f] = @ + 1]
  /\ UNCHANGED <<fu, run, seen, flagged, spent, aborts, errors>>

(* next_offset_label is due: the activity is registered, and an abort      *)
(* flagged before that still counts.                                       *)
BeginCollection(f) ==
  /\ run.pc = "idle" /\ fu[f].status = "active"
  /\ fu[f].collected < due[f]
  /\ seen' = seen \cup {Activity(f)}
  /\ run' = [NoRun EXCEPT !.pc = "start", !.id = f]
  /\ UNCHANGED <<fu, due, flagged, spent, aborts, errors>>

Finish(f) == flagged' = flagged \ {Activity(f)}

Flagged == Activity(run.id) \in flagged

(* An abort leaves without saving, also what was paid.                     *)
Abort ==
  /\ run.pc \in {"start", "search", "save"} /\ Flagged
  /\ Finish(run.id)
  /\ run' = NoRun
  /\ UNCHANGED <<fu, due, seen, spent, aborts, errors>>

(* The queries are planned, by the model or by a template; news and quotes *)
(* are free.                                                               *)
PlanQueries ==
  /\ run.pc = "start" /\ ~Flagged
  /\ run' = [run EXCEPT !.pc = "search"]
  /\ UNCHANGED <<fu, due, seen, flagged, spent, aborts, errors>>

(* Mutant: what earlier collections cost is forgotten.                     *)
RemainderOfCollection == IF run.cost >= MaxCost THEN 0 ELSE MaxCost - run.cost

(* The remainder is looked at before the first web search and before the   *)
(* first X search, not before each.                                        *)
Remainder == IF fu[run.id].cost + run.cost >= MaxCost THEN 0
             ELSE MaxCost - fu[run.id].cost - run.cost

MayBegin == run.searched \in {0, WebSearches} => Remainder > Reserve

Search ==
  /\ run.pc = "search" /\ ~Flagged /\ run.searched < Searches /\ MayBegin
  /\ \E fee \in 1 .. MaxFee :
       /\ run' = [run EXCEPT !.searched = @ + 1, !.cost = @ + fee]
       /\ spent' = [spent EXCEPT ![run.id] = @ + fee]
  /\ UNCHANGED <<fu, due, seen, flagged, aborts, errors>>

(* Without budget the web searches are skipped, and then the X searches.   *)
SkipSearches ==
  /\ run.pc = "search" /\ ~Flagged /\ run.searched < Searches /\ ~MayBegin
  /\ run' = [run EXCEPT !.searched = IF @ < WebSearches THEN WebSearches ELSE Searches]
  /\ UNCHANGED <<fu, due, seen, flagged, spent, aborts, errors>>

Searched ==
  /\ run.pc = "search" /\ ~Flagged /\ run.searched = Searches
  /\ run' = [run EXCEPT !.pc = "save"]
  /\ UNCHANGED <<fu, due, seen, flagged, spent, aborts, errors>>

(* Mutant: the last collection does not complete the follow-up.            *)
SaveOnly ==
  /\ run.pc = "save"
  /\ fu' = [fu EXCEPT ![run.id].collected = @ + 1, ![run.id].cost = @ + run.cost]
  /\ Finish(run.id)
  /\ run' = NoRun
  /\ UNCHANGED <<due, seen, spent, aborts, errors>>

(* The collection is added to the builder and its row written.             *)
Save ==
  /\ run.pc = "save"
  /\ LET f == run.id IN
     /\ fu' = [fu EXCEPT ![f].collected = @ + 1, ![f].cost = @ + run.cost,
                         ![f].status = IF fu[f].collected + 1 = Offsets
                                         THEN "complete" ELSE "active"]
     /\ Finish(f)
  /\ run' = NoRun
  /\ UNCHANGED <<due, seen, spent, aborts, errors>>

(* Any exception is logged; the activity's flag stays.                     *)
Fail ==
  /\ run.pc # "idle" /\ errors < MaxErrors
  /\ errors' = errors + 1
  /\ run' = NoRun
  /\ UNCHANGED <<fu, due, seen, flagged, spent, aborts>>

(* The user aborts an activity of a page that may be old: it may have      *)
(* ended, or be the next attempt by now.  The flag is set all the same.    *)
RequestAbort ==
  /\ aborts < MaxAborts
  /\ \E a \in seen : flagged' = flagged \cup {a}
  /\ aborts' = aborts + 1
  /\ UNCHANGED <<fu, due, run, seen, spent, errors>>

CollectorStep ==
  \/ \E f \in Ids : BeginCollection(f)
  \/ Abort
  \/ PlanQueries
  \/ Search
  \/ SkipSearches
  \/ Searched
  \/ Save

Next ==
  \/ \E f \in Ids : Insert(f) \/ TimePasses(f)
  \/ CollectorStep
  \/ Fail
  \/ RequestAbort

Spec == Init /\ [][Next]_vars

(* Time passes and the collector's loop goes on, through every active      *)
(* follow-up in a cycle.                                                   *)
Fairness == /\ \A f \in Ids : WF_vars(TimePasses(f)) /\ SF_vars(BeginCollection(f))
            /\ WF_vars(CollectorStep)

FairSpec == Spec /\ Fairness

-----------------------------------------------------------------------------
(* Aborts and failures delay a follow-up, they do not strand it: in the    *)
(* end every offset is collected and the follow-up complete.               *)
EveryFollowUpCompletes == \A f \in Ids : fu[f].status = "active" ~> fu[f].status = "complete"

(* What is paid for a follow-up exceeds its limit at most by the searches  *)
(* of one collection, which check the remainder once, and by those of each *)
(* attempt that was aborted or failed, whose cost is not recorded.         *)
OverspendBounded ==
  \A f \in Ids :
    spent[f] <= MaxCost + (1 + aborts + errors) * Searches * MaxFee

(* The comment of follow_up_max_cost: the most a follow-up may cost.       *)
SpendWithinMax == \A f \in Ids : spent[f] <= MaxCost
=============================================================================
