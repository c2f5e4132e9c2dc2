------------------------------- MODULE XStream -------------------------------
(***************************************************************************)
(* The bursts of the X stream service: an exploration may start a burst    *)
(* (XStreamService.start_burst), a thread that adds filter rules at X,     *)
(* buffers posts until an LLM has judged them relevant, tries again with   *)
(* revised rules, and removes its rules (_run_burst).  The program purges  *)
(* all rules when it starts and when it ends (main, stop).                 *)
(*                                                                         *)
(* A rule is a value, and X knows each value once, so that adding one that *)
(* is there creates nothing.  Posts are not counted: a burst's time to     *)
(* live, its limit of posts and the number to be judged can be reached     *)
(* whenever the code looks at them.  The increment of _bursts_today is one *)
(* step: no other thread can run inside it.                                *)
(***************************************************************************)
EXTENDS Naturals, FiniteSets

CONSTANTS Threads,      \* threads that explore
          Slots,        \* burst threads that can exist at once
          Rules,        \* rules of an exploration's symbols
          Revised,      \* rules the judge suggests
          MaxBursts,    \* max_bursts_per_day
          Retries,      \* max_quality_retries
          MaxEvents,    \* bound: ends of days, ends of the program, failing requests
          None

VARIABLES
  today,
  day, count,    \* _day, _bursts_today
  starter,       \* starter[t]: how far t is with start_burst
  current,       \* _current_burst_thread
  burst,         \* burst[b]: the locals of _run_burst in thread b
  stopEvt,       \* _burst_stop_evt
  atX,           \* rules at X
  kept,          \* rules at X that a failed request left in nobody's hands
  started,       \* bursts started since the day and the program began
  ending,        \* the program ends: stop is running
  events         \* of those that are bounded

burstVars == <<burst, atX, kept>>
vars == <<today, day, count, starter, current, stopEvt, started, ending, events, burstVars>>

NoBurst == [pc |-> "ended", attempt |-> 0, created |-> {}, next |-> "done"]

Locals == [pc : {"attempt", "add", "collect", "flush", "cleanup", "ended"},
           attempt : 0..Retries,
           created : SUBSET (Rules \cup Revised),
           next : {"done", "retry", "raise"}]

TypeOK ==
  /\ today \in 0..MaxEvents /\ day \in 0..MaxEvents /\ count \in Nat
  /\ starter \in [Threads -> {"idle", "clear"}]
  /\ current \in Slots \cup {None}
  /\ burst \in [Slots -> Locals]
  /\ stopEvt \in BOOLEAN
  /\ atX \subseteq Rules \cup Revised /\ kept \subseteq atX
  /\ started \in Nat /\ ending \in {"no", "stop", "purged"}
  /\ events \in 0..MaxEvents

Init ==
  /\ today = 0 /\ day = 0 /\ count = 0
  /\ starter = [t \in Threads |-> "idle"]
  /\ current = None
  /\ burst = [b \in Slots |-> NoBurst]
  /\ stopEvt = FALSE
  /\ atX = {} /\ kept = {}
  /\ started = 0 /\ ending = "no" /\ events = 0

Alive(b) == burst[b].pc # "ended"

-----------------------------------------------------------------------------
(* start_burst, on the threads that explore.                               *)

DayEnds ==
  /\ events < MaxEvents /\ events' = events + 1
  /\ today' = today + 1 /\ started' = 0
  /\ UNCHANGED <<day, count, starter, current, stopEvt, ending, burstVars>>

(* _can_start_burst, where a new day starts the count again, and the look  *)
(* at the current burst.                                                   *)
Check(t) ==
  /\ starter[t] = "idle"
  /\ day' = today
  /\ count' = IF day # today THEN 0 ELSE count
  /\ starter' = [starter EXCEPT ![t] =
                    IF count' < MaxBursts /\ (current = None \/ ~Alive(current))
                      THEN "clear" ELSE "idle"]
  /\ UNCHANGED <<today, current, stopEvt, started, ending, events, burstVars>>

(* Mutant: a burst is counted when it ends.                                *)
CountedLater == UNCHANGED count

Counted == count' = count + 1

StartBurst(t) ==
  /\ starter[t] = "clear"
  /\ Counted
  /\ stopEvt' = FALSE
  /\ \E b \in Slots : ~Alive(b)
  /\ current' = CHOOSE b \in Slots : ~Alive(b)
  /\ burst' = [burst EXCEPT ![current'] = [NoBurst EXCEPT !.pc = "attempt"]]
  /\ started' = started + 1
  /\ starter' = [starter EXCEPT ![t] = "idle"]
  /\ UNCHANGED <<today, day, ending, events, atX, kept>>

-----------------------------------------------------------------------------
(* _run_burst, on its own thread.                                          *)

Keep == UNCHANGED <<today, day, count, starter, current, stopEvt, started, ending>>

(* The first attempt is for the symbols, the others for the judge's rules. *)
RulesOf(b) == IF burst[b].attempt = 0 THEN Rules ELSE Revised

(* The time to live is over, the burst is to stop, or add_rules raises     *)
(* outside of the try and X has done nothing.                              *)
EndBurst(b) ==
  /\ burst[b].pc \in {"attempt", "add"}
  /\ burst' = [burst EXCEPT ![b] = NoBurst]
  /\ Keep /\ UNCHANGED <<atX, kept, events>>

Attempt(b) ==
  /\ burst[b].pc = "attempt" /\ ~stopEvt
  /\ burst' = [burst EXCEPT ![b].pc = "add"]
  /\ Keep /\ UNCHANGED <<atX, kept, events>>

(* Whatever the program has been told since the burst looked.              *)
AddRules(b) ==
  /\ burst[b].pc = "add"
  /\ burst' = [burst EXCEPT ![b].pc = "collect", ![b].created = RulesOf(b) \ atX]
  /\ atX' = atX \cup RulesOf(b)
  /\ Keep /\ UNCHANGED <<kept, events>>

(* add_rules raises as well when its answer is lost, and X has created the *)
(* rules: their ids are unknown, and no finally clause will remove them.   *)
AddTimesOut(b) ==
  /\ burst[b].pc = "add" /\ events < MaxEvents
  /\ events' = events + 1
  /\ \E added \in SUBSET (RulesOf(b) \ atX) : atX' = atX \cup added /\ kept' = kept \cup added
  /\ burst' = [burst EXCEPT ![b] = NoBurst]
  /\ Keep

Leave(b, next) == burst' = [burst EXCEPT ![b].pc = "cleanup", ![b].next = next]

(* Enough posts are collected: they are judged relevant, and later ones    *)
(* are flushed as they arrive; or irrelevant, with or without better       *)
(* rules; or they cannot be judged, which ends the burst as well.          *)
Judge(b) ==
  /\ burst[b].pc = "collect" /\ ~stopEvt
  /\ \/ burst' = [burst EXCEPT ![b].pc = "flush"]
     \/ \E next \in {"retry", "done"} : Leave(b, next)
  /\ Keep /\ UNCHANGED <<atX, kept, events>>

(* The time is over, the stream cannot be read, the limit of posts raises, *)
(* or a post arrives after the burst was told to stop.                     *)
LeaveStream(b) ==
  /\ burst[b].pc \in {"collect", "flush"}
  /\ \E next \in {"done", "raise"} : Leave(b, next)
  /\ Keep /\ UNCHANGED <<atX, kept, events>>

Again(b) == burst[b].next = "retry" /\ burst[b].attempt < Retries

Decided(b) ==
  burst' = [burst EXCEPT ![b] =
              IF Again(b) THEN [NoBurst EXCEPT !.pc = "attempt", !.attempt = burst[b].attempt + 1]
              ELSE NoBurst]

(* Mutant: the rules are removed only by an attempt that succeeds or fails *)
(* in order.                                                               *)
RemovedUnlessRaised(b) == IF burst[b].next = "raise" THEN {} ELSE burst[b].created

(* The finally clause removes the rules of this attempt.                   *)
Removed(b) == burst[b].created

Cleanup(b) ==
  /\ burst[b].pc = "cleanup"
  /\ atX' = atX \ Removed(b) /\ kept' = kept \ Removed(b)
  /\ Decided(b)
  /\ Keep /\ UNCHANGED events

(* delete_rules raises: the rules that X has not removed by then stay, and *)
(* are in nobody's hands.                                                  *)
CleanupFails(b) ==
  /\ burst[b].pc = "cleanup" /\ events < MaxEvents
  /\ events' = events + 1
  /\ \E gone \in SUBSET burst[b].created :
       /\ atX' = atX \ gone
       /\ kept' = (kept \cup (burst[b].created \cap atX)) \ gone
  /\ Decided(b)
  /\ Keep

-----------------------------------------------------------------------------
(* The end of the program and its next start.                              *)

Stop ==
  /\ ending = "no" /\ events < MaxEvents
  /\ ending' = "stop" /\ stopEvt' = TRUE
  /\ UNCHANGED <<today, day, count, starter, current, started, events, burstVars>>

(* After five seconds the rules are purged, whether the burst has ended or *)
(* not; when that fails it is left to the next start.                      *)
Purge ==
  /\ ending = "stop"
  /\ ending' = "purged"
  /\ atX' = {} /\ kept' = {}
  /\ UNCHANGED <<today, day, count, starter, current, stopEvt, started, events, burst>>

(* The process is gone with its threads, in order or by a crash; the start *)
(* purges what is at X.                                                    *)
Restart ==
  /\ events < MaxEvents
  /\ events' = events + 1
  /\ \/ atX' = {} /\ kept' = {}
     \/ UNCHANGED atX /\ kept' = atX
  /\ day' = today /\ count' = 0 /\ started' = 0
  /\ starter' = [t \in Threads |-> "idle"]
  /\ current' = None /\ stopEvt' = FALSE /\ ending' = "no"
  /\ burst' = [b \in Slots |-> NoBurst]
  /\ UNCHANGED today

Next == \/ \E t \in Threads : Check(t) \/ StartBurst(t)
        \/ \E b \in Slots : \/ EndBurst(b) \/ Attempt(b) \/ AddRules(b) \/ AddTimesOut(b)
                            \/ Judge(b) \/ LeaveStream(b) \/ Cleanup(b) \/ CleanupFails(b)
        \/ DayEnds \/ Stop \/ Purge \/ Restart

Spec == Init /\ [][Next]_vars

-----------------------------------------------------------------------------
(* A rule at X belongs to a burst that runs and will remove it, or the     *)
(* request that added or was to remove it has failed: a rule left behind   *)
(* delivers its posts to every later burst (_run_burst's finally, stop,    *)
(* main's purge).                                                          *)
RulesAreOwned ==
  atX \subseteq kept \cup UNION {burst[b].created : b \in {c \in Slots : Alive(c)}}

(* Limit and count are looked at before the burst is counted, so that      *)
(* every other thread that explores can add one to a day's bursts, and     *)
(* every thread one that was checked the day before and is forgotten when  *)
(* the count starts again (_can_start_burst, start_burst).                 *)
BurstsBounded == started <= MaxBursts + 2 * Cardinality(Threads) - 1
=============================================================================
