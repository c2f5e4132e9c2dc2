---------------------------- MODULE Investigation ----------------------------
(***************************************************************************)
(* How a news file becomes explorations and their snapshots, and which     *)
(* symbols a thread lets through (trader/online/orchestrator.py): explorer *)
(* workers, the backfill thread and the dashboard's manual explorations    *)
(* all run process_news_file.  They share the snapshots table and the      *)
(* dictionary of symbols in flight.  Each action is one read or one write  *)
(* of these; what the LLMs answer is left open.  What evaluate_snapshot    *)
(* does with a signal is PortfolioEntry's subject.                         *)
(***************************************************************************)
EXTENDS Naturals, Sequences, FiniteSets

CONSTANTS Threads,
          Articles,    \* news, by deterministic_snapshot_id
          Symbols,
          Incoming,    \* the symbols a news file names
          Answers,     \* the sets of symbols triage may name for it
          Manual,      \* articles typed into the dashboard
          Handles,     \* the articles each thread may be given
          MaxSymbols,  \* triage_max_symbols
          Shared,      \* may two threads have the same article at once
          MaxRuns,     \* bound: files of each article, new or backfilled
          MaxCrashes,  \* bound: restarts of the trader process
          None

ASSUME NoneIsNoSymbol == None \notin Symbols /\ None \notin Articles
ASSUME IncomingKnown == Incoming \in [Articles -> SUBSET Symbols]
ASSUME AnswersKnown == Answers \in [Articles -> SUBSET SUBSET Symbols]
ASSUME HandlesKnown == Handles \in [Threads -> SUBSET Articles] /\ Manual \subseteq Articles
ASSUME SomeSymbols == MaxSymbols \in Nat \ {0}
ASSUME Bounds == MaxRuns \in [Articles -> Nat] /\ MaxCrashes \in Nat
ASSUME SharedKnown == Shared \in BOOLEAN

VARIABLES
  snap,      \* the snapshots table
  recent,    \* explored snapshots younger than the cooldown, oldest first
  inFlight,  \* _in_flight_symbols: the article that marked each symbol
  thread,    \* per thread: program counter and locals
  traded,    \* how often the signal of a snapshot was evaluated
  runs,      \* files taken so far, per article
  crashes

vars == <<snap, recent, inFlight, thread, traded, runs, crashes>>

(* One snapshot for a news file, or one for each of several symbols of it: *)
(* snapshot_id_for_symbol.                                                 *)
SnapIds == Articles \X (Symbols \cup {None})

(* skipped: sealed after triage; failed: explored without any round.       *)
Kinds == {"absent", "skipped", "failed", "explored"}

Snapshots == [kind    : Kinds,
              symbol  : Symbols \cup {None},   \* the one explored
              symbols : SUBSET Symbols]        \* those triage named

NoSnapshot == [kind |-> "absent", symbol |-> None, symbols |-> {}]

Free == [pc |-> "idle", article |-> None, cooled |-> {}, symbols |-> {},
         explore |-> {}, todo |-> {}, symbol |-> None]

Become(t, local) == thread' = [thread EXCEPT ![t] = local]
GoTo(t, pc) == Become(t, [thread[t] EXCEPT !.pc = pc])
Leave(t, pc) == Become(t, [thread[t] EXCEPT !.pc = pc, !.symbol = None])

Base(t) == <<thread[t].article, None>>

(* sym_snap_id.                                                            *)
SnapIdOf(t, s) == IF thread[t].explore = {s} THEN Base(t) ELSE <<thread[t].article, s>>

Exists(i) == snap[i] # NoSnapshot

(* insert_snapshot: INSERT OR IGNORE.                                      *)
Insert(i, r) ==
  /\ snap' = IF Exists(i) THEN snap ELSE [snap EXCEPT ![i] = r]
  /\ recent' = IF ~Exists(i) /\ r.kind = "explored" THEN Append(recent, i) ELSE recent

(* get_recently_explored_symbols.                                          *)
RecentlyExplored == UNION {snap[recent[k]].symbols : k \in 1 .. Len(recent)}

-----------------------------------------------------------------------------
(* A file comes out of the queue, the backfill's list or the dashboard; it *)
(* is skipped if offline or already processed.  Manual explorations, and   *)
(* news that name no symbol, know no cooldown.                             *)
Take(t, a) ==
  /\ thread[t].pc = "idle"
  /\ a \in Handles[t] /\ runs[a] < MaxRuns[a]
  /\ Shared \/ \A u \in Threads : thread[u].article # a
  /\ runs' = [runs EXCEPT ![a] = @ + 1]
  /\ \/ UNCHANGED thread
     \/ /\ ~Exists(<<a, None>>)
        /\ Become(t, [Free EXCEPT !.article = a,
             !.pc = IF a \in Manual \/ Incoming[a] = {} THEN "triage" ELSE "recent"])
  /\ UNCHANGED <<snap, recent, inFlight, traded, crashes>>

LookUpRecent(t) ==
  /\ thread[t].pc = "recent"
  /\ Become(t, [thread[t] EXCEPT !.pc = "inflight", !.cooled = RecentlyExplored])
  /\ UNCHANGED <<snap, recent, inFlight, traded, runs, crashes>>

Marked == {s \in Symbols : inFlight[s] # None}

(* Symbols in flight count as explored; without any other there is nothing *)
(* to triage.                                                              *)
LookUpInFlight(t) ==
  /\ thread[t].pc = "inflight"
  /\ LET cooled == thread[t].cooled \cup Marked IN
     Become(t, [thread[t] EXCEPT !.cooled = cooled,
       !.pc = IF Incoming[thread[t].article] \subseteq cooled THEN "skip" ELSE "triage"])
  /\ UNCHANGED <<snap, recent, inFlight, traded, runs, crashes>>

(* Mutant: the symbols triage names are taken as they are.                 *)
TriageUnfiltered(t) ==
  /\ thread[t].pc = "triage"
  /\ \/ Become(t, Free)
     \/ GoTo(t, "skip")
     \/ \E named \in Answers[thread[t].article] : \E chosen \in SUBSET named :
          /\ chosen # {} /\ Cardinality(chosen) <= MaxSymbols
          /\ Become(t, [thread[t] EXCEPT !.pc = "mark", !.cooled = {}, !.symbols = named,
                          !.explore = chosen, !.todo = chosen])
  /\ UNCHANGED <<snap, recent, inFlight, traded, runs, crashes>>

(* run_triage: aborted, failed, or no symbol is left; skip, by decision or *)
(* time-out; or investigate the first few of the symbols it names that are *)
(* neither cooling down nor filtered out.                                  *)
Triage(t) ==
  /\ thread[t].pc = "triage"
  /\ \/ Become(t, Free)
     \/ GoTo(t, "skip")
     \/ \E named \in Answers[thread[t].article] : \E chosen \in SUBSET (named \ thread[t].cooled) :
          /\ chosen # {} /\ Cardinality(chosen) <= MaxSymbols
          /\ Become(t, [thread[t] EXCEPT !.pc = "mark", !.cooled = {}, !.symbols = named,
                          !.explore = chosen, !.todo = chosen])
  /\ UNCHANGED <<snap, recent, inFlight, traded, runs, crashes>>

(* Unless aborted meanwhile.                                               *)
SealSkipped(t) ==
  /\ thread[t].pc = "skip"
  /\ \/ Insert(Base(t), [NoSnapshot EXCEPT !.kind = "skipped"])
     \/ UNCHANGED <<snap, recent>>
  /\ Become(t, Free)
  /\ UNCHANGED <<inFlight, traded, runs, crashes>>

Mark(t) ==
  /\ thread[t].pc = "mark"
  /\ inFlight' = [s \in Symbols |-> IF s \in thread[t].explore THEN thread[t].article
                                    ELSE inFlight[s]]
  /\ GoTo(t, "next")
  /\ UNCHANGED <<snap, recent, traded, runs, crashes>>

(* Mutant: the next symbol, whether its snapshot is there or not.          *)
NextUnchecked(t) ==
  /\ thread[t].pc = "next"
  /\ \/ thread[t].todo = {} /\ GoTo(t, "unmark")
     \/ \E s \in thread[t].todo :
          Become(t, [thread[t] EXCEPT !.todo = @ \ {s}, !.pc = "explore", !.symbol = s])
  /\ UNCHANGED <<snap, recent, inFlight, traded, runs, crashes>>

(* The next symbol, unless its snapshot is there.                          *)
NextSymbol(t) ==
  /\ thread[t].pc = "next"
  /\ \/ thread[t].todo = {} /\ GoTo(t, "unmark")
     \/ \E s \in thread[t].todo :
          LET rest == [thread[t] EXCEPT !.todo = @ \ {s}] IN
          Become(t, IF Exists(SnapIdOf(t, s)) THEN rest
                    ELSE [rest EXCEPT !.pc = "explore", !.symbol = s])
  /\ UNCHANGED <<snap, recent, inFlight, traded, runs, crashes>>

(* Aborted by the user: on to the next symbol; an error outside the        *)
(* pipeline: out of the loop.                                              *)
ExploreStops(t) ==
  /\ thread[t].pc = "explore"
  /\ Leave(t, "next") \/ Leave(t, "unmark")
  /\ UNCHANGED <<snap, recent, inFlight, traded, runs, crashes>>

(* The pipeline ends, or crashed, and the snapshot is sealed; its signal   *)
(* is evaluated if there is one, and if nothing raises before.             *)
SealExplored(t) ==
  /\ thread[t].pc = "explore"
  /\ \E kind \in {"failed", "explored"} :
       /\ Insert(SnapIdOf(t, thread[t].symbol),
                 [kind |-> kind, symbol |-> thread[t].symbol, symbols |-> thread[t].symbols])
       /\ \/ Leave(t, "next") \/ Leave(t, "unmark")
          \/ kind = "explored" /\ GoTo(t, "trade")
  /\ UNCHANGED <<inFlight, traded, runs, crashes>>

Trade(t) ==
  /\ thread[t].pc = "trade"
  /\ traded' = [traded EXCEPT ![SnapIdOf(t, thread[t].symbol)] = @ + 1]
  /\ Leave(t, "next")
  /\ UNCHANGED <<snap, recent, inFlight, runs, crashes>>

(* Mutant: the marks are removed only when every symbol was explored.      *)
UnmarkIfDone(t) ==
  /\ thread[t].pc = "unmark"
  /\ inFlight' = [s \in Symbols |-> IF s \in thread[t].explore /\ thread[t].todo = {} THEN None
                                    ELSE inFlight[s]]
  /\ Become(t, Free)
  /\ UNCHANGED <<snap, recent, traded, runs, crashes>>

(* The finally clause: the marks go, whoever set them last.                *)
Unmark(t) ==
  /\ thread[t].pc = "unmark"
  /\ inFlight' = [s \in Symbols |-> IF s \in thread[t].explore THEN None ELSE inFlight[s]]
  /\ Become(t, Free)
  /\ UNCHANGED <<snap, recent, traded, runs, crashes>>

(* triage_symbol_cooldown_minutes pass.                                    *)
CooldownEnds ==
  /\ recent # <<>>
  /\ recent' = Tail(recent)
  /\ UNCHANGED <<snap, inFlight, thread, traded, runs, crashes>>

(* The table survives; the queue, the marks and the threads do not.        *)
Crash ==
  /\ crashes < MaxCrashes
  /\ crashes' = crashes + 1
  /\ thread' = [t \in Threads |-> Free]
  /\ inFlight' = [s \in Symbols |-> None]
  /\ UNCHANGED <<snap, recent, traded, runs>>

Init ==
  /\ snap = [i \in SnapIds |-> NoSnapshot]
  /\ recent = <<>>
  /\ inFlight = [s \in Symbols |-> None]
  /\ thread = [t \in Threads |-> Free]
  /\ traded = [i \in SnapIds |-> 0]
  /\ runs = [a \in Articles |-> 0]
  /\ crashes = 0

Process(t) ==
  \/ LookUpRecent(t) \/ LookUpInFlight(t) \/ Triage(t) \/ SealSkipped(t)
  \/ Mark(t) \/ NextSymbol(t) \/ ExploreStops(t) \/ SealExplored(t) \/ Trade(t)
  \/ Unmark(t)

Next ==
  \/ \E t \in Threads : Process(t) \/ \E a \in Articles : Take(t, a)
  \/ CooldownEnds
  \/ Crash

Spec == Init /\ [][Next]_vars

-----------------------------------------------------------------------------
Deciding == {"recent", "inflight", "triage", "skip", "mark", "next", "unmark"}

Work(pcs, symbols) == [pc : pcs, article : Articles, cooled : SUBSET Symbols,
                       symbols : SUBSET Symbols, explore : SUBSET Symbols,
                       todo : SUBSET Symbols, symbol : symbols]

Locals == {Free} \cup Work(Deciding, {None}) \cup Work({"explore", "trade"}, Symbols)

(* Every variable has its type.                                            *)
TypeOK ==
  /\ snap \in [SnapIds -> Snapshots]
  /\ recent \in Seq(SnapIds)
  /\ inFlight \in [Symbols -> Articles \cup {None}]
  /\ thread \in [Threads -> Locals]
  /\ traded \in [SnapIds -> Nat]
  /\ runs \in [Articles -> Nat] /\ \A a \in Articles : runs[a] <= MaxRuns[a]
  /\ crashes \in 0 .. MaxCrashes

(* A thread that has marked its symbols and not yet removed the marks.     *)
Exploring(t, s) == thread[t].pc \in {"next", "explore", "trade", "unmark"} /\ s \in thread[t].explore

(* No symbol stays in flight, shut out of every later article, without a   *)
(* thread that explores it: whichever way an exploration ends, also by an  *)
(* abort, an error or a restart, and whichever thread removes the mark of  *)
(* which other.                                                            *)
MarksAreLive == \A s \in Marked : \E t \in Threads : Exploring(t, s)

(* A signal is evaluated at most once, and only once its snapshot is in    *)
(* the table as explored for that symbol: no restart and no second run of  *)
(* the file buys on the same snapshot again, and no watch refers to a      *)
(* snapshot that tells something else.                                     *)
TradedOnce ==
  \A i \in SnapIds : traded[i] # 0 => traded[i] = 1 /\ snap[i].kind = "explored"

(* With one worker on the queue no symbol of a cooldown is explored again, *)
(* manual explorations apart, which look at no cooldown and set it aside   *)
(* for a worker that has already looked.                                   *)
FromQueue(i) == i[1] \notin Manual

CooldownHolds ==
  [][\A t \in Threads :
       thread[t].pc = "mark" /\ FromQueue(Base(t)) /\ Incoming[thread[t].article] # {}
         => \A k \in 1 .. Len(recent) :
              FromQueue(recent[k]) => snap[recent[k]].symbols \cap thread[t].explore = {}]_vars

(* Backfill skips what already produced a snapshot, as trader/README.md    *)
(* has it: no article has a symbol explored twice.                         *)
Idempotent ==
  \A i, j \in SnapIds :
    /\ i[1] = j[1] /\ snap[i].symbol = snap[j].symbol
    /\ snap[i].kind = "explored" /\ snap[j].kind = "explored"
    => i = j
=============================================================================
