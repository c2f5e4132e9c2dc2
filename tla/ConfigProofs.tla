---------------------------- MODULE ConfigProofs -----------------------------
(***************************************************************************)
(* Proofs about ConfigLifecycle, for every set of configs, accounts and    *)
(* threads, with and without handlers that write rows back stale, with and *)
(* without restarts: an archiving is not taken back, and no config goes    *)
(* while a watch of it stands for a position.                              *)
(***************************************************************************)
EXTENDS ConfigLifecycle, TLAPS

Lives == {"new", "present", "deleted"}
Evals == [pc : {"idle", "next", "bought"}, todo : SUBSET Configs,
          symbol : Symbols \cup {None}, config : Configs \cup {None}]
Jobs  == [pc : {"idle", "start", "sell", "reconcile", "force", "finish"},
          kind : {"archive", "delete"}, config : Configs \cup {None},
          account : Accounts \cup {None}]
Dashes == [pc : {"idle", "write"}, config : Configs \cup {None}, row : Rows]
Positions == Symbols \X Configs \X Marks

Typed == /\ conf \in [Configs -> Rows]
         /\ hold \in [Configs -> SUBSET Symbols]
         /\ pos \in [Registered -> SUBSET Positions]
         /\ eval \in Evals
         /\ job \in [Threads -> Jobs]
         /\ dash \in Dashes
         /\ broken \subseteq Configs

Exists(c) == c \in Configs /\ conf[c].life # "new"

(* What an evaluation, a thread or a handler works on exists, and a thread *)
(* works on the account of its config.                                     *)
EvalKnows == /\ \A c \in eval.todo : Exists(c)
             /\ eval.pc # "idle" => eval.symbol \in Symbols
             /\ eval.pc = "bought" => Exists(eval.config)

JobKnows(t) == job[t].pc # "idle" =>
  /\ Exists(job[t].config) /\ job[t].account = conf[job[t].config].account
  /\ job[t].pc \in {"sell", "reconcile"} => job[t].account \in Registered

DashKnows == dash.pc = "write" =>
  /\ Exists(dash.config) /\ dash.row.account = conf[dash.config].account
  /\ dash.row.life = "present"

Knows == EvalKnows /\ (\A t \in Threads : JobKnows(t)) /\ DashKnows

-----------------------------------------------------------------------------
(* Types.                                                                  *)

LEMMA RecordTypes ==
  /\ NoRow \in Rows /\ NoEval \in Evals /\ NoJob \in Jobs /\ NoDash \in Dashes
  /\ \A r \in Rows : /\ \A b \in BOOLEAN : /\ [r EXCEPT !.active = b] \in Rows
                                           /\ [r EXCEPT !.paused = b] \in Rows
                     /\ \A s \in ArchiveStates :
                          [r EXCEPT !.archive = s, !.active = FALSE] \in Rows
                     /\ [NoRow EXCEPT !.life = "deleted", !.account = r.account] \in Rows
  /\ \A a \in Accounts \cup {None} : [NoRow EXCEPT !.life = "present", !.account = a] \in Rows
BY DEF NoRow, Rows, NoEval, Evals, NoJob, Jobs, NoDash, Dashes, ArchiveStates

LEMMA ArchiveStateTyped ==
  ASSUME Typed, NEW c \in Configs, NEW s \in ArchiveStates, UpdateArchiveState(c, s)
  PROVE  conf' \in [Configs -> Rows]
BY RecordTypes DEF Typed, UpdateArchiveState, UpdateConfig

LEMMA DeletedTyped == ASSUME Typed, NEW c \in Configs PROVE Deleted(c) \in Rows
BY RecordTypes DEF Typed, Deleted

LEMMA TypedInit == Init => Typed
BY RecordTypes DEF Init, Typed, Positions

LEMMA JobTypes ==
  ASSUME NEW j \in Jobs
  PROVE  /\ \A pc \in {"idle", "start", "sell", "reconcile", "force", "finish"} :
              /\ [j EXCEPT !.pc = pc] \in Jobs
              /\ \A a \in Accounts \cup {None} : [j EXCEPT !.account = a, !.pc = pc] \in Jobs
BY DEF Jobs

LEMMA RemarkedTyped ==
  ASSUME Typed, NEW c \in Configs, NEW h
  PROVE  Remarked(c, h) \in [Registered -> SUBSET Positions]
<1>1. \A a \in Registered : \A p \in pos[a] :
        p \in Positions /\ \A m \in Marks : <<Symbol(p), c, m>> \in Positions
  BY DEF Typed, Positions, Symbol
<1>2. \A p \in Positions : p[3] \in Marks
  BY DEF Positions
<1>3. ASSUME NEW a \in Registered, NEW p \in pos[a]
      PROVE  <<Symbol(p), c, IF Symbol(p) \in h THEN "tracked"
                              ELSE IF Symbol(p) \in hold[c] THEN "unsold" ELSE p[3]>> \in Positions
  BY <1>1, <1>2 DEF Marks
<1> QED BY <1>1, <1>3 DEF Remarked

LEMMA ExitsTyped ==
  ASSUME Typed, NEW c \in Configs, NEW gone, Exits(c, gone)
  PROVE  hold' \in [Configs -> SUBSET Symbols] /\ pos' \in [Registered -> SUBSET Positions]
BY RemarkedTyped DEF Exits, Typed

LEMMA ReconciledTyped ==
  ASSUME Typed, NEW c \in Configs, NEW a \in Registered, Reconciled(c, a)
  PROVE  hold' \in [Configs -> SUBSET Symbols] /\ pos' \in [Registered -> SUBSET Positions]
<1>1. SymbolsIn(a) \subseteq Symbols
  BY DEF SymbolsIn, Typed, Positions, Symbol
<1>2. PICK h : h \subseteq Symbols /\ hold' = [hold EXCEPT ![c] = h] /\ pos' = Remarked(c, h)
  BY <1>1 DEF Reconciled, Typed
<1> QED BY <1>2, RemarkedTyped DEF Typed

LEMMA HandlersTyped ==
  ASSUME Typed, NEW c \in Configs,
         \/ \E a \in Accounts \cup {None} : Create(c, a)
         \/ Activate(c) \/ Deactivate(c) \/ ReadRow(c) \/ DeleteArchived(c) \/ DeleteStale(c)
         \/ DeleteUnlinked(c) \/ Sync(c) \/ PeriodicReconcile(c)
         \/ \E s \in Symbols : MonitorExit(c, s) \/ ForceExitWatch(c, s)
  PROVE  Typed'
<1>1. ASSUME NEW a \in Accounts \cup {None}, Create(c, a) PROVE Typed'
  <2>1. conf' \in [Configs -> Rows]
    BY <1>1, RecordTypes DEF Create, Typed
  <2>2. pos' \in [Registered -> SUBSET Positions]
    BY <1>1 DEF Create, Typed
  <2> QED BY <1>1, <2>1, <2>2 DEF Create, Typed
<1>2. CASE Activate(c) \/ Deactivate(c)
  <2>0. \A b \in BOOLEAN : [conf[c] EXCEPT !.active = b] \in Rows
    BY RecordTypes DEF Typed
  <2>1. conf' \in [Configs -> Rows]
    BY <1>2, <2>0 DEF Activate, Deactivate, Typed
  <2> QED BY <1>2, <2>1 DEF Activate, Deactivate, Typed
<1>3. CASE ReadRow(c)
  <2>0. \A b \in BOOLEAN : [conf[c] EXCEPT !.paused = b] \in Rows
    BY RecordTypes DEF Typed
  <2>1. dash' \in Dashes
    BY <1>3, <2>0 DEF ReadRow, Dashes
  <2> QED BY <1>3, <2>1 DEF ReadRow, Typed
<1>4. CASE DeleteArchived(c) \/ DeleteStale(c) \/ DeleteUnlinked(c)
  <2>1. conf' \in [Configs -> Rows]
    BY <1>4, DeletedTyped DEF DeleteArchived, DeleteStale, DeleteUnlinked, Typed
  <2> QED BY <1>4, <2>1 DEF DeleteArchived, DeleteStale, DeleteUnlinked, Typed
<1>5. ASSUME NEW a \in Registered, Reconciled(c, a),
             UNCHANGED <<conf, eval, job, dash, broken>>
      PROVE  Typed'
  BY <1>5, ReconciledTyped DEF Typed
<1>6. ASSUME NEW s \in Symbols, MonitorExit(c, s) \/ ForceExitWatch(c, s) PROVE Typed'
  <2>1. CASE Exits(c, {s})
    BY <1>6, <2>1, ExitsTyped DEF MonitorExit, ForceExitWatch, Typed
  <2>2. CASE MonitorExit(c, s) /\ ~Exits(c, {s})
    BY <2>2 DEF MonitorExit, Sold, Typed
  <2> QED BY <1>6, <2>1, <2>2 DEF ForceExitWatch
<1> QED BY <1>1, <1>2, <1>3, <1>4, <1>5, <1>6 DEF Sync, PeriodicReconcile

LEMMA SellFillsTyped ==
  ASSUME Typed, NEW a \in Registered, NEW s \in Symbols, SellFills(a, s)
  PROVE  Typed'
<1>1. pos' \in [Registered -> SUBSET Positions]
  BY DEF SellFills, Sold, Typed
<1>2. hold' \in [Configs -> SUBSET Symbols]
  BY DEF SellFills, Typed
<1> QED BY <1>1, <1>2 DEF SellFills, Typed

LEMMA EvaluationTyped ==
  ASSUME Typed, Knows,
         \/ \E c \in Configs : EvalSkip(c) \/ EvalBuy(c)
         \/ \E s \in Symbols : EvalBegin(s)
         \/ EvalInsert
  PROVE  Typed'
<1>1. \A c \in Configs : Done(c) \in Evals
  BY RecordTypes DEF Done, Typed, Evals
<1>2. ASSUME NEW c \in Configs, EvalSkip(c) PROVE Typed'
  BY <1>1, <1>2 DEF EvalSkip, Typed
<1>3. ASSUME NEW c \in Configs, EvalBuy(c) PROVE Typed'
  <2>1. eval' \in Evals
    BY <1>3 DEF EvalBuy, Typed, Evals
  <2>2. <<eval.symbol, c, "new">> \in Positions
    BY <1>3 DEF EvalBuy, Knows, EvalKnows, Positions, Marks
  <2>3. pos' \in [Registered -> SUBSET Positions]
    <3> DEFINE bought(a) == pos[a] \cup {<<eval.symbol, c, "new">>}
    <3>1. \A a \in Registered : bought(a) \in SUBSET Positions
      BY <2>2 DEF Typed
    <3>2. pos' = pos \/ \E a \in Registered : pos' = [pos EXCEPT ![a] = bought(a)]
      BY <1>3 DEF EvalBuy
    <3> HIDE DEF bought
    <3> QED BY <3>1, <3>2 DEF Typed
  <2> QED BY <1>3, <2>1, <2>3 DEF EvalBuy, Typed
<1>4. ASSUME NEW s \in Symbols, EvalBegin(s) PROVE Typed'
  BY <1>4 DEF EvalBegin, Typed, Evals, NoEval
<1>5. CASE EvalInsert
  <2>1. eval.config \in Configs /\ eval.symbol \in Symbols
    BY <1>5 DEF EvalInsert, Knows, EvalKnows, Exists
  <2>3. pos' \in [Registered -> SUBSET Positions]
    BY <1>5, <2>1, RemarkedTyped DEF EvalInsert
  <2> QED BY <1>1, <1>5, <2>1, <2>3 DEF EvalInsert, Typed
<1> QED BY <1>2, <1>3, <1>4, <1>5

LEMMA ThreadsTyped ==
  ASSUME Typed, Knows,
         \/ \E t \in Threads : ThreadStep(t)
         \/ \E c \in Configs, t \in Threads : ArchiveBegin(c, t) \/ DeleteLinked(c, t)
         \/ WriteRow \/ Restart
  PROVE  Typed'
<1>0. \A c \in Configs : conf[c].account \in Accounts \cup {None}
  BY DEF Typed, Rows
<1>1. ASSUME NEW c \in Configs, NEW t \in Threads, ArchiveBegin(c, t) PROVE Typed'
  <2>1. conf' \in [Configs -> Rows]
    BY <1>1, ArchiveStateTyped DEF ArchiveBegin, ArchiveStates
  <2>2. job' \in [Threads -> Jobs]
    BY <1>0, <1>1 DEF ArchiveBegin, Spawn, Typed, Jobs
  <2> QED BY <1>1, <2>1, <2>2 DEF ArchiveBegin, Typed
<1>2. ASSUME NEW c \in Configs, NEW t \in Threads, DeleteLinked(c, t) PROVE Typed'
  <2>1. conf' \in [Configs -> Rows]
    BY <1>2, RecordTypes DEF DeleteLinked, Typed
  <2>2. job' \in [Threads -> Jobs]
    BY <1>0, <1>2 DEF DeleteLinked, Spawn, Typed, Jobs
  <2> QED BY <1>2, <2>1, <2>2 DEF DeleteLinked, Typed
<1>3. CASE WriteRow
  BY <1>3, RecordTypes DEF WriteRow, UpdateConfig, Typed, Dashes, Knows, DashKnows, Exists
<1>4. CASE Restart
  BY <1>4, RecordTypes DEF Restart, Typed
<1>5. ASSUME NEW t \in Threads, ThreadStep(t) PROVE Typed'
  <2> DEFINE c == job[t].config
  <2>0. /\ job[t].pc # "idle" /\ c \in Configs /\ job[t] \in Jobs
        /\ job[t].pc \in {"sell", "reconcile"} => job[t].account \in Registered
    BY <1>5 DEF Typed, Knows, JobKnows, Exists, ThreadStep, ArchiveStart, ClosePositions,
                ThreadReconcile, ThreadFails, ForceExit, ArchiveFinish, DeleteFinish
  <2>a. \A u \in {"reconcile", "force", "finish"} : Step(t, u) => job' \in [Threads -> Jobs]
    BY <2>0, JobTypes DEF Step, Typed
  <2>b. Finish(t) => job' \in [Threads -> Jobs]
    BY RecordTypes DEF Finish, Typed
  <2>1. CASE ArchiveStart(t)
    <3> DEFINE started == [job[t] EXCEPT !.account = conf[c].account,
                                         !.pc = IF conf[c].account \in Registered
                                                THEN "sell" ELSE "force"]
    <3>0. started \in Jobs
      BY <1>0, <2>0, JobTypes
    <3>1. job' \in [Threads -> Jobs]
      <4>1. Finish(t) \/ job' = [job EXCEPT ![t] = started]
        BY <2>1, <2>0 DEF ArchiveStart, Typed
      <4> HIDE DEF started
      <4> QED BY <3>0, <4>1, <2>b DEF Typed
    <3> QED BY <2>1, <3>1 DEF ArchiveStart, Typed
  <2>2. CASE ClosePositions(t)
    BY <2>0, <2>2, <2>a DEF ClosePositions, Typed
  <2>3. CASE ThreadReconcile(t)
    <3> DEFINE a == job[t].account
    <3>0. a \in Registered
      BY <2>0, <2>3 DEF ThreadReconcile
    <3>1. /\ hold' \in [Configs -> SUBSET Symbols]
          /\ pos' \in [Registered -> SUBSET Positions]
      BY <2>0, <2>3, <3>0, ReconciledTyped DEF ThreadReconcile
    <3> QED BY <2>3, <3>1, <2>a DEF ThreadReconcile, Typed
  <2>4. CASE ThreadFails(t)
    <3>1. conf' \in [Configs -> Rows]
      BY <2>0, <2>4, ArchiveStateTyped DEF ThreadFails, ArchiveStates, Typed
    <3> QED BY <2>4, <3>1, <2>a, <2>b DEF ThreadFails, Typed
  <2>5. CASE ForceExit(t)
    <3>1. /\ hold' \in [Configs -> SUBSET Symbols]
          /\ pos' \in [Registered -> SUBSET Positions]
      <4>1. \E gone : Exits(c, gone)
        BY <2>5 DEF ForceExit
      <4> QED BY <2>0, <4>1, ExitsTyped
    <3> QED BY <2>5, <3>1, <2>a DEF ForceExit, Typed
  <2>6. CASE ArchiveFinish(t)
    <3>1. conf' \in [Configs -> Rows]
      BY <2>0, <2>6, ArchiveStateTyped DEF ArchiveFinish, ArchiveStates
    <3> QED BY <2>6, <3>1, <2>b DEF ArchiveFinish, Typed
  <2>7. CASE DeleteFinish(t)
    <3>1. conf' \in [Configs -> Rows]
      BY <2>0, <2>7, DeletedTyped DEF DeleteFinish, Typed
    <3> QED BY <2>7, <3>1, <2>b DEF DeleteFinish, Typed
  <2> QED BY <1>5, <2>1, <2>2, <2>3, <2>4, <2>5, <2>6, <2>7 DEF ThreadStep
<1> QED BY <1>1, <1>2, <1>3, <1>4, <1>5

LEMMA TypedStep == Typed /\ Knows /\ [Next]_vars => Typed'
<1>1. CASE UNCHANGED vars
  BY <1>1 DEF Typed, vars
<1> QED BY <1>1, HandlersTyped, SellFillsTyped, EvaluationTyped, ThreadsTyped DEF Next

-----------------------------------------------------------------------------
(* A config that exists keeps existing, as a row or as the memory of one,  *)
(* and keeps its account.                                                  *)
LivesOn(c) == Exists(c) => Exists(c)' /\ conf'[c].account = conf[c].account

LEMMA UpdateLives ==
  ASSUME Typed, NEW c \in Configs, NEW r \in Rows, conf' = [conf EXCEPT ![c] = r],
         r.life # "new", r.account = conf[c].account
  PROVE  \A d \in Configs : LivesOn(d)
BY DEF Typed, LivesOn, Exists

LEMMA RowsLive ==
  ASSUME Typed, NEW c \in Configs, Present(c)
  PROVE  /\ \A b \in BOOLEAN : /\ [conf[c] EXCEPT !.active = b].life # "new"
                                /\ [conf[c] EXCEPT !.active = b].account = conf[c].account
         /\ \A s \in ArchiveStates :
              /\ [conf[c] EXCEPT !.archive = s, !.active = FALSE].life # "new"
              /\ [conf[c] EXCEPT !.archive = s, !.active = FALSE].account = conf[c].account
         /\ Deleted(c).life = "deleted" /\ Deleted(c).account = conf[c].account
         /\ Deleted(c).archive = "none" /\ ~Deleted(c).active
BY DEF Typed, Rows, Present, Deleted, NoRow

LEMMA ArchiveStateLives ==
  ASSUME Typed, NEW c \in Configs, NEW s \in ArchiveStates, UpdateArchiveState(c, s)
  PROVE  \A d \in Configs : LivesOn(d)
<1>1. CASE Present(c)
  <2> DEFINE r == [conf[c] EXCEPT !.archive = s, !.active = FALSE]
  <2>1. r \in Rows /\ r.life # "new" /\ r.account = conf[c].account
    BY <1>1, RowsLive, RecordTypes DEF Typed
  <2>2. conf' = [conf EXCEPT ![c] = r]
    BY <1>1 DEF UpdateArchiveState, UpdateConfig
  <2> HIDE DEF r
  <2> QED BY <2>1, <2>2, UpdateLives
<1>2. CASE ~Present(c)
  BY <1>2 DEF UpdateArchiveState, UpdateConfig, LivesOn, Exists
<1> QED BY <1>1, <1>2

LEMMA AllLive == Typed /\ Knows /\ [Next]_vars => \A c \in Configs : LivesOn(c)
<1> SUFFICES ASSUME Typed, Knows, [Next]_vars PROVE \A c \in Configs : LivesOn(c)
  OBVIOUS
<1>1. ASSUME conf' = conf PROVE \A c \in Configs : LivesOn(c)
  BY <1>1 DEF LivesOn, Exists
<1>2. ASSUME NEW c \in Configs, NEW a \in Accounts \cup {None}, Create(c, a)
      PROVE  \A d \in Configs : LivesOn(d)
  BY <1>2 DEF Create, Typed, LivesOn, Exists
<1>3. ASSUME NEW c \in Configs, Present(c),
             \/ \E b \in BOOLEAN : conf' = [conf EXCEPT ![c].active = b]
             \/ conf' = [conf EXCEPT ![c] = Deleted(c)]
      PROVE  \A d \in Configs : LivesOn(d)
  <2>1. \A b \in BOOLEAN : [conf[c] EXCEPT !.active = b] \in Rows
    BY RecordTypes DEF Typed
  <2>2. \A b \in BOOLEAN : conf' = [conf EXCEPT ![c].active = b] => \A d \in Configs : LivesOn(d)
    BY <1>3, <2>1, RowsLive, UpdateLives
  <2>3. Deleted(c) \in Rows /\ Deleted(c).life # "new" /\ Deleted(c).account = conf[c].account
    BY <1>3, DeletedTyped, RowsLive
  <2> QED BY <1>3, <2>2, <2>3, UpdateLives
<1>4. ASSUME NEW c \in Configs,
             \/ Activate(c) \/ Deactivate(c) \/ DeleteArchived(c) \/ DeleteStale(c)
             \/ DeleteUnlinked(c) \/ \E t \in Threads : DeleteLinked(c, t)
      PROVE  \A d \in Configs : LivesOn(d)
  BY <1>3, <1>4 DEF Activate, Deactivate, DeleteArchived, DeleteStale, DeleteUnlinked, DeleteLinked
<1>5. ASSUME NEW c \in Configs, NEW t \in Threads, ArchiveBegin(c, t)
      PROVE  \A d \in Configs : LivesOn(d)
  BY <1>5, ArchiveStateLives DEF ArchiveBegin, ArchiveStates
<1>6. CASE WriteRow
  <2>1. /\ dash.config \in Configs /\ dash.row \in Rows /\ dash.row.life # "new"
        /\ dash.row.account = conf[dash.config].account
    BY <1>6 DEF WriteRow, Knows, DashKnows, Exists, Typed, Dashes
  <2>2. conf' = conf \/ conf' = [conf EXCEPT ![dash.config] = dash.row]
    BY <1>6 DEF WriteRow, UpdateConfig
  <2> QED BY <1>1, <2>1, <2>2, UpdateLives
<1>7. ASSUME NEW t \in Threads, ThreadStep(t) PROVE \A d \in Configs : LivesOn(d)
  <2> DEFINE c == job[t].config
  <2>1. job[t].pc # "idle" => c \in Configs
    BY DEF Knows, JobKnows, Exists
  <2>2. CASE ThreadFails(t) \/ ArchiveFinish(t)
    <3>1. conf' = conf \/ \E s \in ArchiveStates : UpdateArchiveState(c, s)
      BY <2>2 DEF ThreadFails, ArchiveFinish, ArchiveStates
    <3>2. c \in Configs
      BY <2>1, <2>2 DEF ThreadFails, ArchiveFinish
    <3> QED BY <1>1, <3>1, <3>2, ArchiveStateLives
  <2>3. CASE DeleteFinish(t)
    <3>1. conf' = conf \/ (Present(c) /\ conf' = [conf EXCEPT ![c] = Deleted(c)])
      BY <2>3 DEF DeleteFinish
    <3>2. c \in Configs
      BY <2>1, <2>3 DEF DeleteFinish
    <3> QED BY <1>1, <1>3, <3>1, <3>2
  <2>4. CASE ArchiveStart(t) \/ ClosePositions(t) \/ ThreadReconcile(t) \/ ForceExit(t)
    BY <1>1, <2>4 DEF ArchiveStart, ClosePositions, ThreadReconcile, ForceExit
  <2> QED BY <1>7, <2>2, <2>3, <2>4 DEF ThreadStep
<1>8. ASSUME \/ \E c \in Configs : \/ ReadRow(c) \/ Sync(c) \/ EvalSkip(c) \/ EvalBuy(c)
                                   \/ PeriodicReconcile(c) \/ \E s \in Symbols : MonitorExit(c, s)
                                   \/ \E s \in Symbols : ForceExitWatch(c, s)
             \/ \E s \in Symbols : EvalBegin(s)
             \/ \E a \in Registered, s \in Symbols : SellFills(a, s)
             \/ EvalInsert \/ Restart \/ UNCHANGED vars
      PROVE  conf' = conf
  BY <1>8 DEF ReadRow, Sync, EvalSkip, EvalBuy, PeriodicReconcile, MonitorExit, ForceExitWatch,
              EvalBegin, SellFills, EvalInsert, Restart, vars
<1> QED BY <1>1, <1>2, <1>4, <1>5, <1>6, <1>7, <1>8 DEF Next

-----------------------------------------------------------------------------
LEMMA EvalKnowsStep ==
  ASSUME Typed, Knows, [Next]_vars, \A c \in Configs : LivesOn(c)
  PROVE  EvalKnows'
<1>0. /\ \A c \in Configs : Exists(c) => Exists(c)'
      /\ eval \in Evals /\ eval.todo \subseteq Configs
      /\ \A c \in eval.todo : Exists(c)'
      /\ eval.pc = "bought" => \E c \in Configs : c = eval.config /\ Exists(c)'
  <2>1. eval \in Evals /\ eval.todo \subseteq Configs
    BY DEF Typed, Evals
  <2>2. \A c \in Configs : Exists(c) => Exists(c)'
    BY DEF LivesOn
  <2>3. /\ \A c \in eval.todo : c \in Configs /\ Exists(c)
        /\ eval.pc = "bought" => eval.config \in Configs /\ Exists(eval.config)
    BY <2>1 DEF Knows, EvalKnows, Exists
  <2> QED BY <2>1, <2>2, <2>3
<1>1. ASSUME eval' \in {eval, NoEval} PROVE EvalKnows'
  BY <1>0, <1>1 DEF EvalKnows, NoEval, Knows
<1>2. ASSUME NEW c \in Configs, eval' = Done(c), eval.pc # "idle" PROVE EvalKnows'
  <2>1. CASE eval' = NoEval
    BY <1>1, <2>1
  <2>2. CASE eval' = [eval EXCEPT !.pc = "next", !.todo = @ \ {c}, !.config = None]
    <3>1. eval'.pc = "next" /\ eval'.todo = eval.todo \ {c} /\ eval'.symbol = eval.symbol
      BY <1>0, <2>2 DEF Evals
    <3> QED BY <1>0, <1>2, <3>1 DEF EvalKnows, Knows
  <2> QED BY <1>2, <2>1, <2>2 DEF Done
<1>3. ASSUME NEW c \in Configs, EvalBuy(c) PROVE EvalKnows'
  <2>1. /\ eval'.pc = "bought" /\ eval'.todo = eval.todo /\ eval'.symbol = eval.symbol
        /\ eval'.config = c /\ c \in eval.todo /\ eval.pc = "next"
    BY <1>0, <1>3 DEF EvalBuy, Evals
  <2> QED BY <1>0, <2>1 DEF EvalKnows, Knows
<1>4. ASSUME NEW s \in Symbols, EvalBegin(s) PROVE EvalKnows'
  <2>1. eval'.pc = "next" /\ eval'.symbol = s /\ \A c \in eval'.todo : c \in Configs /\ Present(c)
    BY <1>4 DEF EvalBegin, NoEval, Active
  <2>2. \A c \in eval'.todo : Exists(c)'
    BY <1>0, <2>1 DEF Present, Exists
  <2> QED BY <2>1, <2>2 DEF EvalKnows
<1>5. CASE EvalInsert
  <2>1. eval.config \in Configs /\ eval' = Done(eval.config) /\ eval.pc # "idle"
    BY <1>5 DEF EvalInsert, Knows, EvalKnows, Exists
  <2> QED BY <1>2, <2>1
<1>6. ASSUME NEW c \in Configs, EvalSkip(c) PROVE EvalKnows'
  BY <1>2, <1>6 DEF EvalSkip
<1>7. ASSUME \/ \E c \in Configs, a \in Accounts \cup {None} : Create(c, a)
             \/ \E c \in Configs : \/ Activate(c) \/ Deactivate(c) \/ ReadRow(c)
                                   \/ DeleteArchived(c) \/ DeleteStale(c) \/ DeleteUnlinked(c)
                                   \/ Sync(c) \/ PeriodicReconcile(c)
             \/ \E c \in Configs, t \in Threads : ArchiveBegin(c, t) \/ DeleteLinked(c, t)
             \/ \E c \in Configs, s \in Symbols : MonitorExit(c, s) \/ ForceExitWatch(c, s)
             \/ \E a \in Registered, s \in Symbols : SellFills(a, s)
             \/ \E t \in Threads : ThreadStep(t)
             \/ WriteRow \/ Restart \/ UNCHANGED vars
      PROVE  eval' \in {eval, NoEval}
  BY <1>7 DEF Create, Activate, Deactivate, ReadRow, DeleteArchived, DeleteStale, DeleteUnlinked,
              Sync, PeriodicReconcile, ArchiveBegin, DeleteLinked, MonitorExit, ForceExitWatch, SellFills, ThreadStep,
              ArchiveStart, ClosePositions, ThreadReconcile, ThreadFails, ForceExit,
              ArchiveFinish, DeleteFinish, WriteRow, Restart, vars
<1> QED BY <1>1, <1>3, <1>4, <1>5, <1>6, <1>7 DEF Next

LEMMA JobKnowsStep ==
  ASSUME Typed, Knows, [Next]_vars, \A c \in Configs : LivesOn(c), NEW u \in Threads
  PROVE  JobKnows(u)'
<1>0. job \in [Threads -> Jobs] /\ JobKnows(u)
  BY DEF Typed, Knows
<1>1. ASSUME job'[u] = job[u] PROVE JobKnows(u)'
  BY <1>0, <1>1 DEF JobKnows, LivesOn, Exists
<1>2. ASSUME job'[u] = NoJob PROVE JobKnows(u)'
  BY <1>2 DEF JobKnows, NoJob
<1>3. ASSUME NEW c \in Configs, NEW t \in Threads, ArchiveBegin(c, t) \/ DeleteLinked(c, t)
      PROVE  JobKnows(u)'
  <2>1. CASE u = t
    <3>1. /\ job'[u].config = c /\ job'[u].account = conf[c].account
          /\ job'[u].pc \in {"start", "sell"}
          /\ job'[u].pc = "sell" => conf[c].account \in Registered
          /\ Exists(c)
      BY <1>0, <1>3, <2>1 DEF ArchiveBegin, DeleteLinked, Spawn, Present, Exists
    <3> QED BY <3>1 DEF JobKnows, LivesOn
  <2>2. CASE u # t
    BY <1>1, <1>3, <2>2, <1>0 DEF ArchiveBegin, DeleteLinked, Spawn
  <2> QED BY <2>1, <2>2
<1>4. ASSUME NEW t \in Threads, ThreadStep(t) PROVE JobKnows(u)'
  <2>1. CASE u # t
    <3>1. job'[u] = job[u]
      BY <1>0, <1>4, <2>1 DEF ThreadStep, ArchiveStart, ClosePositions, ThreadReconcile,
           ThreadFails, ForceExit, ArchiveFinish, DeleteFinish, Step, Finish
    <3> QED BY <1>1, <3>1
  <2>2. CASE u = t
    <3>0. job[t] \in Jobs
      BY <1>0
    <3>1. ASSUME NEW pc \in {"reconcile", "force", "finish"}, Step(t, pc), job[t].pc # "idle",
                 pc = "reconcile" => job[t].account \in Registered
          PROVE  JobKnows(u)'
      <4>1. job'[t].pc = pc /\ job'[t].config = job[t].config /\ job'[t].account = job[t].account
        BY <1>0, <3>0, <3>1 DEF Step, Jobs
      <4> QED BY <1>0, <2>2, <3>1, <4>1 DEF JobKnows, LivesOn, Exists
    <3>2. ASSUME Finish(t) PROVE JobKnows(u)'
      BY <1>0, <1>2, <2>2, <3>2 DEF Finish
    <3>3. CASE ArchiveStart(t)
      <4>1. CASE Finish(t)
        BY <3>2, <4>1
      <4>2. CASE ~Finish(t)
        <5> DEFINE c == job[t].config
                   go == IF conf[c].account \in Registered THEN "sell" ELSE "force"
        <5>1. job' = [job EXCEPT ![t] = [job[t] EXCEPT !.account = conf[c].account, !.pc = go]]
          BY <3>3, <4>2, <1>0 DEF ArchiveStart
        <5>2. job'[t].pc = go /\ job'[t].config = c /\ job'[t].account = conf[c].account
          BY <1>0, <3>0, <5>1 DEF Jobs
        <5>3. Exists(c)
          BY <1>0, <2>2, <3>3 DEF ArchiveStart, JobKnows
        <5> QED BY <2>2, <5>2, <5>3 DEF JobKnows, LivesOn, Exists
      <4> QED BY <4>1, <4>2
    <3>4. CASE ClosePositions(t)
      BY <1>0, <2>2, <3>1, <3>4 DEF ClosePositions, JobKnows
    <3>5. CASE ThreadReconcile(t) \/ ForceExit(t)
      BY <3>1, <3>5 DEF ThreadReconcile, ForceExit
    <3>6. CASE ThreadFails(t)
      <4>1. Finish(t) \/ Step(t, "finish")
        BY <3>6 DEF ThreadFails
      <4>2. job[t].pc # "idle"
        BY <3>6 DEF ThreadFails
      <4> QED BY <3>1, <3>2, <4>1, <4>2
    <3>7. CASE ArchiveFinish(t) \/ DeleteFinish(t)
      BY <3>2, <3>7 DEF ArchiveFinish, DeleteFinish
    <3> QED BY <1>4, <3>3, <3>4, <3>5, <3>6, <3>7 DEF ThreadStep
  <2> QED BY <2>1, <2>2
<1>5. CASE Restart
  BY <1>2, <1>5 DEF Restart
<1>6. ASSUME \/ \E c \in Configs, a \in Accounts \cup {None} : Create(c, a)
             \/ \E c \in Configs : \/ Activate(c) \/ Deactivate(c) \/ ReadRow(c)
                                   \/ DeleteArchived(c) \/ DeleteStale(c) \/ DeleteUnlinked(c)
                                   \/ Sync(c) \/ EvalSkip(c) \/ EvalBuy(c)
                                   \/ PeriodicReconcile(c)
             \/ \E c \in Configs, s \in Symbols : MonitorExit(c, s) \/ ForceExitWatch(c, s)
             \/ \E a \in Registered, s \in Symbols : SellFills(a, s)
             \/ \E s \in Symbols : EvalBegin(s)
             \/ WriteRow \/ EvalInsert \/ UNCHANGED vars
      PROVE  job' = job
  BY <1>6 DEF Create, Activate, Deactivate, ReadRow, DeleteArchived, DeleteStale, DeleteUnlinked,
              Sync, EvalSkip, EvalBuy, PeriodicReconcile, MonitorExit, ForceExitWatch, SellFills,
              EvalBegin, WriteRow, EvalInsert, vars
<1> QED BY <1>1, <1>3, <1>4, <1>5, <1>6 DEF Next

LEMMA DashStep ==
  ASSUME Typed, [Next]_vars
  PROVE  \/ dash' = dash
         \/ dash' = NoDash
         \/ \E c \in Configs, p \in BOOLEAN :
              /\ Present(c) /\ UNCHANGED <<conf, job>>
              /\ dash' = [pc |-> "write", config |-> c, row |-> [conf[c] EXCEPT !.paused = p]]
BY DEF Next, Create, Activate, Deactivate, ReadRow, DeleteArchived, DeleteStale, DeleteUnlinked,
       Sync, EvalSkip, EvalBuy, PeriodicReconcile, ArchiveBegin, DeleteLinked, MonitorExit,
       ForceExitWatch, SellFills, EvalBegin, ThreadStep, ArchiveStart, ClosePositions, ThreadReconcile, ThreadFails,
       ForceExit, ArchiveFinish, DeleteFinish, WriteRow, EvalInsert, Restart, vars

LEMMA DashKnowsStep ==
  ASSUME Typed, Knows, [Next]_vars, \A c \in Configs : LivesOn(c)
  PROVE  DashKnows'
<1>1. CASE dash' = dash
  BY <1>1 DEF Knows, DashKnows, LivesOn, Exists
<1>2. CASE dash' = NoDash
  BY <1>2 DEF DashKnows, NoDash
<1>3. ASSUME NEW c \in Configs, NEW p \in BOOLEAN, Present(c), conf' = conf,
             dash' = [pc |-> "write", config |-> c, row |-> [conf[c] EXCEPT !.paused = p]]
      PROVE  DashKnows'
  BY <1>3 DEF DashKnows, Present, Exists, Typed, Rows
<1> QED BY <1>1, <1>2, <1>3, DashStep

LEMMA KnowsStep == Typed /\ Knows /\ [Next]_vars => Knows'
BY AllLive, EvalKnowsStep, JobKnowsStep, DashKnowsStep DEF Knows

-----------------------------------------------------------------------------
(* What a step makes of the row of a config.                               *)
Archives(t, c) == job[t].pc # "idle" /\ job[t].kind = "archive" /\ job[t].config = c

Toggles(c)  == /\ conf'[c].archive = conf[c].archive /\ conf'[c].life = conf[c].life
               /\ Handler /\ dash' = dash
               /\ conf[c].archive = "none" \/ ~conf'[c].active
Begins(c)   == \E t \in Threads :
                 /\ Handler /\ Present(c) /\ conf[c].archive \in {"none", "archive_failed"}
                 /\ Present(c)' /\ conf'[c].archive = "archiving" /\ ~conf'[c].active
                 /\ dash' = dash /\ job[t].pc = "idle"
                 /\ \A u \in Threads : u # t => job'[u] = job[u]
Ends(c)     == \E t \in Threads :
                 /\ Archives(t, c) /\ dash' = dash /\ job' = [job EXCEPT ![t] = NoJob]
                 /\ Present(c) /\ Present(c)' /\ ~conf'[c].active
                 /\ conf'[c].archive \in {"archived", "archive_failed"}
Written(c)  == /\ dash.pc = "write" /\ dash.config = c /\ Present(c)
               /\ conf'[c] = dash.row /\ dash' = NoDash /\ job' = job

RowMove(c) ==
  \/ conf'[c] = conf[c]
  \/ /\ conf[c].life = "new" /\ Present(c)' /\ conf'[c].archive = "none"
     /\ UNCHANGED <<job, dash>> /\ Handler
  \/ Toggles(c)
  \/ conf'[c].life = "deleted" /\ ~conf'[c].active
  \/ Begins(c)
  \/ Written(c)
  \/ Ends(c)

LEMMA ArchiveStateMove ==
  ASSUME Typed, NEW c \in Configs, NEW s \in ArchiveStates, UpdateArchiveState(c, s)
  PROVE  /\ \A d \in Configs : d # c => conf'[d] = conf[d]
         /\ \/ conf'[c] = conf[c] /\ ~Present(c)
            \/ /\ conf'[c].archive = s /\ ~conf'[c].active
               /\ conf'[c].life = conf[c].life /\ Present(c)
<1>1. CASE Present(c)
  <2> DEFINE r == [conf[c] EXCEPT !.archive = s, !.active = FALSE]
  <2>1. r.archive = s /\ ~r.active /\ r.life = conf[c].life
    BY DEF Typed, Rows
  <2>2. conf' = [conf EXCEPT ![c] = r]
    BY <1>1 DEF UpdateArchiveState, UpdateConfig
  <2>3. conf'[c] = r /\ \A d \in Configs : d # c => conf'[d] = conf[d]
    BY <2>2 DEF Typed
  <2> QED BY <1>1, <2>1, <2>3
<1>2. CASE ~Present(c)
  BY <1>2 DEF UpdateArchiveState, UpdateConfig
<1> QED BY <1>1, <1>2

LEMMA RowsMove ==
  ASSUME Typed, Knows, [Next]_vars, NEW d \in Configs
  PROVE  RowMove(d)
<1>1. ASSUME conf' = conf PROVE RowMove(d)
  BY <1>1 DEF RowMove
<1>2. ASSUME NEW c \in Configs, NEW a \in Accounts \cup {None}, Create(c, a) PROVE RowMove(d)
  <2> DEFINE r == [NoRow EXCEPT !.life = "present", !.account = a]
  <2>1. r \in Rows /\ r.life = "present" /\ r.archive = "none"
    BY RecordTypes DEF NoRow
  <2>2. conf'[c] = r /\ (d # c => conf'[d] = conf[d])
    BY <1>2, <2>1 DEF Create, Typed
  <2> QED BY <1>2, <2>1, <2>2 DEF Create, RowMove, Present
<1>3. ASSUME NEW c \in Configs, NEW b \in BOOLEAN, Handler, conf' = [conf EXCEPT ![c].active = b],
             b => conf[c].archive = "none", dash' = dash
      PROVE  RowMove(d)
  <2> DEFINE r == [conf[c] EXCEPT !.active = b]
  <2>1. r.life = conf[c].life /\ r.archive = conf[c].archive /\ r.active = b
    BY DEF Typed, Rows
  <2>2. conf'[c] = r /\ (d # c => conf'[d] = conf[d])
    BY <1>3 DEF Typed
  <2> QED BY <1>3, <2>1, <2>2 DEF RowMove, Toggles
<1>4. ASSUME NEW c \in Configs, Activate(c) \/ Deactivate(c) \/ \E t \in Threads : DeleteLinked(c, t)
      PROVE  RowMove(d)
  BY <1>3, <1>4 DEF Activate, Deactivate, DeleteLinked
<1>5. ASSUME NEW c \in Configs, Present(c), conf' = [conf EXCEPT ![c] = Deleted(c)]
      PROVE  RowMove(d)
  <2>1. conf'[c] = Deleted(c) /\ (d # c => conf'[d] = conf[d])
    BY <1>5 DEF Typed
  <2> QED BY <1>5, <2>1, RowsLive DEF RowMove
<1>6. ASSUME NEW c \in Configs, DeleteArchived(c) \/ DeleteStale(c) \/ DeleteUnlinked(c)
      PROVE  RowMove(d)
  BY <1>5, <1>6 DEF DeleteArchived, DeleteStale, DeleteUnlinked
<1>7. ASSUME NEW c \in Configs, NEW t \in Threads, ArchiveBegin(c, t) PROVE RowMove(d)
  <2>1. /\ Handler /\ Present(c) /\ conf[c].archive \in {"none", "archive_failed"}
        /\ UpdateArchiveState(c, "archiving") /\ dash' = dash /\ job[t].pc = "idle"
    BY <1>7 DEF ArchiveBegin
  <2>2. \A u \in Threads : u # t => job'[u] = job[u]
    BY <1>7 DEF ArchiveBegin, Spawn, Typed
  <2>3. CASE d = c
    BY <2>1, <2>2, <2>3, ArchiveStateMove DEF RowMove, Begins, Present, ArchiveStates
  <2>4. CASE d # c
    BY <2>1, <2>4, ArchiveStateMove DEF RowMove, ArchiveStates
  <2> QED BY <2>3, <2>4
<1>8. CASE WriteRow
  <2>1. dash.config \in Configs
    BY <1>8 DEF WriteRow, Knows, DashKnows, Exists
  <2>2. \/ conf' = conf
        \/ Present(dash.config) /\ conf' = [conf EXCEPT ![dash.config] = dash.row]
    BY <1>8 DEF WriteRow, UpdateConfig
  <2>3. \/ conf'[d] = conf[d]
        \/ d = dash.config /\ Present(d) /\ conf'[d] = dash.row
    BY <2>1, <2>2 DEF Typed
  <2> QED BY <1>8, <2>3 DEF RowMove, Written, WriteRow
<1>9. ASSUME NEW t \in Threads, ThreadStep(t) PROVE RowMove(d)
  <2> DEFINE c == job[t].config
  <2>1. job[t].pc # "idle" => c \in Configs
    BY DEF Knows, JobKnows, Exists
  <2>2. ASSUME NEW s \in {"archived", "archive_failed"}, UpdateArchiveState(c, s), Finish(t),
               job[t].pc # "idle", job[t].kind = "archive", dash' = dash
        PROVE  RowMove(d)
    <3>1. c \in Configs /\ s \in ArchiveStates
      BY <2>1, <2>2 DEF ArchiveStates
    <3>2. CASE d = c
      BY <2>2, <3>1, <3>2, ArchiveStateMove DEF RowMove, Ends, Archives, Finish, Present
    <3>3. CASE d # c
      BY <2>2, <3>1, <3>3, ArchiveStateMove DEF RowMove
    <3> QED BY <3>2, <3>3
  <2>3. CASE ThreadFails(t) /\ job[t].kind = "archive"
    BY <2>2, <2>3 DEF ThreadFails
  <2>4. CASE ArchiveFinish(t)
    BY <2>2, <2>4 DEF ArchiveFinish
  <2>5. CASE DeleteFinish(t)
    <3>1. conf' = conf \/ (Present(c) /\ conf' = [conf EXCEPT ![c] = Deleted(c)])
      BY <2>5 DEF DeleteFinish
    <3>2. c \in Configs
      BY <2>1, <2>5 DEF DeleteFinish
    <3> QED BY <1>1, <1>5, <3>1, <3>2
  <2>6. CASE ThreadFails(t) /\ job[t].kind # "archive"
    BY <1>1, <2>6 DEF ThreadFails
  <2>7. CASE ArchiveStart(t) \/ ClosePositions(t) \/ ThreadReconcile(t) \/ ForceExit(t)
    BY <1>1, <2>7 DEF ArchiveStart, ClosePositions, ThreadReconcile, ForceExit
  <2> QED BY <1>9, <2>3, <2>4, <2>5, <2>6, <2>7 DEF ThreadStep
<1>10. ASSUME \/ \E c \in Configs : \/ ReadRow(c) \/ Sync(c) \/ EvalSkip(c) \/ EvalBuy(c)
                                    \/ PeriodicReconcile(c) \/ \E s \in Symbols : MonitorExit(c, s)
                                    \/ \E s \in Symbols : ForceExitWatch(c, s)
              \/ \E s \in Symbols : EvalBegin(s)
              \/ \E a \in Registered, s \in Symbols : SellFills(a, s)
              \/ EvalInsert \/ Restart \/ UNCHANGED vars
       PROVE  conf' = conf
  BY <1>10 DEF ReadRow, Sync, EvalSkip, EvalBuy, PeriodicReconcile, MonitorExit, ForceExitWatch,
               EvalBegin, SellFills, EvalInsert, Restart, vars
<1> QED BY <1>1, <1>2, <1>4, <1>6, <1>7, <1>8, <1>9, <1>10 DEF Next

(* What a step makes of a thread.                                          *)
JobMove(t) ==
  \/ job'[t].pc = "idle"
  \/ job[t].pc # "idle" /\ job'[t].kind = job[t].kind /\ job'[t].config = job[t].config
  \/ job'[t].kind = "delete"
  \/ \E c \in Configs : /\ job'[t].config = c /\ Present(c)
                        /\ conf[c].archive \in {"none", "archive_failed"}
                        /\ conf'[c].archive = "archiving"
                        /\ \A u \in Threads : u # t => job'[u] = job[u]

LEMMA JobsMove ==
  ASSUME Typed, Knows, [Next]_vars, NEW u \in Threads
  PROVE  JobMove(u)
<1>0. job \in [Threads -> Jobs]
  BY DEF Typed
<1>1. ASSUME job'[u] = job[u] \/ job'[u] = NoJob PROVE JobMove(u)
  BY <1>1 DEF JobMove, NoJob
<1>2. ASSUME NEW c \in Configs, NEW t \in Threads, ArchiveBegin(c, t) PROVE JobMove(u)
  <2>1. CASE u = t
    <3>1. /\ job'[u].config = c /\ \A v \in Threads : v # u => job'[v] = job[v]
      BY <1>0, <1>2, <2>1 DEF ArchiveBegin, Spawn
    <3>2. /\ Present(c) /\ conf[c].archive \in {"none", "archive_failed"}
          /\ UpdateArchiveState(c, "archiving")
      BY <1>2 DEF ArchiveBegin
    <3>3. conf'[c].archive = "archiving"
      BY <3>2, ArchiveStateMove DEF ArchiveStates
    <3> QED BY <3>1, <3>2, <3>3 DEF JobMove
  <2>2. CASE u # t
    BY <1>0, <1>1, <1>2, <2>2 DEF ArchiveBegin, Spawn
  <2> QED BY <2>1, <2>2
<1>3. ASSUME NEW c \in Configs, NEW t \in Threads, DeleteLinked(c, t) PROVE JobMove(u)
  <2>1. job'[u] = job[u] \/ job'[u].kind = "delete"
    BY <1>0, <1>3 DEF DeleteLinked, Spawn
  <2> QED BY <1>1, <2>1 DEF JobMove
<1>4. ASSUME NEW t \in Threads, ThreadStep(t) PROVE JobMove(u)
  <2>0. job[t] \in Jobs /\ job[t].pc # "idle"
    BY <1>0, <1>4 DEF ThreadStep, ArchiveStart, ClosePositions, ThreadReconcile,
         ThreadFails, ForceExit, ArchiveFinish, DeleteFinish
  <2>1. ASSUME NEW pc, Step(t, pc) PROVE JobMove(u)
    <3>1. job'[u] = job[u] \/ (job'[u] = [job[t] EXCEPT !.pc = pc] /\ u = t)
      BY <1>0, <2>1 DEF Step
    <3>2. \A p : LET j == [job[t] EXCEPT !.pc = p]
                 IN  j.kind = job[t].kind /\ j.config = job[t].config
      BY <2>0 DEF Jobs
    <3> QED BY <1>1, <2>0, <3>1, <3>2 DEF JobMove
  <2>2. ASSUME Finish(t) PROVE JobMove(u)
    BY <1>0, <1>1, <2>2 DEF Finish
  <2>3. CASE ArchiveStart(t)
    <3>1. CASE Finish(t)
      BY <2>2, <3>1
    <3>2. CASE ~Finish(t)
      <4> DEFINE a == conf[job[t].config].account
                 go == IF a \in Registered THEN "sell" ELSE "force"
                 j == [job[t] EXCEPT !.account = a, !.pc = go]
      <4>1. job' = [job EXCEPT ![t] = j]
        BY <1>0, <2>3, <3>2 DEF ArchiveStart
      <4>2. j.kind = job[t].kind /\ j.config = job[t].config
        BY <2>0 DEF Jobs
      <4>3. job'[u] = job[u] \/ (job'[u] = j /\ u = t)
        BY <1>0, <4>1
      <4> QED BY <1>1, <2>0, <4>2, <4>3 DEF JobMove
    <3> QED BY <3>1, <3>2
  <2>4. CASE ThreadFails(t)
    <3>1. Finish(t) \/ Step(t, "finish")
      BY <2>4 DEF ThreadFails
    <3> QED BY <2>1, <2>2, <3>1
  <2>5. CASE ClosePositions(t) \/ ThreadReconcile(t) \/ ForceExit(t)
    BY <2>1, <2>5 DEF ClosePositions, ThreadReconcile, ForceExit
  <2>6. CASE ArchiveFinish(t) \/ DeleteFinish(t)
    BY <2>2, <2>6 DEF ArchiveFinish, DeleteFinish
  <2> QED BY <1>4, <2>3, <2>4, <2>5, <2>6 DEF ThreadStep
<1>5. CASE Restart
  BY <1>1, <1>5 DEF Restart
<1>6. ASSUME \/ \E c \in Configs, a \in Accounts \cup {None} : Create(c, a)
             \/ \E c \in Configs : \/ Activate(c) \/ Deactivate(c) \/ ReadRow(c)
                                   \/ DeleteArchived(c) \/ DeleteStale(c) \/ DeleteUnlinked(c)
                                   \/ Sync(c) \/ EvalSkip(c) \/ EvalBuy(c)
                                   \/ PeriodicReconcile(c)
             \/ \E c \in Configs, s \in Symbols : MonitorExit(c, s) \/ ForceExitWatch(c, s)
             \/ \E a \in Registered, s \in Symbols : SellFills(a, s)
             \/ \E s \in Symbols : EvalBegin(s)
             \/ WriteRow \/ EvalInsert \/ UNCHANGED vars
      PROVE  job' = job
  BY <1>6 DEF Create, Activate, Deactivate, ReadRow, DeleteArchived, DeleteStale, DeleteUnlinked,
              Sync, EvalSkip, EvalBuy, PeriodicReconcile, MonitorExit, ForceExitWatch, SellFills,
              EvalBegin, WriteRow, EvalInsert, vars
<1> QED BY <1>1, <1>2, <1>3, <1>4, <1>5, <1>6 DEF Next

-----------------------------------------------------------------------------
(* An archiving is not taken back.                                         *)

(* One thread at a time archives a config, and its row says so; a row that *)
(* is to be written back is as old as the archiving at most.               *)
ArchivingMarked ==
  \A t \in Threads, c \in Configs :
    Archives(t, c) /\ Present(c) => conf[c].archive = "archiving"

OneArchives ==
  \A t, u \in Threads, c \in Configs : Archives(t, c) /\ Archives(u, c) => t = u

ArchivedRests == \A c \in Configs : Present(c) /\ conf[c].archive # "none" => ~conf[c].active

DashFresh == dash.pc = "write" =>
  LET c == dash.config IN
  /\ dash.row.archive # "none" => ~dash.row.active
  /\ Present(c) => \/ conf[c].archive = dash.row.archive
                   \/ /\ dash.row.archive = "archiving"
                      /\ conf[c].archive \in {"archived", "archive_failed"}

Archiving == ArchivingMarked /\ OneArchives /\ ArchivedRests /\ DashFresh

LEMMA ArchivingInit == Init => Archiving
BY DEF Init, Archiving, ArchivingMarked, OneArchives, ArchivedRests, DashFresh, Archives,
       NoJob, NoDash, NoRow, Present

LEMMA DashConfig ==
  ASSUME Typed, Knows, DashFresh, NEW d \in Configs, dash.pc = "write", dash.config = d
  PROVE  /\ dash.row.life = "present"
         /\ dash.row.archive # "none" => ~dash.row.active
         /\ Present(d) => \/ conf[d].archive = dash.row.archive
                          \/ /\ dash.row.archive = "archiving"
                             /\ conf[d].archive \in {"archived", "archive_failed"}
BY DEF Knows, DashKnows, DashFresh

LEMMA ArchivedRestsStep ==
  ASSUME Typed, Knows, Archiving, [Next]_vars
  PROVE  ArchivedRests'
<1> SUFFICES ASSUME NEW c \in Configs, Present(c)', conf'[c].archive # "none"
             PROVE  ~conf'[c].active
  BY DEF ArchivedRests
<1>1. RowMove(c)
  BY RowsMove
<1>2. CASE conf'[c] = conf[c]
  BY <1>2 DEF Archiving, ArchivedRests, Present
<1>3. CASE Toggles(c)
  BY <1>3 DEF Toggles
<1>4. CASE Written(c)
  BY <1>4, DashConfig DEF Archiving, Written
<1> QED BY <1>1, <1>2, <1>3, <1>4 DEF RowMove, Begins, Ends, Present

LEMMA OneArchivesStep ==
  ASSUME Typed, Knows, Archiving, [Next]_vars
  PROVE  OneArchives'
<1> SUFFICES ASSUME NEW t \in Threads, NEW u \in Threads, NEW c \in Configs,
                    Archives(t, c)', Archives(u, c)', t # u
             PROVE  FALSE
  BY DEF OneArchives
<1>1. JobMove(t) /\ JobMove(u)
  BY JobsMove
<1>2. ASSUME NEW v \in Threads, NEW w \in Threads, v # w, Archives(v, c)', Archives(w, c)',
             JobMove(v), ~Archives(v, c)
      PROVE  FALSE
  <2>1. /\ Present(c) /\ conf[c].archive \in {"none", "archive_failed"} /\ job'[w] = job[w]
    BY <1>2 DEF JobMove, Archives
  <2>2. Archives(w, c)
    BY <1>2, <2>1 DEF Archives
  <2> QED BY <2>1, <2>2 DEF Archiving, ArchivingMarked
<1> QED BY <1>1, <1>2 DEF Archiving, OneArchives

LEMMA ArchivingMarkedStep ==
  ASSUME Typed, Knows, Archiving, [Next]_vars
  PROVE  ArchivingMarked'
<1> SUFFICES ASSUME NEW t \in Threads, NEW c \in Configs, Archives(t, c)', Present(c)'
             PROVE  conf'[c].archive = "archiving"
  BY DEF ArchivingMarked
<1>1. RowMove(c) /\ JobMove(t)
  BY RowsMove, JobsMove
<1>2. CASE ~Archives(t, c)
  BY <1>1, <1>2 DEF JobMove, Archives
<1>3. CASE Archives(t, c)
  <2>1. Exists(c)
    BY <1>3 DEF Knows, JobKnows, Archives
  <2>2. CASE conf'[c] = conf[c] \/ Toggles(c)
    BY <1>3, <2>2 DEF Archiving, ArchivingMarked, Toggles, Present
  <2>3. CASE Begins(c)
    BY <2>3 DEF Begins
  <2>4. CASE Written(c)
    <3>1. Present(c) /\ conf[c].archive = "archiving"
      BY <1>3, <2>4 DEF Archiving, ArchivingMarked, Written
    <3> QED BY <2>4, <3>1, DashConfig DEF Archiving, Written
  <2>5. CASE Ends(c)
    <3>1. PICK u \in Threads : Archives(u, c) /\ job' = [job EXCEPT ![u] = NoJob]
      BY <2>5 DEF Ends
    <3>2. u = t
      BY <1>3, <3>1 DEF Archiving, OneArchives
    <3> QED BY <3>1, <3>2 DEF Archives, NoJob, Typed
  <2> QED BY <1>1, <2>1, <2>2, <2>3, <2>4, <2>5 DEF RowMove, Exists, Present
<1> QED BY <1>2, <1>3

LEMMA DashFreshStep ==
  ASSUME Typed, Knows, Archiving, [Next]_vars
  PROVE  DashFresh'
<1>1. CASE dash' = dash /\ dash.pc = "write"
  <2> DEFINE c == dash.config
  <2>1. c \in Configs
    BY <1>1 DEF Knows, DashKnows, Exists
  <2>2. RowMove(c) /\ dash'.pc = "write" /\ ~Handler /\ dash' # NoDash
    BY <1>1, <2>1, RowsMove DEF Handler, NoDash
  <2>3. /\ dash.row.archive # "none" => ~dash.row.active
        /\ Present(c) => \/ conf[c].archive = dash.row.archive
                         \/ /\ dash.row.archive = "archiving"
                            /\ conf[c].archive \in {"archived", "archive_failed"}
    BY <1>1, <2>1, DashConfig DEF Archiving
  <2>4. CASE conf'[c] = conf[c]
    BY <1>1, <2>3, <2>4 DEF DashFresh, Present
  <2>5. CASE Ends(c)
    <3>1. Present(c) /\ conf[c].archive = "archiving"
      BY <2>1, <2>5 DEF Ends, Archiving, ArchivingMarked
    <3> QED BY <1>1, <2>3, <2>5, <3>1 DEF DashFresh, Ends
  <2>6. CASE conf'[c].life = "deleted"
    BY <1>1, <2>3, <2>6 DEF DashFresh, Present
  <2> QED BY <1>1, <2>2, <2>4, <2>5, <2>6 DEF RowMove, Begins, Toggles, Written
<1>2. CASE dash'.pc # "write"
  BY <1>2 DEF DashFresh
<1>3. ASSUME NEW c \in Configs, NEW p \in BOOLEAN, Present(c), conf' = conf,
             dash' = [pc |-> "write", config |-> c, row |-> [conf[c] EXCEPT !.paused = p]]
      PROVE  DashFresh'
  <2>1. /\ dash'.config = c /\ dash'.row.archive = conf[c].archive
        /\ dash'.row.active = conf[c].active
    BY <1>3 DEF Typed, Rows
  <2> QED BY <1>3, <2>1 DEF DashFresh, Archiving, ArchivedRests
<1> QED BY <1>1, <1>2, <1>3, DashStep DEF NoDash

LEMMA ArchivingStep == Typed /\ Knows /\ Archiving /\ [Next]_vars => Archiving'
BY ArchivingMarkedStep, OneArchivesStep, ArchivedRestsStep, DashFreshStep DEF Archiving

LEMMA Revives ==
  ASSUME Typed, Knows, Archiving, [Next]_vars, NEW c \in Configs,
         Present(c), conf[c].archive # "none"
  PROVE  ~conf'[c].active
<1>1. RowMove(c)
  BY RowsMove
<1>2. CASE conf'[c] = conf[c]
  BY <1>2 DEF Archiving, ArchivedRests
<1>3. CASE Written(c)
  BY <1>3, DashConfig DEF Archiving, Written
<1> QED BY <1>1, <1>2, <1>3 DEF RowMove, Toggles, Begins, Ends, Present

-----------------------------------------------------------------------------
(* Sold before gone.                                                       *)

(* A position is in its buyer's account, and one that a watch was made for *)
(* has it as long as it is there.                                          *)
OwnedBy(a, p) == /\ Exists(p[2]) /\ conf[p[2]].account = a
                 /\ p[3] = "tracked" => p[1] \in hold[p[2]]

Owned == \A a \in Registered : \A p \in pos[a] : OwnedBy(a, p)

LEMMA OwnedOn ==
  ASSUME Typed, Owned, \A c \in Configs : LivesOn(c), NEW a \in Registered, NEW p \in pos[a],
         p[3] = "tracked" => p[1] \in hold'[p[2]]
  PROVE  OwnedBy(a, p)'
BY DEF Owned, OwnedBy, LivesOn, Exists

(* The watches of a config become those of h, and its positions know.      *)
LEMMA RemarkedOwned ==
  ASSUME Typed, Owned, SoldBeforeGone, NEW c \in Configs, NEW h, conf' = conf,
         hold' = [hold EXCEPT ![c] = h], pos' = Remarked(c, h)
  PROVE  Owned'
<1> SUFFICES ASSUME NEW a \in Registered, NEW p \in pos'[a] PROVE OwnedBy(a, p)'
  BY DEF Owned
<1>1. PICK q \in pos[a] :
        p = IF q[2] = c /\ ~Gone(c)
              THEN <<q[1], c, IF q[1] \in h THEN "tracked"
                               ELSE IF q[1] \in hold[c] THEN "unsold" ELSE q[3]>>
              ELSE q
  BY DEF Remarked, Symbol, Buyer
<1>2. OwnedBy(a, q) /\ q[2] \in Configs
  BY DEF Owned, OwnedBy, Exists
<1>3. p[1] = q[1] /\ p[2] = q[2]
  BY <1>1
<1>4. p[3] = "tracked" => q[1] \in hold'[q[2]]
  <2>1. CASE q[2] = c /\ Gone(c)
    BY <1>1, <2>1 DEF SoldBeforeGone, Buyer
  <2>2. CASE q[2] = c /\ ~Gone(c)
    BY <1>1, <1>2, <2>2 DEF OwnedBy, Typed
  <2>3. CASE q[2] # c
    BY <1>1, <1>2, <2>3 DEF OwnedBy, Typed
  <2> QED BY <2>1, <2>2, <2>3
<1> QED BY <1>2, <1>3, <1>4 DEF OwnedBy, Exists

LEMMA ExitsOwned ==
  ASSUME Typed, Owned, SoldBeforeGone, NEW c \in Configs, NEW gone, conf' = conf, Exits(c, gone)
  PROVE  Owned'
BY RemarkedOwned DEF Exits, Typed

LEMMA ReconciledOwned ==
  ASSUME Typed, Owned, SoldBeforeGone, NEW c \in Configs, NEW a \in Registered, conf' = conf,
         Reconciled(c, a)
  PROVE  Owned'
<1>1. \E h : hold' = [hold EXCEPT ![c] = h] /\ pos' = Remarked(c, h)
  BY DEF Reconciled
<1> QED BY <1>1, RemarkedOwned

(* A sale in an account takes the watch of a config of that account along. *)
LEMMA SaleOwned ==
  ASSUME Typed, Owned, NEW c \in Configs, NEW a \in Registered, NEW s, conf' = conf,
         conf[c].account = a, pos' = Sold(a, s),
         hold' = [hold EXCEPT ![c] = @ \ {s}]
  PROVE  Owned'
<1> SUFFICES ASSUME NEW b \in Registered, NEW p \in pos'[b] PROVE OwnedBy(b, p)'
  BY DEF Owned
<1>1. p \in pos[b] /\ (b = a => p[1] # s)
  BY DEF Sold, Symbol, Typed
<1>2. OwnedBy(b, p) /\ p[2] \in Configs
  BY <1>1 DEF Owned, OwnedBy, Exists
<1>3. p[2] = c => p[1] # s
  BY <1>1, <1>2 DEF OwnedBy
<1>4. p[3] = "tracked" => p[1] \in hold'[p[2]]
  BY <1>2, <1>3 DEF OwnedBy, Typed
<1> QED BY <1>2, <1>4 DEF OwnedBy, Exists

LEMMA OwnedStep ==
  ASSUME Typed, Knows, Owned, SoldBeforeGone, [Next]_vars
  PROVE  Owned'
<1>0. \A c \in Configs : LivesOn(c)
  BY AllLive
<1>1. ASSUME \A a \in Registered : pos'[a] \subseteq pos[a],
             \A c \in Configs : hold[c] \subseteq hold'[c]
      PROVE  Owned'
  <2> SUFFICES ASSUME NEW a \in Registered, NEW p \in pos'[a] PROVE OwnedBy(a, p)'
    BY DEF Owned
  <2>1. p \in pos[a] /\ OwnedBy(a, p) /\ p[2] \in Configs
    BY <1>1 DEF Owned, OwnedBy, Exists
  <2>2. p[3] = "tracked" => p[1] \in hold'[p[2]]
    BY <1>1, <2>1 DEF OwnedBy
  <2> QED BY <1>0, <2>1, <2>2, OwnedOn
<1>2. ASSUME NEW c \in Configs, NEW a \in Accounts \cup {None}, Create(c, a) PROVE Owned'
  <2>1. hold' = hold /\ \A b \in Registered : pos'[b] \subseteq pos[b]
    BY <1>2 DEF Create, Typed
  <2> QED BY <1>1, <2>1
<1>3. ASSUME NEW c \in Configs, DeleteStale(c) PROVE Owned'
  <2> SUFFICES ASSUME NEW a \in Registered, NEW p \in pos'[a] PROVE OwnedBy(a, p)'
    BY DEF Owned
  <2>1. p \in pos[a] /\ OwnedBy(a, p) /\ p[2] \in Configs
    BY <1>3 DEF DeleteStale, Owned, OwnedBy, Exists
  <2>2. p[2] # c
    BY <1>3, <2>1 DEF DeleteStale, OwnedBy
  <2>3. hold'[p[2]] = hold[p[2]]
    BY <1>3, <2>1, <2>2 DEF DeleteStale, Typed
  <2> QED BY <1>0, <2>1, <2>3, OwnedOn DEF OwnedBy
<1>4. ASSUME NEW c \in Configs, Sync(c) \/ PeriodicReconcile(c) PROVE Owned'
  BY <1>4, ReconciledOwned DEF Sync, PeriodicReconcile
<1>5. ASSUME NEW c \in Configs, EvalBuy(c) PROVE Owned'
  <2> SUFFICES ASSUME NEW a \in Registered, NEW p \in pos'[a] PROVE OwnedBy(a, p)'
    BY DEF Owned
  <2>1. conf' = conf /\ hold' = hold /\ Exists(c)
    BY <1>5 DEF EvalBuy, Knows, EvalKnows
  <2>2. \/ p \in pos[a]
        \/ p = <<eval.symbol, c, "new">> /\ a = conf[c].account
    BY <1>5 DEF EvalBuy, Typed
  <2>3. CASE p \in pos[a]
    BY <2>1, <2>3, <1>0, OwnedOn DEF Owned, OwnedBy
  <2>4. CASE p = <<eval.symbol, c, "new">> /\ a = conf[c].account
    BY <2>1, <2>4 DEF OwnedBy, Exists
  <2> QED BY <2>2, <2>3, <2>4
<1>6. CASE EvalInsert
  <2>1. eval.config \in Configs
    BY <1>6 DEF EvalInsert, Knows, EvalKnows, Exists
  <2>2. /\ conf' = conf /\ pos' = Remarked(eval.config, hold[eval.config] \cup {eval.symbol})
        /\ hold' = [hold EXCEPT ![eval.config] = hold[eval.config] \cup {eval.symbol}]
    BY <1>6 DEF EvalInsert
  <2> QED BY <2>1, <2>2, RemarkedOwned
<1>7. ASSUME NEW c \in Configs, NEW s \in Symbols, MonitorExit(c, s) \/ ForceExitWatch(c, s)
      PROVE  Owned'
  <2>1. CASE Exits(c, {s})
    BY <1>7, <2>1, ExitsOwned DEF MonitorExit, ForceExitWatch
  <2>2. CASE ~Exits(c, {s})
    BY <1>7, <2>2, SaleOwned DEF MonitorExit, ForceExitWatch
  <2> QED BY <2>1, <2>2
<1>12. ASSUME NEW a \in Registered, NEW s \in Symbols, SellFills(a, s) PROVE Owned'
  <2>1. conf' = conf /\ pos' = Sold(a, s) /\ \A b \in Registered : pos'[b] \subseteq pos[b]
    BY <1>12 DEF SellFills, Sold, Typed
  <2>2. CASE hold' = hold
    BY <1>1, <2>1, <2>2
  <2>3. CASE hold' # hold
    BY <1>12, <2>1, <2>3, SaleOwned DEF SellFills
  <2> QED BY <2>2, <2>3
<1>8. ASSUME NEW t \in Threads, ClosePositions(t) PROVE Owned'
  BY <1>1, <1>8 DEF ClosePositions, Typed
<1>9. ASSUME NEW t \in Threads, ThreadReconcile(t) PROVE Owned'
  <2>1. /\ job[t].config \in Configs /\ job[t].account \in Registered
        /\ Reconciled(job[t].config, job[t].account) /\ conf' = conf
    BY <1>9 DEF ThreadReconcile, Knows, JobKnows, Exists
  <2> QED BY <2>1, ReconciledOwned
<1>10. ASSUME NEW t \in Threads, ForceExit(t) PROVE Owned'
  <2>1. job[t].config \in Configs /\ conf' = conf
    BY <1>10 DEF ForceExit, Knows, JobKnows, Exists
  <2>2. \E gone : Exits(job[t].config, gone)
    BY <1>10 DEF ForceExit
  <2> QED BY <2>1, <2>2, ExitsOwned
<1>11. ASSUME \/ \E c \in Configs : \/ Activate(c) \/ Deactivate(c) \/ ReadRow(c)
                                    \/ DeleteArchived(c) \/ DeleteUnlinked(c) \/ EvalSkip(c)
              \/ \E c \in Configs, t \in Threads : ArchiveBegin(c, t) \/ DeleteLinked(c, t)
              \/ \E s \in Symbols : EvalBegin(s)
              \/ \E t \in Threads : \/ ArchiveStart(t) \/ ThreadFails(t)
                                    \/ ArchiveFinish(t) \/ DeleteFinish(t)
              \/ WriteRow \/ Restart \/ UNCHANGED vars
       PROVE  pos' = pos /\ hold' = hold
  BY <1>11 DEF Activate, Deactivate, ReadRow, DeleteArchived, DeleteUnlinked, EvalSkip,
               ArchiveBegin, DeleteLinked, EvalBegin, ArchiveStart, ThreadFails, ArchiveFinish,
               DeleteFinish, WriteRow, Restart, vars
<1> QED BY <1>1, <1>2, <1>3, <1>4, <1>5, <1>6, <1>7, <1>8, <1>9, <1>10, <1>11, <1>12
        DEF Next, ThreadStep

(* A config goes without watches, or with an account nobody knows.         *)
LEMMA Going ==
  ASSUME Typed, Knows, Archiving, [Next]_vars, NEW d \in Configs, Gone(d)'
  PROVE  Gone(d) \/ hold[d] = {} \/ conf[d].account \notin Registered
<1>1. RowMove(d)
  BY RowsMove
<1>2. CASE conf'[d] = conf[d]
  BY <1>2 DEF Gone, Present
<1>3. CASE Toggles(d)
  BY <1>3 DEF Toggles, Gone, Present
<1>4. CASE Written(d)
  BY <1>4, DashConfig DEF Written, Archiving, Gone, Present
<1>5. CASE /\ conf'[d].life = "deleted" \/ Ends(d)
           /\ conf'[d] # conf[d]
  <2>1. CASE \E c \in Configs : DeleteArchived(c) \/ DeleteUnlinked(c) \/ DeleteStale(c)
    BY <1>5, <2>1 DEF DeleteArchived, DeleteUnlinked, DeleteStale, Typed
  <2>2. ASSUME NEW t \in Threads, DeleteFinish(t) PROVE hold[d] = {}
    BY <1>5, <2>2 DEF DeleteFinish, Typed
  <2>3. ASSUME NEW t \in Threads, ArchiveFinish(t) PROVE Gone(d) \/ hold[d] = {}
    <3> DEFINE c == job[t].config
               s == IF hold[c] = {} THEN "archived" ELSE "archive_failed"
    <3>1. c \in Configs /\ UpdateArchiveState(c, s) /\ s \in ArchiveStates
      BY <2>3 DEF ArchiveFinish, Knows, JobKnows, Exists, ArchiveStates
    <3>2. CASE c # d
      BY <1>5, <3>1, <3>2, ArchiveStateMove
    <3>3. CASE c = d
      BY <1>5, <3>1, <3>3, ArchiveStateMove DEF Gone, Present
    <3> QED BY <3>2, <3>3
  <2>4. ASSUME NEW t \in Threads, ThreadFails(t) PROVE Gone(d)
    <3> DEFINE c == job[t].config
    <3>1. c \in Configs /\ UpdateArchiveState(c, "archive_failed")
      BY <1>5, <2>4 DEF ThreadFails, Knows, JobKnows, Exists
    <3>2. CASE c # d
      BY <1>5, <3>1, <3>2, ArchiveStateMove DEF ArchiveStates
    <3>3. CASE c = d
      BY <1>5, <3>1, <3>3, ArchiveStateMove DEF Gone, Present, ArchiveStates
    <3> QED BY <3>2, <3>3
  <2>5. ASSUME NEW c \in Configs, NEW t \in Threads, ArchiveBegin(c, t) PROVE Gone(d)
    <3>1. UpdateArchiveState(c, "archiving")
      BY <2>5 DEF ArchiveBegin
    <3>2. CASE c # d
      BY <1>5, <3>1, <3>2, ArchiveStateMove DEF ArchiveStates
    <3>3. CASE c = d
      BY <1>5, <3>1, <3>3, ArchiveStateMove DEF Gone, Present, ArchiveStates
    <3> QED BY <3>2, <3>3
  <2>6. ASSUME NEW c \in Configs, NEW a \in Accounts \cup {None}, Create(c, a) PROVE FALSE
    BY <1>5, <2>6 DEF Create, Typed, NoRow, Gone, Present, Ends
  <2>7. ASSUME NEW c \in Configs,
               \/ Activate(c) \/ Deactivate(c) \/ \E t \in Threads : DeleteLinked(c, t)
        PROVE  Gone(d)
    <3>1. PICK b \in BOOLEAN : conf' = [conf EXCEPT ![c] = [conf[c] EXCEPT !.active = b]]
      BY <2>7 DEF Activate, Deactivate, DeleteLinked
    <3>2. LET r == [conf[c] EXCEPT !.active = b] IN r.life = conf[c].life /\ r.archive = conf[c].archive
      BY DEF Typed, Rows
    <3> QED BY <3>1, <3>2 DEF Gone, Present, Typed
  <2>8. CASE WriteRow
    <3>1. CASE dash.config = d /\ Present(d)
      <4>1. conf'[d] = dash.row
        BY <2>8, <3>1 DEF WriteRow, UpdateConfig, Typed
      <4> QED BY <2>8, <3>1, <4>1, DashConfig DEF WriteRow, Archiving, Gone, Present
    <3>2. CASE dash.config # d \/ ~Present(d)
      BY <1>5, <2>8, <3>2 DEF WriteRow, UpdateConfig, Typed
    <3> QED BY <3>1, <3>2
  <2>9. ASSUME \/ \E c \in Configs : \/ ReadRow(c) \/ Sync(c) \/ EvalSkip(c) \/ EvalBuy(c)
                                     \/ PeriodicReconcile(c)
                                     \/ \E s \in Symbols : MonitorExit(c, s)
                                     \/ \E s \in Symbols : ForceExitWatch(c, s)
               \/ \E s \in Symbols : EvalBegin(s)
               \/ \E a \in Registered, s \in Symbols : SellFills(a, s)
               \/ \E t \in Threads : \/ ArchiveStart(t) \/ ClosePositions(t)
                                     \/ ThreadReconcile(t) \/ ForceExit(t)
               \/ EvalInsert \/ Restart \/ UNCHANGED vars
        PROVE  FALSE
    BY <1>5, <2>9 DEF ReadRow, Sync, EvalSkip, EvalBuy, PeriodicReconcile, MonitorExit,
       ForceExitWatch, SellFills, EvalBegin, EvalInsert, Restart, vars, ArchiveStart, ClosePositions, ThreadReconcile, ForceExit
  <2> QED BY <2>1, <2>2, <2>3, <2>4, <2>5, <2>6, <2>7, <2>8, <2>9 DEF Next, ThreadStep
<1> QED BY <1>1, <1>2, <1>3, <1>4, <1>5 DEF RowMove, Begins, Gone, Present

(* Only a watch of a config that trades makes a position tracked.          *)
LEMMA Tracking ==
  ASSUME Typed, Knows, [Next]_vars, NEW a \in Registered, NEW p \in pos'[a], p[3] = "tracked"
  PROVE  p \in pos[a] \/ (~Gone(p[2]) /\ conf' = conf)
<1>1. ASSUME pos'[a] \subseteq pos[a] PROVE p \in pos[a]
  BY <1>1
<1>0. ASSUME NEW c \in Configs, NEW h, pos' = Remarked(c, h), conf' = conf
      PROVE  p \in pos[a] \/ (~Gone(p[2]) /\ conf' = conf)
  <2>1. PICK q \in pos[a] :
          p = IF Buyer(q) = c /\ ~Gone(c)
                THEN <<Symbol(q), c, IF Symbol(q) \in h THEN "tracked"
                                      ELSE IF Symbol(q) \in hold[c] THEN "unsold" ELSE q[3]>>
                ELSE q
    BY <1>0 DEF Remarked
  <2> QED BY <1>0, <2>1
<1>2. ASSUME NEW c \in Configs, NEW b \in Registered, Reconciled(c, b), conf' = conf
      PROVE  p \in pos[a] \/ (~Gone(p[2]) /\ conf' = conf)
  BY <1>0, <1>2 DEF Reconciled
<1>3. ASSUME NEW t \in Threads, ThreadReconcile(t)
      PROVE  p \in pos[a] \/ (~Gone(p[2]) /\ conf' = conf)
  <2>1. /\ job[t].config \in Configs /\ job[t].account \in Registered
        /\ Reconciled(job[t].config, job[t].account) /\ conf' = conf
    BY <1>3 DEF ThreadReconcile, Knows, JobKnows, Exists
  <2> QED BY <1>2, <2>1
<1>4. ASSUME NEW c \in Configs, Sync(c) \/ PeriodicReconcile(c)
      PROVE  p \in pos[a] \/ (~Gone(p[2]) /\ conf' = conf)
  BY <1>2, <1>4 DEF Sync, PeriodicReconcile
<1>5. CASE EvalInsert
  BY <1>0, <1>5 DEF EvalInsert, Knows, EvalKnows, Exists
<1>6. ASSUME NEW c \in Configs, EvalBuy(c) PROVE p \in pos[a]
  <2>1. p \in pos[a] \/ p = <<eval.symbol, c, "new">>
    BY <1>6 DEF EvalBuy, Typed
  <2> QED BY <2>1
<1>7. ASSUME NEW c \in Configs, NEW s \in Symbols, MonitorExit(c, s) \/ ForceExitWatch(c, s)
      PROVE  p \in pos[a] \/ (~Gone(p[2]) /\ conf' = conf)
  BY <1>0, <1>7 DEF MonitorExit, ForceExitWatch, Exits, Sold, Typed
<1>11. ASSUME NEW b \in Registered, NEW s \in Symbols, SellFills(b, s) PROVE p \in pos[a]
  BY <1>11 DEF SellFills, Sold, Typed
<1>12. ASSUME NEW t \in Threads, ForceExit(t)
       PROVE  p \in pos[a] \/ (~Gone(p[2]) /\ conf' = conf)
  <2>1. job[t].config \in Configs /\ conf' = conf
    BY <1>12 DEF ForceExit, Knows, JobKnows, Exists
  <2>2. \E gone : Exits(job[t].config, gone)
    BY <1>12 DEF ForceExit
  <2> QED BY <1>0, <2>1, <2>2 DEF Exits
<1>8. ASSUME NEW t \in Threads, ClosePositions(t) PROVE p \in pos[a]
  BY <1>8 DEF ClosePositions, Typed
<1>9. ASSUME NEW c \in Configs, NEW b \in Accounts \cup {None}, Create(c, b) PROVE p \in pos[a]
  BY <1>9 DEF Create, Typed
<1>10. ASSUME \/ \E c \in Configs : \/ Activate(c) \/ Deactivate(c) \/ ReadRow(c) \/ DeleteStale(c)
                                    \/ DeleteArchived(c) \/ DeleteUnlinked(c) \/ EvalSkip(c)
              \/ \E c \in Configs, t \in Threads : ArchiveBegin(c, t) \/ DeleteLinked(c, t)
              \/ \E s \in Symbols : EvalBegin(s)
              \/ \E t \in Threads : \/ ArchiveStart(t) \/ ThreadFails(t)
                                    \/ ArchiveFinish(t) \/ DeleteFinish(t)
              \/ WriteRow \/ Restart \/ UNCHANGED vars
       PROVE  pos' = pos
  BY <1>10 DEF Activate, Deactivate, ReadRow, DeleteStale, DeleteArchived, DeleteUnlinked, EvalSkip,
               ArchiveBegin, DeleteLinked, EvalBegin, ArchiveStart, ThreadFails, ArchiveFinish,
               DeleteFinish, WriteRow, Restart, vars
<1> QED BY <1>3, <1>4, <1>5, <1>6, <1>7, <1>8, <1>9, <1>10, <1>11, <1>12 DEF Next, ThreadStep

LEMMA SoldStep ==
  ASSUME Typed, Knows, Archiving, Owned, SoldBeforeGone, [Next]_vars
  PROVE  SoldBeforeGone'
<1> SUFFICES ASSUME NEW c \in Configs, NEW a \in Registered, Gone(c)', NEW p \in pos'[a], p[2] = c,
                    p[3] = "tracked"
             PROVE  FALSE
  BY DEF SoldBeforeGone, Buyer
<1>1. p \in pos[a]
  BY Tracking DEF Gone, Present
<1>2. OwnedBy(a, p)
  BY <1>1 DEF Owned
<1>3. ~Gone(c)
  BY <1>1 DEF SoldBeforeGone, Buyer
<1> QED BY <1>2, <1>3, Going DEF OwnedBy

(* The invariant that both results rest on.                                *)
ConfigInv == Typed /\ Knows /\ Archiving /\ Owned /\ SoldBeforeGone

LEMMA ConfigInvInit == Init => ConfigInv
BY TypedInit, ArchivingInit DEF Init, ConfigInv, Knows, EvalKnows, JobKnows, DashKnows, Owned,
   SoldBeforeGone, NoEval, NoJob, NoDash

LEMMA ConfigInvStep == ConfigInv /\ [Next]_vars => ConfigInv'
BY TypedStep, KnowsStep, ArchivingStep, OwnedStep, SoldStep DEF ConfigInv

LEMMA NotRevived ==
  ConfigInv /\ [Next]_vars =>
    \A c \in Configs : (Present(c) /\ conf[c].archive # "none") => ~conf'[c].active
BY Revives DEF ConfigInv

(* No config is archived or deleted while a position it tracked is open    *)
(* (_run_archive_bg, _wait_and_delete), however many threads, handlers and *)
(* restarts fall together.                                                 *)
THEOREM SoldBeforeConfigsGo == Spec => []SoldBeforeGone
<1>1. ConfigInv => SoldBeforeGone
  BY DEF ConfigInv
<1> QED BY <1>1, ConfigInvInit, ConfigInvStep, PTL DEF Spec

(* No click, thread or stale row makes a config active again whose         *)
(* archiving has begun (activate_config, update_live_config).              *)
THEOREM ArchivingsStand == Spec => NeverRevived
<1>1. ConfigInv /\ [Next]_vars =>
        [\A c \in Configs : (Present(c) /\ conf[c].archive # "none") => ~conf'[c].active]_vars
  BY NotRevived
<1> QED BY <1>1, ConfigInvInit, ConfigInvStep, PTL DEF Spec, NeverRevived
=============================================================================
