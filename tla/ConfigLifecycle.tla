-------------------------- MODULE ConfigLifecycle --------------------------
(***************************************************************************)
(* The life of a live config (a portfolio) in the dashboard: created,      *)
(* activated, paused, edited, deactivated, archived, deleted; against an   *)
(* explorer that evaluates a signal for the active configs, the exit       *)
(* monitor, and the background threads that liquidate an account.          *)
(*                                                                         *)
(* The handlers are coroutines of one event loop that call the database    *)
(* and the broker without awaiting: handlers do not interleave with each   *)
(* other, but they do with the threads.  Archiving and deletion end in a   *)
(* thread; pausing and editing read a row and write it back whole.  How a  *)
(* position is bought and sold is the subject of PortfolioEntry and        *)
(* LiveExit: here each is one step.                                        *)
(***************************************************************************)
EXTENDS FiniteSets

CONSTANTS Configs, Accounts, Symbols,
          Registered,  \* accounts whose credentials the registry knows
          Links,       \* per config, the accounts (or None) it may be created with
          Threads,     \* background threads that can run at once (a bound)
          Edits,       \* may a handler be caught between its read and its write?
          Restarts,    \* may the process restart while threads run?
          None

VARIABLES
  conf,    \* the live_configs table; of a deleted row only the account is kept
  hold,    \* per config, the symbols of its holding watches
  pos,     \* per registered account, the positions: symbol, buyer and mark
  eval,    \* the evaluation of a signal: its symbol, configs still to do
  job,     \* per thread, the archiving or deletion it carries out
  dash,    \* the row a handler has read and will write
  broken   \* configs whose archiving a restart or a stale write broke off

vars == <<conf, hold, pos, eval, job, dash, broken>>

ArchiveStates == {"none", "archiving", "archived", "archive_failed"}

Rows == [life : {"new", "present", "deleted"}, active : BOOLEAN,
         paused : BOOLEAN, archive : ArchiveStates, account : Accounts \cup {None}]

NoRow  == [life |-> "new", active |-> FALSE, paused |-> FALSE,
           archive |-> "none", account |-> None]
NoEval == [pc |-> "idle", todo |-> {}, symbol |-> None, config |-> None]
NoJob  == [pc |-> "idle", kind |-> "archive", config |-> None, account |-> None]
NoDash == [pc |-> "idle", config |-> None, row |-> NoRow]

Present(c) == conf[c].life = "present"
Deleted(c) == [NoRow EXCEPT !.life = "deleted", !.account = conf[c].account]
(* What get_active_live_configs returns.                                   *)
Active(c)  == Present(c) /\ conf[c].active /\ conf[c].archive = "none"

Symbol(p) == p[1]
Buyer(p)  == p[2]
SymbolsIn(a) == {Symbol(p) : p \in pos[a]}

(* A position is new until a watch of its buyer stands for it; it is       *)
(* unsold when the exit of that watch was recorded without a fill.         *)
Marks == {"new", "tracked", "unsold"}

(* A config that no longer trades and that nobody will look after again.   *)
Gone(c) == \/ conf[c].life = "deleted"
           \/ Present(c) /\ conf[c].archive = "archived"

(* The positions, when the watches of config c become those of h.          *)
Remarked(c, h) ==
  LET mark(p) == IF Symbol(p) \in h THEN "tracked"
                 ELSE IF Symbol(p) \in hold[c] THEN "unsold" ELSE p[3]
  IN  [a \in Registered |->
        {IF Buyer(p) = c /\ ~Gone(c) THEN <<Symbol(p), c, mark(p)>> ELSE p : p \in pos[a]}]

Exits(c, gone) ==
  /\ hold' = [hold EXCEPT ![c] = @ \ gone]
  /\ pos' = Remarked(c, hold[c] \ gone)

Sold(a, s) == [pos EXCEPT ![a] = {p \in @ : Symbol(p) # s}]

TypeOK ==
  /\ conf \in [Configs -> Rows]
  /\ hold \in [Configs -> SUBSET Symbols]
  /\ pos \in [Registered -> SUBSET (Symbols \X Configs \X Marks)]
  /\ eval.pc \in {"idle", "next", "bought"} /\ eval.todo \subseteq Configs
  /\ eval.symbol \in Symbols \cup {None} /\ eval.config \in Configs \cup {None}
  /\ job \in [Threads -> [pc : {"idle", "start", "sell", "reconcile", "force", "finish"},
                          kind : {"archive", "delete"},
                          config : Configs \cup {None}, account : Accounts \cup {None}]]
  /\ dash \in [pc : {"idle", "write"}, config : Configs \cup {None}, row : Rows]
  /\ broken \subseteq Configs

Init ==
  /\ conf = [c \in Configs |-> NoRow]
  /\ hold = [c \in Configs |-> {}]
  /\ pos = [a \in Registered |-> {}]
  /\ eval = NoEval
  /\ job = [t \in Threads |-> NoJob]
  /\ dash = NoDash
  /\ broken = {}

-----------------------------------------------------------------------------
(* Handlers.  One at a time: none starts while another has read a row.     *)

Handler == dash.pc = "idle"

(* Links are checked against the configs that are active now; the account  *)
(* may be emptied (purge_existing), where each sale can fail.              *)
Create(c, a) ==
  /\ Handler /\ conf[c].life = "new" /\ a \in Links[c]
  /\ a # None => ~\E d \in Configs : Active(d) /\ conf[d].account = a
  /\ conf' = [conf EXCEPT ![c] = [NoRow EXCEPT !.life = "present", !.account = a]]
  /\ IF a \in Registered
       THEN \E kept \in SUBSET pos[a] : pos' = [pos EXCEPT ![a] = kept]
       ELSE pos' = pos
  /\ UNCHANGED <<hold, eval, job, dash, broken>>
(* Mutant: the archive state is not looked at.                             *)
ActivateAny(c) ==
  /\ Handler /\ Present(c)
  /\ conf' = [conf EXCEPT ![c].active = TRUE]
  /\ UNCHANGED <<hold, pos, eval, job, dash, broken>>

Activate(c) ==
  /\ Handler /\ Present(c) /\ conf[c].archive = "none"
  /\ conf' = [conf EXCEPT ![c].active = TRUE]
  /\ UNCHANGED <<hold, pos, eval, job, dash, broken>>

Deactivate(c) ==
  /\ Handler /\ Present(c)
  /\ conf' = [conf EXCEPT ![c].active = FALSE]
  /\ UNCHANGED <<hold, pos, eval, job, dash, broken>>

(* Pausing, or editing another field, reads the row and writes all of it.  *)
(* No page edits the account of a config that exists.                      *)
ReadRow(c) ==
  /\ Edits /\ Handler /\ Present(c)
  /\ \E p \in BOOLEAN :
       dash' = [pc |-> "write", config |-> c, row |-> [conf[c] EXCEPT !.paused = p]]
  /\ UNCHANGED <<conf, hold, pos, eval, job, broken>>

(* UPDATE ... WHERE config_id: a row deleted meanwhile stays deleted.      *)
UpdateConfig(c, row) ==
  conf' = IF Present(c) THEN [conf EXCEPT ![c] = row] ELSE conf

WriteRow ==
  /\ dash.pc = "write"
  /\ UpdateConfig(dash.config, dash.row)
  /\ broken' = IF Present(dash.config) /\ conf[dash.config].archive # dash.row.archive
                  /\ dash.row.archive = "archiving"
                 THEN broken \cup {dash.config} ELSE broken
  /\ dash' = NoDash
  /\ UNCHANGED <<hold, pos, eval, job>>

UpdateArchiveState(c, state) ==
  UpdateConfig(c, [conf[c] EXCEPT !.archive = state, !.active = FALSE])

Spawn(t, kind, c, first) ==
  job' = [job EXCEPT ![t] = [pc |-> first, kind |-> kind, config |-> c,
                             account |-> conf[c].account]]

ArchiveBegin(c, t) ==
  /\ Handler /\ Present(c) /\ job[t].pc = "idle"
  /\ conf[c].archive \in {"none", "archive_failed"}
  /\ UpdateArchiveState(c, "archiving")
  /\ Spawn(t, "archive", c, "start")
  /\ broken' = broken \ {c}
  /\ UNCHANGED <<hold, pos, eval, dash>>

(* An archived record without holdings is deleted and nothing else.        *)
DeleteArchived(c) ==
  /\ Handler /\ Present(c) /\ conf[c].archive = "archived" /\ ~conf[c].active
  /\ hold[c] = {}
  /\ conf' = [conf EXCEPT ![c] = Deleted(c)]
  /\ UNCHANGED <<hold, pos, eval, job, dash, broken>>

ArchivedRecord(c) == conf[c].archive = "archived" /\ ~conf[c].active /\ hold[c] = {}

Shared(c) == \E d \in Configs \ {c} : Active(d) /\ conf[d].account = conf[c].account

(* An account the registry does not know: watches are exited by hand.      *)
DeleteStale(c) ==
  /\ Handler /\ Present(c) /\ ~ArchivedRecord(c)
  /\ conf[c].account \in Accounts \ Registered /\ ~Shared(c)
  /\ conf' = [conf EXCEPT ![c] = Deleted(c)]
  /\ hold' = [hold EXCEPT ![c] = {}]
  /\ UNCHANGED <<pos, eval, job, dash, broken>>

(* Sell orders are submitted; a thread waits for their fills (the thread's *)
(* first step), reconciles and deletes the config.                         *)
DeleteLinked(c, t) ==
  /\ Handler /\ Present(c) /\ ~ArchivedRecord(c) /\ job[t].pc = "idle"
  /\ conf[c].account \in Registered /\ ~Shared(c)
  /\ conf' = [conf EXCEPT ![c].active = FALSE]
  /\ Spawn(t, "delete", c, "sell")
  /\ UNCHANGED <<hold, pos, eval, dash, broken>>

DeleteUnlinked(c) ==
  /\ Handler /\ Present(c) /\ ~ArchivedRecord(c)
  /\ conf[c].account = None /\ hold[c] = {}
  /\ conf' = [conf EXCEPT ![c] = Deleted(c)]
  /\ UNCHANGED <<hold, pos, eval, job, dash, broken>>

(* reconcile makes the config's watches those of the account's positions,  *)
(* with two exceptions.  It leaves some symbols as they are: while the exit*)
(* of a watch is in flight or a buy is open, and where no sale is found in *)
(* the history or an adoption fails.  And it misses some positions: where  *)
(* both look-ups fail and the history has the sale of an earlier one.      *)
Reconciled(c, a) ==
  \E left, missed \in SUBSET Symbols :
    LET h == (hold[c] \cap left) \cup (SymbolsIn(a) \ (left \cup missed)) IN
    /\ hold' = [hold EXCEPT ![c] = h]
    /\ pos' = Remarked(c, h)

(* The sync button works for every linked config, whatever its state.      *)
Sync(c) ==
  /\ Handler /\ Present(c) /\ conf[c].account \in Registered
  /\ Reconciled(c, conf[c].account)
  /\ UNCHANGED <<conf, eval, job, dash, broken>>

(* The user exits a watch: its position is not sold.                       *)
ForceExitWatch(c, s) ==
  /\ Handler /\ s \in hold[c]
  /\ Exits(c, {s})
  /\ UNCHANGED <<conf, eval, job, dash, broken>>

-----------------------------------------------------------------------------
(* The background thread of an archiving or of a deletion.                 *)

Step(t, pc) == job' = [job EXCEPT ![t].pc = pc]
Finish(t)   == job' = [job EXCEPT ![t] = NoJob]

(* The thread reads the row again; what it then works with is that row.    *)
ArchiveStart(t) ==
  /\ job[t].pc = "start"
  /\ LET c == job[t].config IN
     IF ~Present(c) \/ conf[c].archive # "archiving"
       THEN Finish(t)
       ELSE job' = [job EXCEPT ![t].account = conf[c].account,
                               ![t].pc = IF conf[c].account \in Registered
                                           THEN "sell" ELSE "force"]
  /\ UNCHANGED <<conf, hold, pos, eval, dash, broken>>

(* Every position of the account is closed, whoever bought it; each close  *)
(* may fail on its own.                                                    *)
ClosePositions(t) ==
  /\ job[t].pc = "sell"
  /\ \E kept \in SUBSET pos[job[t].account] :
       pos' = [pos EXCEPT ![job[t].account] = kept]
  /\ Step(t, "reconcile")
  /\ UNCHANGED <<conf, hold, eval, dash, broken>>
(* Mutant: the reconciliation is left to the monitor.                      *)
ThreadReconcileLater(t) ==
  /\ job[t].pc = "reconcile"
  /\ hold' = [hold EXCEPT ![job[t].config] = {}]
  /\ Step(t, IF job[t].kind = "archive" THEN "force" ELSE "finish")
  /\ UNCHANGED <<conf, pos, eval, dash, broken>>

ThreadReconcile(t) ==
  /\ job[t].pc = "reconcile"
  /\ Reconciled(job[t].config, job[t].account)
  /\ Step(t, IF job[t].kind = "archive" THEN "force" ELSE "finish")
  /\ UNCHANGED <<conf, eval, dash, broken>>

(* An exception on the way: archiving fails; a deletion is given up when   *)
(* the positions cannot be read, and goes on without a reconciliation.     *)
ThreadFails(t) ==
  /\ job[t].pc \in {"sell", "reconcile"}
  /\ IF job[t].kind = "archive"
       THEN /\ UpdateArchiveState(job[t].config, "archive_failed")
            /\ Finish(t)
       ELSE /\ IF job[t].pc = "sell" THEN Finish(t) ELSE Step(t, "finish")
            /\ UNCHANGED conf
  /\ UNCHANGED <<hold, pos, eval, dash, broken>>

(* Watches without a position are exited by hand, and so are those whose   *)
(* position cannot be looked up: get_position answers None to an error too.*)
(* Of a config without an account all are.                                 *)
ForceExit(t) ==
  /\ job[t].pc = "force"
  /\ LET c == job[t].config  a == job[t].account IN
     IF a \in Registered
       THEN \E missed \in SUBSET Symbols : Exits(c, Symbols \ (SymbolsIn(a) \ missed))
       ELSE Exits(c, Symbols)
  /\ Step(t, "finish")
  /\ UNCHANGED <<conf, eval, dash, broken>>
(* Mutant: the thread ends without a result.                               *)
ArchiveFinishIfEmpty(t) ==
  /\ job[t].pc = "finish" /\ job[t].kind = "archive"
  /\ LET c == job[t].config IN
     IF hold[c] = {} THEN UpdateArchiveState(c, "archived") ELSE UNCHANGED conf
  /\ Finish(t)
  /\ UNCHANGED <<hold, pos, eval, dash, broken>>

ArchiveFinish(t) ==
  /\ job[t].pc = "finish" /\ job[t].kind = "archive"
  /\ LET c == job[t].config IN
     UpdateArchiveState(c, IF hold[c] = {} THEN "archived" ELSE "archive_failed")
  /\ Finish(t)
  /\ UNCHANGED <<hold, pos, eval, dash, broken>>

DeleteFinish(t) ==
  /\ job[t].pc = "finish" /\ job[t].kind = "delete"
  /\ LET c == job[t].config IN
     conf' = IF hold[c] = {} /\ Present(c)
               THEN [conf EXCEPT ![c] = Deleted(c)] ELSE conf
  /\ Finish(t)
  /\ UNCHANGED <<hold, pos, eval, dash, broken>>

-----------------------------------------------------------------------------
(* The trading side.                                                       *)

(* evaluate_snapshot reads the active configs once, then goes through them.*)
EvalBegin(s) ==
  /\ eval.pc = "idle"
  /\ eval' = [NoEval EXCEPT !.pc = "next", !.symbol = s,
                !.todo = {c \in Configs : Active(c) /\ ~conf[c].paused}]
  /\ eval'.todo # {}
  /\ UNCHANGED <<conf, hold, pos, job, dash, broken>>

Done(c) == IF eval.todo = {c} THEN NoEval
           ELSE [eval EXCEPT !.pc = "next", !.todo = @ \ {c}, !.config = None]

(* The config is the row read at the start, the watches are read now.      *)
EvalSkip(c) ==
  /\ eval.pc = "next" /\ c \in eval.todo
  /\ eval' = Done(c)
  /\ UNCHANGED <<conf, hold, pos, job, dash, broken>>

EvalBuy(c) ==
  /\ eval.pc = "next" /\ c \in eval.todo
  /\ eval.symbol \notin hold[c]
  /\ LET a == conf[c].account IN
     IF a \in Registered
       THEN /\ eval.symbol \notin SymbolsIn(a)
            /\ pos' = [pos EXCEPT ![a] = @ \cup {<<eval.symbol, c, "new">>}]
       ELSE pos' = pos
  /\ eval' = [eval EXCEPT !.pc = "bought", !.config = c]
  /\ UNCHANGED <<conf, hold, job, dash, broken>>

EvalInsert ==
  /\ eval.pc = "bought"
  /\ LET c == eval.config IN
     /\ hold' = [hold EXCEPT ![c] = @ \cup {eval.symbol}]
     /\ pos' = Remarked(c, hold[c] \cup {eval.symbol})
     /\ eval' = Done(c)
  /\ UNCHANGED <<conf, job, dash, broken>>

(* The monitor sells for configs whose column says active, and reconciles  *)
(* those without an archive state.  It records the exit also when the sale *)
(* fails or is not confirmed in time.                                      *)
MonitorExit(c, s) ==
  /\ Present(c) /\ conf[c].active /\ s \in hold[c]
  /\ \/ Exits(c, {s})
     \/ /\ conf[c].account \in Registered
        /\ hold' = [hold EXCEPT ![c] = @ \ {s}]
        /\ pos' = Sold(conf[c].account, s)
  /\ UNCHANGED <<conf, eval, job, dash, broken>>

(* A stop order fills, or a sale that timed out, or one made by hand; the  *)
(* stream exits a watch, or the event is lost.                             *)
SellFills(a, s) ==
  /\ s \in SymbolsIn(a)
  /\ pos' = Sold(a, s)
  /\ \/ UNCHANGED hold
     \/ \E c \in Configs : conf[c].account = a /\ hold' = [hold EXCEPT ![c] = @ \ {s}]
  /\ UNCHANGED <<conf, eval, job, dash, broken>>

PeriodicReconcile(c) ==
  /\ Active(c) /\ conf[c].account \in Registered
  /\ Reconciled(c, conf[c].account)
  /\ UNCHANGED <<conf, eval, job, dash, broken>>

(* Nothing resumes an archiving when the process starts again.             *)
Restart ==
  /\ Restarts
  /\ \E t \in Threads : job[t].pc # "idle"
  /\ broken' = broken \cup {c \in Configs : Present(c) /\ conf[c].archive = "archiving"}
  /\ job' = [t \in Threads |-> NoJob]
  /\ eval' = NoEval
  /\ dash' = NoDash
  /\ UNCHANGED <<conf, hold, pos>>

-----------------------------------------------------------------------------
ThreadStep(t) ==
  \/ ArchiveStart(t)
  \/ ClosePositions(t)
  \/ ThreadReconcile(t)
  \/ ThreadFails(t)
  \/ ForceExit(t)
  \/ ArchiveFinish(t)
  \/ DeleteFinish(t)

Next ==
  \/ \E c \in Configs, a \in Accounts \cup {None} : Create(c, a)
  \/ \E c \in Configs : \/ Activate(c)
                        \/ Deactivate(c)
                        \/ ReadRow(c)
                        \/ DeleteArchived(c)
                        \/ DeleteStale(c)
                        \/ DeleteUnlinked(c)
                        \/ Sync(c)
                        \/ EvalSkip(c)
                        \/ EvalBuy(c)
                        \/ PeriodicReconcile(c)
  \/ \E c \in Configs, t \in Threads : ArchiveBegin(c, t) \/ DeleteLinked(c, t)
  \/ \E c \in Configs, s \in Symbols : MonitorExit(c, s) \/ ForceExitWatch(c, s)
  \/ \E a \in Registered, s \in Symbols : SellFills(a, s)
  \/ \E s \in Symbols : EvalBegin(s)
  \/ \E t \in Threads : ThreadStep(t)
  \/ WriteRow
  \/ EvalInsert
  \/ Restart

Spec == Init /\ [][Next]_vars

(* A started thread goes on, and a handler that has read ends.             *)
Fairness == /\ \A t \in Threads : WF_vars(ThreadStep(t))
            /\ WF_vars(WriteRow)

FairSpec == Spec /\ Fairness

-----------------------------------------------------------------------------
(* No config is archived or deleted while a watch of it stands for a       *)
(* position that is not sold, whoever else shares the account and whichever*)
(* sale fails.  What a config can leave behind is a purchase that was under*)
(* way, and a position whose watch was exited without a fill: by the       *)
(* monitor, by the user, or because the position could not be looked up.   *)
SoldBeforeGone ==
  \A c \in Configs, a \in Registered :
    Gone(c) => \A p \in pos[a] : Buyer(p) = c => p[3] # "tracked"

(* Claimed where an archived config is deleted for good: its account is    *)
(* flat, of what the config bought at least.                               *)
ArchivedIsFlat ==
  \A c \in Configs, a \in Registered :
    (Present(c) /\ conf[c].archive = "archived") => \A p \in pos[a] : Buyer(p) # c

(* Once its archiving has begun, no click, thread or stale row makes a     *)
(* config active again.                                                    *)
NeverRevived ==
  [][\A c \in Configs : (Present(c) /\ conf[c].archive # "none") => ~conf'[c].active]_vars

(* An archiving comes to an end, archived or failed, unless a restart or   *)
(* a row written back stale breaks it off.                                 *)
ArchivingEnds ==
  \A c \in Configs :
    (Present(c) /\ conf[c].archive = "archiving")
      ~> (conf[c].archive # "archiving" \/ ~Present(c) \/ c \in broken)

(* Claimed where a config is created: an account is linked to one active   *)
(* config at most.                                                         *)
OneConfigPerAccount ==
  \A c, d \in Configs :
    (Active(c) /\ Active(d) /\ conf[c].account = conf[d].account
      /\ conf[c].account # None) => c = d
=============================================================================
