------------------------- MODULE LiveExitLifecycle -------------------------
(***************************************************************************)
(* LiveExit implements WatchLifecycle: the status of the rows, seen alone, *)
(* moves as the lifecycle of a watch does, but for what stale writes undo. *)
(***************************************************************************)
EXTENDS LiveExit

CONSTANT Jumps

Lifecycle == INSTANCE WatchLifecycle WITH status <- [w \in WatchIds |-> row[w].status]

(* What a row written back by a thread that read it too early can undo: an *)
(* exit, the start of cooling off or, by the stream, a seller's reopening. *)
StaleJumps == {<<"exited", "holding">>, <<"cooling_off", "holding">>,
               <<"cooling_off", "exited">>, <<"holding", "cooling_off">>}

(* Without workers and late buy fills the monitor's own writes remain, and *)
(* a stream that writes an exit twice.                                     *)
MonitorJumps == {<<"exited", "holding">>, <<"cooling_off", "exited">>}

(* No interleaving takes a status where the lifecycle does not: a watch is *)
(* never sealed but from cooling off, nor sealed and alive again.          *)
LifecycleSpec == Lifecycle!Spec

(* And a watch that stays exited, or cooling off, goes on to the next.     *)
LifecycleFairSpec == Lifecycle!FairSpec
=============================================================================
