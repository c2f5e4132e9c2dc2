--------------------------- MODULE WatchLifecycle ---------------------------
(***************************************************************************)
(* What a watch promises: it is inserted holding and goes through exited   *)
(* and cooling_off to sealed, where it stays (trader/models/watch.py).     *)
(* Jumps names the steps off that line that the threads' stale writes can  *)
(* make; none of them touches a watch that is absent or sealed.            *)
(***************************************************************************)
CONSTANTS WatchIds,
          Jumps  \* pairs of states <<from, to>>

VARIABLE status

States == {"absent", "holding", "exited", "cooling_off", "sealed"}

LiveStates == States \ {"absent", "sealed"}

Forward == {<<"absent", "holding">>, <<"holding", "exited">>,
            <<"exited", "cooling_off">>, <<"cooling_off", "sealed">>}

Init == status \in [WatchIds -> {"absent", "holding"}]

Move(w, to) ==
  /\ <<status[w], to>> \in Forward \cup (Jumps \cap (LiveStates \X LiveStates))
  /\ status' = [status EXCEPT ![w] = to]

Next == \E w \in WatchIds, to \in States : Move(w, to)

Spec == Init /\ [][Next]_status

(* A watch that was exited is cooled off and sealed.                       *)
Settle(w) ==
  \/ status[w] = "exited" /\ Move(w, "cooling_off")
  \/ Move(w, "sealed")

FairSpec == Spec /\ \A w \in WatchIds : WF_status(Settle(w))
=============================================================================
