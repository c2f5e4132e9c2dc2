----------------------------- MODULE MCLiveExit -----------------------------
(* Instances of LiveExit for TLC; the configurations give the constants.   *)
EXTENDS LiveExitLifecycle

ASSUME JumpsAreStale == Jumps \subseteq StaleJumps
=============================================================================
