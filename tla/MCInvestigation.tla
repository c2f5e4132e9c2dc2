--------------------------- MODULE MCInvestigation ---------------------------
(* Instances of Investigation for TLC: a worker x1 serves the queue, and   *)
(* the dashboard starts a thread d1 for a manual exploration m1.           *)
EXTENDS Investigation, TLC

CONSTANTS x1, d1, q1, q2, m1, A, B

(* q1 is about both symbols, q2 about B; the headline m1 names A.          *)
News == (q1 :> {A, B}) @@ (q2 :> {B}) @@ (m1 :> {A})

(* Triage may leave out a symbol of q1.                                    *)
Named == (q1 :> {{A}, {A, B}}) @@ (q2 :> {{B}}) @@ (m1 :> {{A}})

QueueAndDashboard == (x1 :> {q1, q2}) @@ (d1 :> {m1})

(* The file of q1 is backfilled after it was processed, or comes again; a  *)
(* manual exploration has an id of its own.                                *)
RunsTwice == (q1 :> 2) @@ (q2 :> 1) @@ (m1 :> 1)

QueueOnly == x1 :> {q1, q2}
=============================================================================
