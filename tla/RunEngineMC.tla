----------------------------- MODULE RunEngineMC -----------------------------
(* The routes of agents/routes that the runs instantiate. *)
EXTENDS RunEngine, Sequences

\* launch-readiness without its optional steps: one node waits for a slot.
LaunchOrder == <<"coordinate", "launch-evidence", "product-readiness",
                 "measurement-readiness", "launch-package", "governance-final">>

LaunchDeps ==
  [n \in {LaunchOrder[i] : i \in 1..6} |->
     CASE n = "coordinate" -> {}
       [] n \in {"launch-evidence", "product-readiness", "measurement-readiness"}
            -> {"coordinate"}
       [] n = "launch-package"
            -> {"launch-evidence", "product-readiness", "measurement-readiness"}
       [] n = "governance-final" -> {"launch-package"}]

LaunchNodes == DOMAIN LaunchDeps

LaunchPlace == [n \in LaunchNodes |-> CHOOSE i \in 1..6 : LaunchOrder[i] = n]
=============================================================================
