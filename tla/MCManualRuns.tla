---------------------------- MODULE MCManualRuns ----------------------------
(***************************************************************************)
(* ManualRuns on small instances.  Pushes is what other clients append to  *)
(* a manual run; with nothing pushed the testers have it to themselves.    *)
(***************************************************************************)
EXTENDS ManualRuns, TLC

CONSTANTS c1, c2

\* What an automated client pushes under the key of a case, with its coverage.
Pushes == { << c1, 1 >> :> ResultOf("passed") }
PushedCoverage == { Coverage(c1, "proved") }

CoverageRows == { Coverage(c, v) : c \in Cases, v \in {"proved", "recorded"} }
=============================================================================
