--------------------------- MODULE MCIdempotency ---------------------------
(***************************************************************************)
(* Idempotency on small instances: the calls, their keys and routes.       *)
(***************************************************************************)
EXTENDS Idempotency, TLC

CONSTANTS push, attach, verdicts, k1

\* append_results without a key, and the evidence and the verdicts of a run, pushed with one.
SharedKeys == push :> NoKey @@ attach :> k1 @@ verdicts :> k1
SharedRoutes == push :> "results" @@ attach :> "evidence" @@ verdicts :> "verdicts"
=============================================================================
