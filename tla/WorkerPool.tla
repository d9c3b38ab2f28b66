----------------------------- MODULE WorkerPool -----------------------------
(***************************************************************************)
(* The worker processes of a test run (pytest-xdist starts one for each    *)
(* core; a single process is a pool of one).                               *)
(***************************************************************************)
CONSTANT Workers
=============================================================================
