------------------------------ MODULE Workers ------------------------------
(***************************************************************************)
(* A run in several worker processes: each takes a test, asks the breaker  *)
(* whether it may touch the environment (gate/pytest_plugin.py), claims an *)
(* entity for it (Allocation), sends its calls (Resend), and records what  *)
(* was answered (Breaker).  A worker may die at any step, and is replaced. *)
(***************************************************************************)
EXTENDS Sequences, Allocation, Breaker, Resend

VARIABLES
  at,      \* the test each worker is at
  waiting  \* the tests that no worker has begun

vars == << allocationVars, breakerVars, call, at, waiting >>

TypeOK ==
  /\ AllocationTypeOK /\ BreakerTypeOK /\ ResendTypeOK
  /\ at \in [Workers -> Tests \cup {NoTest}]
  /\ waiting \subseteq Tests

Init ==
  /\ AllocationInit /\ BreakerInit /\ ResendInit
  /\ at = [w \in Workers |-> NoTest]
  /\ waiting = Tests

-----------------------------------------------------------------------------
Free(w) == at[w] = NoTest /\ AtRest(w)

\* pytest_runtest_setup: once the breaker has tripped, for whichever worker, the test is
\* skipped; the worker keeps the reason.
Skip(w, t) ==
  /\ Free(w) /\ t \in waiting
  /\ KeepReason(w)
  /\ waiting' = waiting \ {t}
  /\ UNCHANGED << allocationVars, call, at >>

Begin(w, t) ==
  /\ Free(w) /\ t \in waiting /\ Unstopped(w)
  /\ Pick(w, t)
  /\ waiting' = waiting \ {t}
  /\ at' = [at EXCEPT ![w] = t]
  /\ UNCHANGED << breakerVars, call >>

Acquire(w) == AllocationStep(w) /\ UNCHANGED << breakerVars, call, at, waiting >>

\* A test with its entity calls the environment, one call after the other.
Ready(w) == picking[w].phase = "done" /\ picking[w].got # NoEntity /\ AtRest(w)

Calls(w, m) ==
  /\ Ready(w) /\ Request(w, m)
  /\ UNCHANGED << allocationVars, breakerVars, at, waiting >>

Travels(w) ==
  /\ GatewayError(w) \/ Answered(w) \/ FetchFails(w) \/ Resume(w)
  /\ UNCHANGED << allocationVars, breakerVars, at, waiting >>

\* The call is over; the answer the page was given is recorded.
Returns(w) ==
  /\ Over(w)
  /\ IF call[w].phase = "deliver" THEN \E answer \in Answers : Record(w, answer)
                                  ELSE UNCHANGED breakerVars
  /\ UNCHANGED << allocationVars, at, waiting >>

Shares(w) ==
  /\ Share(w)
  /\ UNCHANGED << allocationVars, call, at, waiting >>

\* The test is over: refused an entity, or done with its calls.
End(w) ==
  /\ at[w] # NoTest /\ picking[w].phase = "done" /\ call[w].phase = "none" /\ AtRest(w)
  /\ Leave(w)
  /\ at' = [at EXCEPT ![w] = NoTest]
  /\ UNCHANGED << breakerVars, call, waiting >>

\* The worker dies, and its test with it.
Die(w) ==
  /\ Restart(w) /\ Leave(w) /\ Drop(w)
  /\ at' = [at EXCEPT ![w] = NoTest]
  /\ UNCHANGED waiting

Next ==
  \E w \in Workers :
    \/ \E t \in Tests : Skip(w, t) \/ Begin(w, t)
    \/ Acquire(w)
    \/ \E m \in Methods : Calls(w, m)
    \/ Travels(w) \/ Returns(w) \/ Shares(w) \/ End(w) \/ Die(w)

Spec == Init /\ [][Next]_vars
=============================================================================
