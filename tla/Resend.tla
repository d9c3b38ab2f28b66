------------------------------- MODULE Resend -------------------------------
(***************************************************************************)
(* The calls of a browser test through the retrying route handler          *)
(* (core/browser_resilience.py) under the policy of gate/http_retry.py, as *)
(* conftest.py installs it.  Each worker makes one call at a time.         *)
(***************************************************************************)
EXTENDS WorkerPool, Naturals

CONSTANT MaxRetries \* max_retries

ASSUME ResendAssumption == MaxRetries \in Nat

VARIABLE call \* the call of each worker

\* A read, a write that carries a version (the server refuses its duplicate), another write.
Methods == {"GET", "versioned", "POST"}
CallPhases == {"none", "fetch", "resumed", "aborted", "deliver"}

\* sent: how often it left the browser; answered: how often a gateway error came back for it.
Call(method) == [phase |-> "fetch", method |-> method, sent |-> 0, answered |-> 0]
NoCall == [Call("GET") EXCEPT !.phase = "none"]

ResendTypeOK ==
  call \in [Workers -> [phase : CallPhases, method : Methods, sent : Nat, answered : Nat]]

ResendInit == call = [c \in Workers |-> NoCall]

\* safe_to_repeat, which protects comes down to.  (FaultyRepeatable retries every call.)
FaultyRepeatable(method) == TRUE
Repeatable(method) == method \in {"GET", "versioned"}
Protected(method) == MaxRetries > 0 /\ Repeatable(method)

\* decide.
Retries(c) == Protected(call[c].method) /\ call[c].answered < MaxRetries

-----------------------------------------------------------------------------
Request(c, method) ==
  /\ call[c].phase = "none"
  /\ call' = [call EXCEPT ![c] = Call(method)]

\* What a call is after it went out once more, with as many gateway errors.
Sent(c, next, errors) ==
  [phase |-> next, method |-> call[c].method,
   sent |-> call[c].sent + 1, answered |-> call[c].answered + errors]

\* fetch, answered by a gateway: again while the policy says so, and the last answer is
\* delivered.
GatewayError(c) ==
  /\ call[c].phase = "fetch"
  /\ call' = [call EXCEPT ![c] = Sent(c, IF Retries(c) THEN "fetch" ELSE "deliver", 1)]

\* fetch, answered by the server, also with a 500.
Answered(c) ==
  /\ call[c].phase = "fetch"
  /\ call' = [call EXCEPT ![c] = Sent(c, "deliver", 0)]

\* fetch fails, after it may have reached the server.  The first time a read is resumed, a
\* write is aborted and a call the handler leaves alone is lost; later the last answer is
\* delivered.
Resumes(c) == call[c].answered = 0 /\ Protected(call[c].method) /\ call[c].method = "GET"

FetchFails(c) ==
  /\ call[c].phase = "fetch"
  /\ call' = [call EXCEPT ![c] =
       Sent(c, IF Resumes(c) THEN "resumed"
               ELSE IF call[c].answered = 0 THEN "aborted" ELSE "deliver", 0)]

\* A resumed read goes out once more, untouched.
Resume(c) ==
  /\ call[c].phase = "resumed"
  /\ call' = [call EXCEPT ![c] = Sent(c, "deliver", 0)]

\* fulfill hands the page the answer; if that fails, the call is aborted: over, either way.
Over(c) ==
  /\ call[c].phase \in {"deliver", "aborted"}
  /\ call' = [call EXCEPT ![c] = NoCall]

\* Its worker dies.
Drop(c) == call' = [call EXCEPT ![c] = NoCall]

ResendNext ==
  \E c \in Workers :
    \/ \E m \in Methods : Request(c, m)
    \/ GatewayError(c) \/ Answered(c) \/ FetchFails(c) \/ Resume(c) \/ Over(c) \/ Drop(c)

ResendSpec == ResendInit /\ [][ResendNext]_call

-----------------------------------------------------------------------------
\* "Every other write is sent once" (http_retry.py:16-17), and a write the server deduplicates
\* is sent again only on a gateway's answer, never because its fetch failed, which may have
\* been after it arrived.
WritesSentOnce ==
  \A c \in Workers :
    call[c].phase # "none" /\ call[c].method # "GET" =>
      /\ call[c].sent <= call[c].answered + 1
      /\ call[c].method = "POST" => call[c].sent <= 1
=============================================================================
