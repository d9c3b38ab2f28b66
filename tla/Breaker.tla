------------------------------- MODULE Breaker -------------------------------
(***************************************************************************)
(* The circuit breaker of a test run (gate/circuit_breaker.py): the first  *)
(* server error of the environment opens it in the worker that met it and, *)
(* through a file, in every other worker.                                  *)
(*                                                                         *)
(* A reason is named by the worker it came from.  Hosts, declared          *)
(* exemptions and injected faults decide what an answer is, see Answers; a *)
(* worker is one thread, so that an exemption is one of its calls.         *)
(***************************************************************************)
EXTENDS WorkerPool, Naturals

CONSTANTS
  UpstreamLimit, \* the timeouts of a third party a worker lets pass
  MaxTimeouts,   \* a bound: the timeouts of a third party a worker meets
  NoReason       \* of a breaker that is closed

ASSUME BreakerAssumption ==
  /\ UpstreamLimit \in Nat /\ MaxTimeouts \in Nat
  /\ NoReason \notin Workers /\ "absent" \notin Workers /\ "empty" \notin Workers

VARIABLES
  tripped,  \* _tripped of each worker
  seen,     \* _upstream_seen of each worker
  sharing,  \* how far its _trip is: "no", "create" or "write"
  tripFile, \* what the file holds: "absent", "empty" or a reason
  unshared, \* auxiliary: the workers whose _trip could not create or write the file
  torn      \* auxiliary: a worker left the file empty; it died before it wrote, or could not

breakerVars == << tripped, seen, sharing, tripFile, unshared, torn >>

BreakerTypeOK ==
  /\ tripped \in [Workers -> Workers \cup {NoReason}]
  /\ seen \in [Workers -> Nat]
  /\ sharing \in [Workers -> {"no", "create", "write"}]
  /\ tripFile \in {"absent", "empty"} \cup Workers
  /\ unshared \subseteq Workers /\ torn \in BOOLEAN

BreakerInit ==
  /\ tripped = [w \in Workers |-> NoReason]
  /\ seen = [w \in Workers |-> 0]
  /\ sharing = [w \in Workers |-> "no"]
  /\ tripFile = "absent"
  /\ unshared = {} /\ torn = FALSE

\* What record tells apart: nothing to count (no server error, another host, injected, or
\* declared as expected), a third party behind the environment, and the environment itself.
Answers == {"harmless", "upstream", "error"}

-----------------------------------------------------------------------------
\* _trip: once.
Trip(w) ==
  IF tripped[w] # NoReason THEN UNCHANGED << tripped, sharing >>
  ELSE /\ tripped' = [tripped EXCEPT ![w] = w]
       /\ sharing' = [sharing EXCEPT ![w] = "create"]

\* record.
Record(w, answer) ==
  /\ answer = "upstream" => seen[w] < MaxTimeouts
  /\ seen' = IF answer = "upstream" THEN [seen EXCEPT ![w] = @ + 1] ELSE seen
  /\ IF answer = "error" \/ (answer = "upstream" /\ seen[w] >= UpstreamLimit)
     THEN Trip(w) ELSE UNCHANGED << tripped, sharing >>
  /\ UNCHANGED << tripFile, unshared, torn >>

\* The file is created by the first; for the others it is there, whatever it holds, and their
\* trip counts as shared.
CreateFile(w) ==
  /\ sharing[w] = "create"
  /\ tripFile' = IF tripFile = "absent" THEN "empty" ELSE tripFile
  /\ sharing' = [sharing EXCEPT ![w] = IF tripFile = "absent" THEN "write" ELSE "no"]
  /\ UNCHANGED << tripped, seen, unshared, torn >>

WriteFile(w) ==
  /\ sharing[w] = "write"
  /\ tripFile' = w
  /\ sharing' = [sharing EXCEPT ![w] = "no"]
  /\ UNCHANGED << tripped, seen, unshared, torn >>

\* An OSError is only logged, and the trip is not shared: the directory or the file cannot be
\* made, ...
CreateFails(w) ==
  /\ sharing[w] = "create"
  /\ sharing' = [sharing EXCEPT ![w] = "no"]
  /\ unshared' = unshared \cup {w}
  /\ UNCHANGED << tripped, seen, tripFile, torn >>

\* ... or the file is there, and the reason cannot be written to it, or not all of it.
WriteFails(w) ==
  /\ sharing[w] = "write"
  /\ tripFile' \in {"empty", w}
  /\ torn' = (tripFile' = "empty")
  /\ sharing' = [sharing EXCEPT ![w] = "no"]
  /\ unshared' = unshared \cup {w}
  /\ UNCHANGED << tripped, seen >>

\* What is left of _trip once the reason is set.
Share(w) == CreateFile(w) \/ WriteFile(w) \/ CreateFails(w) \/ WriteFails(w)

\* tripped_reason, of a file that can be read: its own, or the one in the file.  (FaultyReason
\* never looks at the file.)
FaultyReason(w) == tripped[w]
Reason(w) ==
  IF tripped[w] # NoReason THEN tripped[w]
  ELSE IF tripFile \in Workers THEN tripFile ELSE NoReason

\* Found in the file, it is kept.
KeepReason(w) ==
  /\ Reason(w) # NoReason
  /\ tripped' = [tripped EXCEPT ![w] = Reason(w)]
  /\ UNCHANGED << seen, sharing, tripFile, unshared, torn >>

\* The breaker lets a test begin.  A file that cannot be read (OSError) is taken for none, so
\* that only a reason the worker has itself is sure to stop it.
Unstopped(w) == tripped[w] = NoReason

\* A worker dies, and a new one takes its place.
Restart(w) ==
  /\ tripped' = [tripped EXCEPT ![w] = NoReason]
  /\ seen' = [seen EXCEPT ![w] = 0]
  /\ sharing' = [sharing EXCEPT ![w] = "no"]
  /\ unshared' = unshared \ {w}
  /\ torn' = (torn \/ sharing[w] = "write")
  /\ UNCHANGED tripFile

\* Between two tests nothing is left to do of a call that answered.
AtRest(w) == sharing[w] = "no"

BreakerNext ==
  \E w \in Workers :
    \/ \E answer \in Answers : Record(w, answer)
    \/ Share(w) \/ KeepReason(w) \/ Restart(w)

BreakerSpec == BreakerInit /\ [][BreakerNext]_breakerVars

-----------------------------------------------------------------------------
\* "A trip in one worker is written to disk and every other worker sees it before its next
\* test" (circuit_breaker.py:22-24), as far as the code goes: once a worker has done with
\* recording a trip, every worker that can read the file has a reason to skip, unless another
\* is just writing the reason, or one left the file empty, which every later trip then takes
\* for shared (:242), or this worker could not make a file, which is only logged (:244).
TripIsShared ==
  \A w \in Workers :
    tripped[w] # NoReason /\ AtRest(w) =>
      \/ \A v \in Workers : Reason(v) # NoReason
      \/ \E v \in Workers : sharing[v] = "write"
      \/ torn
      \/ tripFile = "absent" /\ w \in unshared

=============================================================================
