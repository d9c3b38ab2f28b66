----------------------------- MODULE Idempotency -----------------------------
(***************************************************************************)
(* Writes that are sent again: the retries of PlatformClient.request       *)
(* (qaplatform/client.py), and Idempotency-Key on the server               *)
(* (PlatformService.idempotent, qaplatform/service.py, under handle in     *)
(* qaplatform/http/routes.py).                                             *)
(*                                                                         *)
(* The client sends a call again when it has no answer in time, when the   *)
(* connection breaks, or when a gateway answers for the server.  A copy    *)
(* sent before may still arrive, and a reply may get lost.  There is one   *)
(* server process, which takes one request at a time (qaplatform/http/     *)
(* app.py calls the synchronous handle inside its event loop).  It may be  *)
(* gone between any two of its transactions, of which a call with a key    *)
(* makes three: the lookup, the call, and the storing of the response.     *)
(*                                                                         *)
(* A definition named Faulty... is what a mistake in the code would make   *)
(* of the one below it; no action uses it.                                 *)
(***************************************************************************)
EXTENDS Naturals, FiniteSets

CONSTANTS
  Calls,       \* what clients want done, each once
  Keys, NoKey,
  KeyOf,       \* the Idempotency-Key of a call, or NoKey
  RouteOf,     \* its route: method and path template, without the run id in the path
  MaxSends,    \* 1 + the retries of the client
  MaxCrashes,  \* a bound
  NoCall, NoRoute

ASSUME IdempotencyAssumption ==
  /\ KeyOf \in [Calls -> Keys \cup {NoKey}] /\ NoKey \notin Keys
  /\ NoCall \notin Calls
  /\ \A c \in Calls : RouteOf[c] # NoRoute
  /\ MaxSends \in Nat \ {0} /\ MaxCrashes \in Nat

VARIABLES
  client,    \* where the client is with each call
  sends,     \* how often it has sent it
  inflight,  \* the copies on their way: call and number of the sending
  serving,   \* the copy the server works on
  phase,     \* and how far it is
  stored,    \* qap_idempotency_keys: the route each key was first used on
  effects,   \* how often each call was carried out
  crashes

vars == << client, sends, inflight, serving, phase, stored, effects, crashes >>

ClientStatus == {"idle", "waiting", "backoff", "answered", "refused", "gaveup"}
NoCopy == << NoCall, 0 >>

TypeOK ==
  /\ client \in [Calls -> ClientStatus]
  /\ sends \in [Calls -> 0 .. MaxSends]
  /\ inflight \subseteq Calls \X (1 .. MaxSends)
  /\ serving \in (Calls \X (1 .. MaxSends)) \cup {NoCopy}
  /\ phase \in {"idle", "fresh", "called"}
  /\ stored \in [Keys -> { RouteOf[c] : c \in Calls } \cup {NoRoute}]
  /\ effects \in [Calls -> Nat]
  /\ crashes \in 0 .. MaxCrashes

Init ==
  /\ client = [c \in Calls |-> "idle"]
  /\ sends = [c \in Calls |-> 0]
  /\ inflight = {}
  /\ serving = NoCopy /\ phase = "idle"
  /\ stored = [k \in Keys |-> NoRoute]
  /\ effects = [c \in Calls |-> 0]
  /\ crashes = 0

-----------------------------------------------------------------------------
(* The client. *)

\* The first sending, or one after a sleep.
Send(c) ==
  /\ client[c] \in {"idle", "backoff"}
  /\ sends[c] < MaxSends
  /\ client' = [client EXCEPT ![c] = "waiting"]
  /\ sends' = [sends EXCEPT ![c] = @ + 1]
  /\ inflight' = inflight \cup {<< c, sends[c] + 1 >>}
  /\ UNCHANGED << serving, phase, stored, effects, crashes >>

\* A timeout, a broken connection, or 429, 502, 503 or 504: after the last retry it is raised.
FaultyTimeOut(c) ==
  /\ client[c] = "waiting"
  /\ client' = [client EXCEPT ![c] = "backoff"]
  /\ UNCHANGED << sends, inflight, serving, phase, stored, effects, crashes >>

TimeOut(c) ==
  /\ client[c] = "waiting"
  /\ client' = [client EXCEPT ![c] = IF sends[c] < MaxSends THEN "backoff" ELSE "gaveup"]
  /\ UNCHANGED << sends, inflight, serving, phase, stored, effects, crashes >>

\* The network loses a copy.
Lose(copy) ==
  /\ copy \in inflight
  /\ inflight' = inflight \ {copy}
  /\ UNCHANGED << client, sends, serving, phase, stored, effects, crashes >>

-----------------------------------------------------------------------------
(* The server. *)

\* The reply to a copy reaches the client that still waits for it, or is lost.
Reply(copy, with) ==
  \E delivered \in BOOLEAN :
    client' = IF delivered /\ client[copy[1]] = "waiting" /\ sends[copy[1]] = copy[2]
              THEN [client EXCEPT ![copy[1]] = with] ELSE client

\* stored_response: the route under which the key's response is stored.
FaultyStored(c) == NoRoute
Stored(c) == IF KeyOf[c] = NoKey THEN NoRoute ELSE stored[KeyOf[c]]

\* idempotent finds a stored response: it is replayed, and the key refused on another route.
FaultyReplay(copy) ==
  /\ phase = "idle" /\ copy \in inflight
  /\ inflight' = inflight \ {copy}
  /\ Stored(copy[1]) # NoRoute
  /\ Reply(copy, "answered")
  /\ UNCHANGED << sends, serving, phase, stored, effects, crashes >>

Replay(copy) ==
  /\ phase = "idle" /\ copy \in inflight
  /\ inflight' = inflight \ {copy}
  /\ Stored(copy[1]) # NoRoute
  /\ Reply(copy, IF Stored(copy[1]) = RouteOf[copy[1]] THEN "answered" ELSE "refused")
  /\ UNCHANGED << sends, serving, phase, stored, effects, crashes >>

\* There is none, or no key.
Receive(copy) ==
  /\ phase = "idle" /\ copy \in inflight
  /\ inflight' = inflight \ {copy}
  /\ Stored(copy[1]) = NoRoute
  /\ serving' = copy /\ phase' = "fresh"
  /\ UNCHANGED << client, sends, stored, effects, crashes >>

\* The handler's transaction.
Call ==
  /\ phase = "fresh"
  /\ effects' = [effects EXCEPT ![serving[1]] = @ + 1]
  /\ IF KeyOf[serving[1]] = NoKey
     THEN /\ phase' = "idle" /\ serving' = NoCopy /\ Reply(serving, "answered")
     ELSE /\ phase' = "called" /\ UNCHANGED << client, serving >>
  /\ UNCHANGED << sends, inflight, stored, crashes >>

\* The handler answers 4xx or 500: nothing was changed, and no response is stored.
Refuse ==
  /\ phase = "fresh"
  /\ phase' = "idle" /\ serving' = NoCopy
  /\ Reply(serving, "refused")
  /\ UNCHANGED << sends, inflight, stored, effects, crashes >>

\* store_response, in a transaction of its own; a key already there is left alone.
StoreResponse ==
  /\ phase = "called"
  /\ stored' = [k \in Keys |-> IF k = KeyOf[serving[1]] /\ stored[k] = NoRoute
                               THEN RouteOf[serving[1]] ELSE stored[k]]
  /\ phase' = "idle" /\ serving' = NoCopy
  /\ Reply(serving, "answered")
  /\ UNCHANGED << sends, inflight, effects, crashes >>

\* The server is gone, and comes back.
Crash ==
  /\ phase # "idle" /\ crashes < MaxCrashes
  /\ crashes' = crashes + 1
  /\ phase' = "idle" /\ serving' = NoCopy
  /\ UNCHANGED << client, sends, inflight, stored, effects >>

\* purge_responses drops what is older than 24 hours; no client retries that long.
Purge(k) ==
  /\ stored[k] # NoRoute /\ phase = "idle"
  /\ \A c \in Calls : KeyOf[c] = k =>
       /\ client[c] \in {"idle", "answered", "refused", "gaveup"}
       /\ \A copy \in inflight : copy[1] # c
  /\ stored' = [stored EXCEPT ![k] = NoRoute]
  /\ UNCHANGED << client, sends, inflight, serving, phase, effects, crashes >>

Serve == (\E copy \in inflight : Replay(copy) \/ Receive(copy)) \/ Call \/ Refuse \/ StoreResponse

Next ==
  \/ \E c \in Calls : Send(c) \/ TimeOut(c)
  \/ \E copy \in inflight : Lose(copy)
  \/ Serve \/ Crash
  \/ \E k \in Keys : Purge(k)

Spec == Init /\ [][Next]_vars

\* The client's timeout and its sleeps end.
Fairness == \A c \in Calls : WF_vars(TimeOut(c)) /\ WF_vars(Send(c) /\ client[c] = "backoff")

FairSpec == Spec /\ Fairness

-----------------------------------------------------------------------------
\* A call with a key is carried out once, and at most once more for every time the server
\* died: also when other calls use the key, whatever gets lost, and however late a copy comes.
\* (Of one server process: two on one database could both look before either stores.)
KeyedOnce == \A c \in Calls : KeyOf[c] # NoKey => effects[c] <= 1 + crashes

\* A client that got its answer has had its call carried out; a key used for two calls of
\* different routes never passes one off as the other.
AnsweredIsDone == \A c \in Calls : client[c] = "answered" => effects[c] >= 1

\* The client always comes to an end with a call, with an answer or an exception.
EveryCallEnds ==
  \A c \in Calls : client[c] = "waiting" ~> client[c] \in {"answered", "refused", "gaveup"}

=============================================================================
