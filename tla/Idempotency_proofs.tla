------------------------- MODULE Idempotency_proofs -------------------------
(***************************************************************************)
(* Proofs about Idempotency, for any calls, keys, routes, numbers of       *)
(* retries and crashes.                                                    *)
(***************************************************************************)
EXTENDS Idempotency, TLAPS

\* The server serves somebody exactly when it is not idle.
Serving == phase = "idle" <=> serving = NoCopy

Typed == TypeOK /\ Serving

\* A reply changes at most the status of the call replied to.
LEMMA ReplyEffect ==
  ASSUME Typed, NEW copy \in Calls \X (1 .. MaxSends), NEW with \in {"answered", "refused"},
         Reply(copy, with)
  PROVE  /\ client' \in [Calls -> ClientStatus]
         /\ \A c \in Calls :
              \/ client'[c] = client[c]
              \/ c = copy[1] /\ client[c] = "waiting" /\ client'[c] = with
  BY DEF Typed, TypeOK, Reply, ClientStatus

\* The server works on a copy of a call whenever it is not idle.
LEMMA ServedCopy ==
  ASSUME Typed, phase # "idle"
  PROVE  serving \in Calls \X (1 .. MaxSends) /\ serving[1] \in Calls
  BY DEF Typed, TypeOK, Serving

LEMMA TypedStep == Typed /\ [Next]_vars => Typed'
<1> SUFFICES ASSUME Typed, [Next]_vars PROVE Typed'
  OBVIOUS
<1> USE IdempotencyAssumption DEF NoCopy
<1>1. ASSUME NEW c \in Calls, Send(c) PROVE Typed'
  <2>1. sends[c] + 1 \in 1 .. MaxSends
    BY <1>1 DEF Typed, TypeOK, Send
  <2> QED
    BY <1>1, <2>1 DEF Typed, TypeOK, Serving, Send, ClientStatus
<1>2. ASSUME NEW c \in Calls, TimeOut(c) PROVE Typed'
  BY <1>2 DEF Typed, TypeOK, Serving, TimeOut, ClientStatus
<1>3. ASSUME NEW copy \in inflight, Lose(copy) PROVE Typed'
  BY <1>3 DEF Typed, TypeOK, Serving, Lose
<1>4. ASSUME NEW copy \in inflight, Replay(copy) PROVE Typed'
  <2>1. copy \in Calls \X (1 .. MaxSends)
    BY DEF Typed, TypeOK
  <2>2. client' \in [Calls -> ClientStatus]
    BY <1>4, <2>1, ReplyEffect DEF Replay
  <2> QED
    BY <1>4, <2>2 DEF Typed, TypeOK, Serving, Replay
<1>5. ASSUME NEW copy \in inflight, Receive(copy) PROVE Typed'
  BY <1>5 DEF Typed, TypeOK, Serving, Receive
<1>6. CASE Call
  <2>1. phase # "idle" /\ serving[1] \in Calls /\ serving \in Calls \X (1 .. MaxSends)
    BY <1>6, ServedCopy DEF Call
  <2>2. effects' \in [Calls -> Nat]
    BY <1>6, <2>1 DEF Call, Typed, TypeOK
  <2>3. CASE KeyOf[serving[1]] = NoKey
    <3>1. client' \in [Calls -> ClientStatus]
      BY <1>6, <2>1, <2>3, ReplyEffect DEF Call
    <3> QED
      BY <1>6, <2>2, <2>3, <3>1 DEF Call, Typed, TypeOK, Serving
  <2>4. CASE KeyOf[serving[1]] # NoKey
    BY <1>6, <2>1, <2>2, <2>4 DEF Call, Typed, TypeOK, Serving
  <2> QED
    BY <2>3, <2>4
<1>7. CASE Refuse
  <2>1. client' \in [Calls -> ClientStatus]
    BY <1>7, ServedCopy, ReplyEffect DEF Refuse
  <2> QED
    BY <1>7, <2>1 DEF Refuse, Typed, TypeOK, Serving
<1>8. CASE StoreResponse
  <2>1. serving[1] \in Calls /\ client' \in [Calls -> ClientStatus]
    BY <1>8, ServedCopy, ReplyEffect DEF StoreResponse
  <2>2. stored' \in [Keys -> { RouteOf[c] : c \in Calls } \cup {NoRoute}]
    BY <1>8, <2>1 DEF StoreResponse, Typed, TypeOK
  <2> QED
    BY <1>8, <2>1, <2>2 DEF StoreResponse, Typed, TypeOK, Serving
<1>9. CASE Crash
  BY <1>9 DEF Crash, Typed, TypeOK, Serving
<1>10. ASSUME NEW k \in Keys, Purge(k) PROVE Typed'
  BY <1>10 DEF Purge, Typed, TypeOK, Serving
<1>11. CASE UNCHANGED vars
  BY <1>11 DEF Typed, TypeOK, Serving, vars
<1> QED
  BY <1>1, <1>2, <1>3, <1>4, <1>5, <1>6, <1>7, <1>8, <1>9, <1>10, <1>11 DEF Next, Serve

LEMMA TypedInit == Init => Typed
  BY IdempotencyAssumption DEF Init, Typed, TypeOK, Serving, ClientStatus, NoCopy

\* Clients, server and table keep their types.
THEOREM TypeCorrect == Spec => []TypeOK
<1>1. Typed => TypeOK
  BY DEF Typed
<1> QED
  BY TypedInit, TypedStep, <1>1, PTL DEF Spec

-----------------------------------------------------------------------------
\* Nothing of call c is under way, on either side or between them.
AtRest(c) ==
  /\ client[c] \in {"idle", "answered", "refused", "gaveup"}
  /\ \A copy \in inflight : copy[1] # c
  /\ serving[1] # c

\* What keeps a keyed call from being carried out again: while it may still be sent or served,
\* either its response is stored, or it is about to be, or the server died for each time it was
\* carried out.
Keyed(c) ==
  /\ effects[c] <= crashes + 1
  /\ client[c] = "idle" => effects[c] = 0 /\ AtRest(c)
  /\ serving[1] = c /\ phase = "fresh" => stored[KeyOf[c]] = NoRoute
  /\ \/ stored[KeyOf[c]] # NoRoute
     \/ phase = "called" /\ serving[1] = c
     \/ AtRest(c)
     \/ effects[c] <= crashes

KeyedInv == \A c \in Calls : KeyOf[c] # NoKey => Keyed(c)

\* A step that changes neither what is stored or served nor what was carried out, takes copies
\* of other calls only, and leaves the client where it is with c.
LEMMA OthersStep ==
  ASSUME NEW c \in Calls, Keyed(c), client'[c] = client[c],
         \A copy \in inflight' : copy \in inflight \/ copy[1] # c,
         effects'[c] = effects[c], crashes' = crashes,
         stored'[KeyOf[c]] = stored[KeyOf[c]],
         \/ serving[1] # c /\ serving'[1] # c
         \/ serving' = serving /\ phase' = phase
  PROVE  Keyed(c)'
  BY DEF Keyed, AtRest

LEMMA KeyedStep ==
  ASSUME Typed, KeyedInv, [Next]_vars
  PROVE  KeyedInv'
<1> USE IdempotencyAssumption
<1> SUFFICES ASSUME NEW c \in Calls, KeyOf[c] # NoKey PROVE Keyed(c)'
  BY DEF KeyedInv
<1>1. Keyed(c) /\ KeyOf[c] \in Keys /\ KeyOf[c] # NoKey
  BY DEF KeyedInv
<1>2. effects[c] \in Nat /\ crashes \in Nat
  BY DEF Typed, TypeOK
<1>3. ASSUME NEW d \in Calls, Send(d) PROVE Keyed(c)'
  <2>1. CASE d = c
    <3>1. client[c] \in {"idle", "backoff"} /\ client'[c] = "waiting"
          /\ UNCHANGED << serving, phase, stored, effects, crashes >>
      BY <1>3, <2>1 DEF Send, Typed, TypeOK
    <3> QED
      BY <1>1, <1>2, <3>1 DEF Keyed, AtRest
  <2>2. CASE d # c
    <3>1. client'[c] = client[c] /\ \A copy \in inflight' : copy \in inflight \/ copy[1] # c
      BY <1>3, <2>2 DEF Send, Typed, TypeOK
    <3> QED
      BY <1>1, <1>3, <3>1, OthersStep DEF Send
  <2> QED
    BY <2>1, <2>2
<1>4. ASSUME NEW d \in Calls, TimeOut(d) PROVE Keyed(c)'
  <2>1. CASE d = c
    <3>1. client[c] = "waiting" /\ client'[c] \in {"backoff", "gaveup"}
          /\ UNCHANGED << serving, phase, stored, effects, crashes >>
      BY <1>4, <2>1 DEF TimeOut, Typed, TypeOK
    <3> QED
      BY <1>1, <3>1 DEF Keyed, AtRest
  <2>2. CASE d # c
    <3>1. client'[c] = client[c]
      BY <1>4, <2>2 DEF TimeOut, Typed, TypeOK
    <3> QED
      BY <1>1, <1>4, <3>1, OthersStep DEF TimeOut
  <2> QED
    BY <2>1, <2>2
<1>5. ASSUME NEW copy \in inflight, Lose(copy) PROVE Keyed(c)'
  BY <1>1, <1>5, OthersStep DEF Lose
<1>6. ASSUME NEW copy \in inflight, Replay(copy) PROVE Keyed(c)'
  <2>1. copy \in Calls \X (1 .. MaxSends)
    BY DEF Typed, TypeOK
  <2>2. \/ client'[c] = client[c]
        \/ client[c] = "waiting" /\ client'[c] \in {"answered", "refused"}
    BY <1>6, <2>1, ReplyEffect DEF Replay
  <2>3. inflight' \subseteq inflight /\ UNCHANGED << serving, phase, stored, effects, crashes >>
    BY <1>6 DEF Replay
  <2> QED
    BY <1>1, <2>2, <2>3 DEF Keyed, AtRest
<1>7. ASSUME NEW copy \in inflight, Receive(copy) PROVE Keyed(c)'
  <2>1. CASE copy[1] = c
    <3>1. stored[KeyOf[c]] = NoRoute /\ phase = "idle" /\ ~ AtRest(c)
      BY <1>1, <1>7, <2>1 DEF Receive, Stored, AtRest
    <3> QED
      BY <1>1, <1>7, <2>1, <3>1 DEF Receive, Keyed
  <2>2. CASE copy[1] # c
    <3>1. serving[1] # c
      BY <1>7 DEF Receive, Typed, Serving, NoCopy
    <3> QED
      BY <1>1, <1>7, <2>2, <3>1, OthersStep DEF Receive
  <2> QED
    BY <2>1, <2>2
<1>8. CASE Call
  <2>1. phase = "fresh" /\ serving[1] \in Calls /\ serving \in Calls \X (1 .. MaxSends)
    BY <1>8, ServedCopy DEF Call
  <2>2. UNCHANGED << inflight, stored, crashes >>
    BY <1>8 DEF Call
  <2>3. CASE serving[1] = c
    <3>1. effects[c] <= crashes /\ client[c] # "idle"
      BY <1>1, <2>1, <2>3 DEF Keyed, AtRest
    <3>2. effects'[c] <= effects[c] + 1
      BY <1>2, <1>8, <2>3 DEF Call, Typed, TypeOK
    <3>3. effects'[c] \in Nat
      BY <1>2, <1>8, <2>3 DEF Call, Typed, TypeOK
    <3>4. phase' = "called" /\ UNCHANGED << client, serving >>
      BY <1>1, <1>8, <2>3 DEF Call
    <3> QED
      BY <1>2, <2>2, <2>3, <3>1, <3>2, <3>3, <3>4 DEF Keyed
  <2>4. CASE serving[1] # c
    <3>1. effects'[c] = effects[c]
      BY <1>8, <2>1, <2>4 DEF Call, Typed, TypeOK
    <3>2. client'[c] = client[c]
      <4>1. CASE KeyOf[serving[1]] = NoKey
        BY <1>8, <2>1, <2>4, <4>1, ReplyEffect DEF Call
      <4> QED
        BY <1>8, <4>1 DEF Call
    <3>3. serving'[1] # c
      BY <1>8, <2>4 DEF Call, NoCopy
    <3> QED
      BY <1>1, <2>2, <2>4, <3>1, <3>2, <3>3, OthersStep
  <2> QED
    BY <2>3, <2>4
<1>9. CASE Refuse
  <2>1. phase = "fresh" /\ serving \in Calls \X (1 .. MaxSends)
    BY <1>9, ServedCopy DEF Refuse
  <2>2. \/ client'[c] = client[c]
        \/ c = serving[1] /\ client[c] = "waiting" /\ client'[c] = "refused"
    BY <1>9, <2>1, ReplyEffect DEF Refuse
  <2>3. serving'[1] # c /\ UNCHANGED << inflight, stored, effects, crashes >>
    BY <1>9 DEF Refuse, NoCopy
  <2>4. CASE serving[1] = c
    <3>1. effects[c] <= crashes /\ client[c] # "idle"
      BY <1>1, <2>1, <2>4 DEF Keyed, AtRest
    <3> QED
      BY <1>1, <2>2, <2>3, <2>4, <3>1 DEF Keyed
  <2> QED
    BY <1>1, <2>2, <2>3, <2>4, OthersStep
<1>10. CASE StoreResponse
  <2>1. phase = "called" /\ serving \in Calls \X (1 .. MaxSends) /\ serving[1] \in Calls
    BY <1>10, ServedCopy DEF StoreResponse
  <2>2. \/ client'[c] = client[c]
        \/ c = serving[1] /\ client[c] = "waiting" /\ client'[c] = "answered"
    BY <1>10, <2>1, ReplyEffect DEF StoreResponse
  <2>3. serving'[1] # c /\ UNCHANGED << inflight, effects, crashes >>
    BY <1>10 DEF StoreResponse, NoCopy
  <2>4. CASE serving[1] = c
    <3>1. stored'[KeyOf[c]] # NoRoute
      BY <1>1, <1>10, <2>1, <2>4 DEF StoreResponse
    <3>2. client[c] # "idle"
      BY <1>1, <2>4 DEF Keyed, AtRest
    <3> QED
      BY <1>1, <2>2, <2>3, <3>1, <3>2 DEF Keyed
  <2>5. CASE serving[1] # c
    <3>1. client'[c] = client[c]
      BY <2>2, <2>5
    <3>2. stored'[KeyOf[c]] = stored[KeyOf[c]] \/ stored'[KeyOf[c]] # NoRoute
      BY <1>1, <1>10 DEF StoreResponse
    <3> QED
      BY <1>1, <2>3, <2>5, <3>1, <3>2 DEF Keyed, AtRest
  <2> QED
    BY <2>4, <2>5
<1>11. CASE Crash
  <2>1. crashes' = crashes + 1 /\ serving'[1] # c
    BY <1>11 DEF Crash, NoCopy
  <2> QED
    BY <1>1, <1>2, <1>11, <2>1 DEF Crash, Keyed, AtRest
<1>12. ASSUME NEW k \in Keys, Purge(k) PROVE Keyed(c)'
  <2>1. CASE k = KeyOf[c]
    <3>1. serving[1] # c /\ phase = "idle"
      BY <1>12 DEF Purge, Typed, Serving, NoCopy
    <3>2. AtRest(c)
      BY <1>12, <2>1, <3>1 DEF Purge, AtRest
    <3> QED
      BY <1>1, <1>12, <3>1, <3>2 DEF Purge, Keyed, AtRest
  <2>2. CASE k # KeyOf[c]
    <3>1. stored'[KeyOf[c]] = stored[KeyOf[c]]
      BY <1>1, <1>12, <2>2 DEF Purge, Typed, TypeOK
    <3> QED
      BY <1>1, <1>12, <3>1, OthersStep DEF Purge
  <2> QED
    BY <2>1, <2>2
<1>13. CASE UNCHANGED vars
  BY <1>1, <1>13, OthersStep DEF vars
<1> QED
  BY <1>3, <1>4, <1>5, <1>6, <1>7, <1>8, <1>9, <1>10, <1>11, <1>12, <1>13 DEF Next, Serve

\* A call with a key is carried out at most once more than the server died, whoever else uses
\* the key: with a server that stays up, Idempotency-Key makes any call happen at most once.
THEOREM KeyedCallsOnce == Spec => []KeyedOnce
<1> DEFINE Inv == Typed /\ KeyedInv
<1>1. Init => Inv
  <2>1. Init => KeyedInv
    BY IdempotencyAssumption DEF Init, KeyedInv, Keyed, AtRest, NoCopy
  <2> QED
    BY TypedInit, <2>1
<1>2. Inv /\ [Next]_vars => Inv'
  BY TypedStep, KeyedStep
<1>3. Inv => KeyedOnce
  <2> SUFFICES ASSUME Inv, NEW c \in Calls, KeyOf[c] # NoKey PROVE effects[c] <= 1 + crashes
    BY DEF KeyedOnce
  <2>1. effects[c] \in Nat /\ crashes \in Nat /\ effects[c] <= crashes + 1
    BY DEF KeyedInv, Keyed, Typed, TypeOK
  <2> QED
    BY <2>1
<1> QED
  BY <1>1, <1>2, <1>3, PTL DEF Spec

-----------------------------------------------------------------------------
\* Calls that share a key have different routes.
RoutesDiffer ==
  \A c, d \in Calls : c # d /\ KeyOf[c] = KeyOf[d] /\ KeyOf[c] # NoKey => RouteOf[c] # RouteOf[d]

\* What the server knows was done, was done: a stored response is the one of the call of that
\* key and route, and a response about to be stored is the one of the call just carried out.
Answers ==
  /\ AnsweredIsDone
  /\ \A c \in Calls :
       KeyOf[c] # NoKey /\ stored[KeyOf[c]] = RouteOf[c] => effects[c] >= 1
  /\ phase = "called" => effects[serving[1]] >= 1

\* Where calls that share a key have different routes, a client that got its answer has had its
\* call carried out, whatever the network loses and whenever the server dies.
THEOREM AnsweredCallsAreDone ==
  ASSUME RoutesDiffer PROVE Spec => []AnsweredIsDone
<1> DEFINE Inv == Typed /\ Answers
<1>1. Init => Inv
  BY TypedInit, IdempotencyAssumption DEF Init, Answers, AnsweredIsDone
<1>2. Inv /\ [Next]_vars => Inv'
  <2> SUFFICES ASSUME Inv, [Next]_vars PROVE Answers'
    BY TypedStep
  <2> USE IdempotencyAssumption
  <2>0. \A c \in Calls : effects[c] \in Nat
    BY DEF Typed, TypeOK
  <2>1. ASSUME NEW c \in Calls, Send(c) PROVE Answers'
    BY <2>1 DEF Send, Answers, AnsweredIsDone, Typed, TypeOK
  <2>2. ASSUME NEW c \in Calls, TimeOut(c) PROVE Answers'
    BY <2>2 DEF TimeOut, Answers, AnsweredIsDone, Typed, TypeOK
  <2>3. ASSUME NEW copy \in inflight, Lose(copy) PROVE Answers'
    BY <2>3 DEF Lose, Answers, AnsweredIsDone
  <2>4. ASSUME NEW copy \in inflight, Replay(copy) PROVE Answers'
    <3>1. copy \in Calls \X (1 .. MaxSends) /\ copy[1] \in Calls
      BY DEF Typed, TypeOK
    <3>2. UNCHANGED << effects, stored, phase, serving >>
      BY <2>4 DEF Replay
    <3>3. CASE Stored(copy[1]) = RouteOf[copy[1]]
      <4>1. effects[copy[1]] >= 1
        BY <3>1, <3>3 DEF Stored, Answers
      <4>2. Reply(copy, "answered")
        BY <2>4, <3>3 DEF Replay
      <4>3. \A c \in Calls : client'[c] = client[c] \/ c = copy[1]
        BY <3>1, <4>2, ReplyEffect
      <4> QED
        BY <3>2, <4>1, <4>3 DEF Answers, AnsweredIsDone
    <3>4. CASE Stored(copy[1]) # RouteOf[copy[1]]
      <4>1. Reply(copy, "refused")
        BY <2>4, <3>4 DEF Replay
      <4>2. \A c \in Calls : client'[c] = client[c] \/ client'[c] = "refused"
        BY <3>1, <4>1, ReplyEffect
      <4> QED
        BY <3>2, <4>2 DEF Answers, AnsweredIsDone
    <3> QED
      BY <3>3, <3>4
  <2>5. ASSUME NEW copy \in inflight, Receive(copy) PROVE Answers'
    BY <2>5 DEF Receive, Answers, AnsweredIsDone
  <2>6. CASE Call
    <3>1. serving \in Calls \X (1 .. MaxSends) /\ serving[1] \in Calls /\ UNCHANGED stored
      BY <2>6, ServedCopy DEF Call
    <3>2. effects'[serving[1]] >= 1
      BY <2>0, <2>6, <3>1 DEF Call, Typed, TypeOK
    <3>3. \A c \in Calls : c # serving[1] => effects'[c] = effects[c]
      BY <2>6, <3>1 DEF Call, Typed, TypeOK
    <3>4. \A c \in Calls : client'[c] = client[c] \/ c = serving[1]
      <4>1. CASE KeyOf[serving[1]] = NoKey
        <5>1. Reply(serving, "answered")
          BY <2>6, <4>1 DEF Call
        <5> QED
          BY <3>1, <5>1, ReplyEffect
      <4>2. CASE KeyOf[serving[1]] # NoKey
        BY <2>6, <4>2 DEF Call
      <4> QED
        BY <4>1, <4>2
    <3>5. phase' = "called" => serving' = serving
      BY <2>6 DEF Call
    <3> QED
      BY <3>1, <3>2, <3>3, <3>4, <3>5 DEF Answers, AnsweredIsDone
  <2>7. CASE Refuse
    <3>1. serving \in Calls \X (1 .. MaxSends) /\ Reply(serving, "refused")
      BY <2>7, ServedCopy DEF Refuse
    <3>2. \A c \in Calls : client'[c] = client[c] \/ client'[c] = "refused"
      BY <3>1, ReplyEffect
    <3> QED
      BY <2>7, <3>2 DEF Refuse, Answers, AnsweredIsDone
  <2>8. CASE StoreResponse
    <3>1. serving \in Calls \X (1 .. MaxSends) /\ serving[1] \in Calls
          /\ effects[serving[1]] >= 1 /\ UNCHANGED effects /\ phase' = "idle"
      BY <2>8, ServedCopy DEF StoreResponse, Answers
    <3>2. \A c \in Calls : client'[c] = client[c] \/ c = serving[1]
      BY <2>8, <3>1, ReplyEffect DEF StoreResponse
    <3>3. ASSUME NEW c \in Calls, KeyOf[c] # NoKey, stored'[KeyOf[c]] = RouteOf[c]
          PROVE  effects[c] >= 1
      <4>1. KeyOf[c] \in Keys
        BY <3>3
      <4>2. CASE stored[KeyOf[c]] = RouteOf[c]
        BY <3>3, <4>2 DEF Answers
      <4>3. CASE stored[KeyOf[c]] # RouteOf[c]
        <5>1. KeyOf[c] = KeyOf[serving[1]] /\ RouteOf[c] = RouteOf[serving[1]]
          BY <2>8, <3>3, <4>1, <4>3 DEF StoreResponse
        <5>2. c = serving[1]
          BY <3>1, <3>3, <5>1 DEF RoutesDiffer
        <5> QED
          BY <3>1, <5>2
      <4> QED
        BY <4>2, <4>3
    <3> QED
      BY <3>1, <3>2, <3>3 DEF Answers, AnsweredIsDone
  <2>9. CASE Crash
    BY <2>9 DEF Crash, Answers, AnsweredIsDone
  <2>10. ASSUME NEW k \in Keys, Purge(k) PROVE Answers'
    <3>1. \A c \in Calls : KeyOf[c] # NoKey /\ stored'[KeyOf[c]] = RouteOf[c]
                             => stored[KeyOf[c]] = RouteOf[c]
      BY <2>10 DEF Purge, Typed, TypeOK
    <3> QED
      BY <2>10, <3>1 DEF Purge, Answers, AnsweredIsDone
  <2>11. CASE UNCHANGED vars
    BY <2>11 DEF vars, Answers, AnsweredIsDone
  <2> QED
    BY <2>1, <2>2, <2>3, <2>4, <2>5, <2>6, <2>7, <2>8, <2>9, <2>10, <2>11 DEF Next, Serve
<1>3. Inv => AnsweredIsDone
  BY DEF Answers
<1> QED
  BY <1>1, <1>2, <1>3, PTL DEF Spec

=============================================================================
