---------------------------- MODULE Gate_proofs ----------------------------
(***************************************************************************)
(* Proofs about the two ways the gate splits a run.  Workers, for any      *)
(* number of workers, tests and entities: each component keeps its promise *)
(* under its own specification, and a run in workers implements all three. *)
(* Shards, for any tests, views and number of machines.                    *)
(***************************************************************************)
EXTENDS Workers, Shards, FiniteLemmas


-----------------------------------------------------------------------------
(* The calls. *)

\* A write that is still being sent has gone out only as often as a gateway answered for it; a
\* POST was not answered at all.
SentAsAnswered(c) ==
  call[c].phase # "none" /\ call[c].method # "GET" =>
    /\ call[c].phase # "resumed"
    /\ call[c].phase = "fetch" => call[c].sent = call[c].answered
    /\ call[c].sent <= call[c].answered + 1
    /\ call[c].method = "POST" =>
         /\ call[c].sent <= 1
         /\ call[c].phase = "fetch" => call[c].sent = 0

ResendInv == ResendTypeOK /\ \A c \in Workers : SentAsAnswered(c)

CallRecord == [phase : CallPhases, method : Methods, sent : Nat, answered : Nat]

\* A call that was sent once more.
LEMMA SentAgain ==
  ASSUME NEW c \in Workers, call[c] \in CallRecord, NEW next \in CallPhases, NEW errors \in {0, 1}
  PROVE  /\ Sent(c, next, errors) \in CallRecord
         /\ Sent(c, next, errors).phase = next
         /\ Sent(c, next, errors).method = call[c].method
         /\ Sent(c, next, errors).sent = call[c].sent + 1
         /\ Sent(c, next, errors).answered = call[c].answered + errors
         /\ call[c].sent \in Nat /\ call[c].answered \in Nat
  BY DEF Sent, CallRecord

LEMMA OneCall ==
  ASSUME ResendInv, NEW c \in Workers, NEW new,
         call' = [call EXCEPT ![c] = new],
         new \in CallRecord,
         SentAsAnswered(c)'
  PROVE  ResendInv'
<1>1. ResendTypeOK'
  BY DEF ResendInv, ResendTypeOK, CallRecord
<1>2. ASSUME NEW d \in Workers PROVE SentAsAnswered(d)'
  <2>1. CASE d = c
    BY <2>1
  <2>2. CASE d # c
    BY <2>2 DEF ResendInv, ResendTypeOK, SentAsAnswered
  <2> QED
    BY <2>1, <2>2
<1> QED
  BY <1>1, <1>2 DEF ResendInv

LEMMA ResendStarts == ResendInit => ResendInv
  BY DEF ResendInit, ResendInv, ResendTypeOK, SentAsAnswered, NoCall, Call, CallPhases, Methods

LEMMA ResendStep == ResendInv /\ [ResendNext]_call => ResendInv'
<1> SUFFICES ASSUME ResendInv, [ResendNext]_call PROVE ResendInv'
  OBVIOUS
<1>t. call \in [Workers -> CallRecord]
  BY DEF ResendInv, ResendTypeOK, CallRecord
<1>1. ASSUME NEW c \in Workers, NEW m \in Methods, Request(c, m) PROVE ResendInv'
  <2>1. Call(m) \in CallRecord
    BY DEF Call, CallRecord, CallPhases
  <2>2. SentAsAnswered(c)'
    BY <1>1, <1>t DEF Request, Call, SentAsAnswered
  <2> QED
    BY <1>1, <2>1, <2>2, OneCall DEF Request
<1>2. ASSUME NEW c \in Workers, GatewayError(c) PROVE ResendInv'
  <2> DEFINE next == IF Retries(c) THEN "fetch" ELSE "deliver"
  <2>1. next \in CallPhases
    BY DEF CallPhases
  <2>2. call[c].phase = "fetch" /\ call' = [call EXCEPT ![c] = Sent(c, next, 1)]
    BY <1>2 DEF GatewayError
  <2>3. /\ SentAsAnswered(c)
        /\ (call[c].method = "POST" => next # "fetch") /\ next # "resumed"
    BY DEF ResendInv, Retries, Protected, Repeatable
  <2> HIDE DEF next
  <2>4. /\ call'[c] = Sent(c, next, 1)
        /\ Sent(c, next, 1) \in CallRecord
    BY <1>t, <2>1, <2>2, SentAgain
  <2>5. SentAsAnswered(c)'
    BY <1>t, <2>1, <2>2, <2>3, <2>4, SentAgain DEF SentAsAnswered
  <2> QED
    BY <2>2, <2>4, <2>5, OneCall
<1>3. ASSUME NEW c \in Workers, Answered(c) PROVE ResendInv'
  <2> DEFINE next == "deliver"
  <2>1. next \in CallPhases
    BY DEF CallPhases
  <2>2. call[c].phase = "fetch" /\ call' = [call EXCEPT ![c] = Sent(c, next, 0)]
    BY <1>3 DEF Answered
  <2>3. /\ SentAsAnswered(c)
        /\ next # "fetch" /\ next # "resumed"
    BY DEF ResendInv
  <2> HIDE DEF next
  <2>4. /\ call'[c] = Sent(c, next, 0)
        /\ Sent(c, next, 0) \in CallRecord
    BY <1>t, <2>1, <2>2, SentAgain
  <2>5. SentAsAnswered(c)'
    BY <1>t, <2>1, <2>2, <2>3, <2>4, SentAgain DEF SentAsAnswered
  <2> QED
    BY <2>2, <2>4, <2>5, OneCall
<1>4. ASSUME NEW c \in Workers, FetchFails(c) PROVE ResendInv'
  <2> DEFINE next == IF Resumes(c) THEN "resumed"
                     ELSE IF call[c].answered = 0 THEN "aborted" ELSE "deliver"
  <2>1. next \in CallPhases
    BY DEF CallPhases
  <2>2. call[c].phase = "fetch" /\ call' = [call EXCEPT ![c] = Sent(c, next, 0)]
    BY <1>4 DEF FetchFails
  <2>3. /\ SentAsAnswered(c)
        /\ (call[c].method # "GET" => next # "resumed") /\ next # "fetch"
    BY DEF ResendInv, Resumes
  <2> HIDE DEF next
  <2>4. /\ call'[c] = Sent(c, next, 0)
        /\ Sent(c, next, 0) \in CallRecord
    BY <1>t, <2>1, <2>2, SentAgain
  <2>5. SentAsAnswered(c)'
    BY <1>t, <2>1, <2>2, <2>3, <2>4, SentAgain DEF SentAsAnswered
  <2> QED
    BY <2>2, <2>4, <2>5, OneCall
<1>5. ASSUME NEW c \in Workers, Resume(c) PROVE ResendInv'
  <2> DEFINE next == "deliver"
  <2>1. next \in CallPhases
    BY DEF CallPhases
  <2>2. call[c].phase = "resumed" /\ call' = [call EXCEPT ![c] = Sent(c, next, 0)]
    BY <1>5 DEF Resume
  <2>3. /\ SentAsAnswered(c)
        /\ next # "fetch" /\ next # "resumed"
    BY DEF ResendInv
  <2> HIDE DEF next
  <2>4. /\ call'[c] = Sent(c, next, 0)
        /\ Sent(c, next, 0) \in CallRecord
    BY <1>t, <2>1, <2>2, SentAgain
  <2>5. SentAsAnswered(c)'
    BY <1>t, <2>1, <2>2, <2>3, <2>4, SentAgain DEF SentAsAnswered
  <2> QED
    BY <2>2, <2>4, <2>5, OneCall
<1>6. ASSUME NEW c \in Workers, Over(c) \/ Drop(c) PROVE ResendInv'
  <2>1. NoCall \in CallRecord /\ NoCall.phase = "none"
    BY DEF NoCall, CallRecord, Call, CallPhases, Methods
  <2>2. SentAsAnswered(c)'
    BY <1>6, <2>1, <1>t DEF Over, Drop, SentAsAnswered
  <2> QED
    BY <1>6, <2>1, <2>2, OneCall DEF Over, Drop
<1>7. CASE UNCHANGED call
  BY <1>7 DEF ResendInv, ResendTypeOK, SentAsAnswered
<1> QED
  BY <1>1, <1>2, <1>3, <1>4, <1>5, <1>6, <1>7 DEF ResendNext

LEMMA ResendInvariant == ResendSpec => []ResendInv
  BY ResendStarts, ResendStep, PTL DEF ResendSpec

LEMMA WritesAreSentOnce == ResendSpec => []WritesSentOnce
<1>1. ResendInv => WritesSentOnce
  BY DEF ResendInv, SentAsAnswered, WritesSentOnce
<1> QED
  BY <1>1, ResendInvariant, PTL

-----------------------------------------------------------------------------
(* The breaker. *)

\* A worker shares a reason it has; once it is done with that, or has found the reason, there is
\* a file, or it met an error; an empty file has a writer, or was left by one.
BreakerInv ==
  /\ BreakerTypeOK
  /\ \A w \in Workers :
       /\ sharing[w] # "no" => tripped[w] # NoReason
       /\ tripped[w] # NoReason /\ sharing[w] # "create" =>
            tripFile # "absent" \/ (sharing[w] = "no" /\ w \in unshared)
  /\ tripFile = "empty" => torn \/ \E w \in Workers : sharing[w] = "write"

LEMMA BreakerStarts == BreakerInit => BreakerInv
<1> SUFFICES ASSUME BreakerInit PROVE BreakerInv
  OBVIOUS
<1>1. BreakerTypeOK
  BY DEF BreakerInit, BreakerTypeOK
<1>2. tripFile # "empty" /\ \A w \in Workers : sharing[w] = "no" /\ tripped[w] = NoReason
  BY DEF BreakerInit
<1> QED
  BY <1>1, <1>2 DEF BreakerInv

LEMMA BreakerStep == BreakerInv /\ [BreakerNext]_breakerVars => BreakerInv'
<1> SUFFICES ASSUME BreakerInv, [BreakerNext]_breakerVars PROVE BreakerInv'
  OBVIOUS
<1> USE BreakerAssumption DEF BreakerInv, BreakerTypeOK
<1>1. ASSUME NEW w \in Workers, NEW answer \in Answers, Record(w, answer) PROVE BreakerInv'
  <2>1. seen' \in [Workers -> Nat] /\ UNCHANGED << tripFile, unshared, torn >>
    BY <1>1 DEF Record
  <2>2. CASE UNCHANGED << tripped, sharing >>
    BY <2>1, <2>2
  <2>3. CASE /\ tripped[w] = NoReason
             /\ tripped' = [tripped EXCEPT ![w] = w]
             /\ sharing' = [sharing EXCEPT ![w] = "create"]
    BY <2>1, <2>3
  <2> QED
    BY <1>1, <2>2, <2>3 DEF Record, Trip
<1>2. ASSUME NEW w \in Workers, CreateFile(w) PROVE BreakerInv'
  BY <1>2 DEF CreateFile
<1>3. ASSUME NEW w \in Workers, WriteFile(w) PROVE BreakerInv'
  BY <1>3 DEF WriteFile
<1>4. ASSUME NEW w \in Workers, CreateFails(w) PROVE BreakerInv'
  BY <1>4 DEF CreateFails
<1>5. ASSUME NEW w \in Workers, WriteFails(w) PROVE BreakerInv'
  BY <1>5 DEF WriteFails
<1>6. ASSUME NEW w \in Workers, KeepReason(w) PROVE BreakerInv'
  BY <1>6 DEF KeepReason, Reason
<1>7. ASSUME NEW w \in Workers, Restart(w) PROVE BreakerInv'
  BY <1>7 DEF Restart
<1>8. CASE UNCHANGED breakerVars
  BY <1>8 DEF breakerVars
<1> QED
  BY <1>1, <1>2, <1>3, <1>4, <1>5, <1>6, <1>7, <1>8 DEF BreakerNext, Share

LEMMA TripsAreShared == BreakerSpec => []TripIsShared
<1>1. BreakerInv => TripIsShared
  BY BreakerAssumption DEF BreakerInv, BreakerTypeOK, TripIsShared, AtRest, Reason
<1>2. BreakerSpec => []BreakerInv
  BY BreakerStarts, BreakerStep, PTL DEF BreakerSpec
<1> QED
  BY <1>1, <1>2, PTL

-----------------------------------------------------------------------------
(* The allocation. *)

LEMMA RangeOfTail ==
  ASSUME NEW S, NEW s \in Seq(S), s # << >>
  PROVE  /\ Head(s) \in Range(s) /\ Head(s) \in S /\ Tail(s) \in Seq(S)
         /\ Range(s) = Range(Tail(s)) \cup {Head(s)}
<1>1. /\ Len(s) \in Nat \ {0} /\ DOMAIN s = 1 .. Len(s)
      /\ DOMAIN Tail(s) = 1 .. Len(s) - 1
      /\ \A i \in DOMAIN Tail(s) : Tail(s)[i] = s[i + 1]
      /\ Head(s) = s[1] /\ Tail(s) \in Seq(S)
  OBVIOUS
<1>2. \A i \in DOMAIN s : i = 1 \/ (i - 1 \in DOMAIN Tail(s) /\ Tail(s)[i - 1] = s[i])
  BY <1>1
<1>3. Range(s) \subseteq Range(Tail(s)) \cup {Head(s)}
  BY <1>1, <1>2 DEF Range
<1>4. Range(Tail(s)) \cup {Head(s)} \subseteq Range(s)
  BY <1>1 DEF Range
<1> QED
  BY <1>1, <1>3, <1>4

LEMMA RangeOfAppend ==
  ASSUME NEW S, NEW s \in Seq(S), NEW e \in S
  PROVE  Append(s, e) \in Seq(S) /\ Range(Append(s, e)) = Range(s) \cup {e}
<1>1. /\ Len(s) \in Nat /\ DOMAIN s = 1 .. Len(s)
      /\ DOMAIN Append(s, e) = 1 .. Len(s) + 1
      /\ \A i \in DOMAIN s : Append(s, e)[i] = s[i]
      /\ Append(s, e)[Len(s) + 1] = e
      /\ Append(s, e) \in Seq(S)
  OBVIOUS
<1> QED
  BY <1>1 DEF Range

LEMMA RangeIn ==
  ASSUME NEW S, NEW s \in Seq(S)
  PROVE  Range(s) \subseteq S /\ (s = << >> => Range(s) = {})
  BY DEF Range

\* What is in the way of giving an entity to the test a worker looks for.
Taken(w, e) == claims[e] # NoTest \/ e \in rejections \/ e \in picking[w].unfit

\* A worker that is looking has not forgotten an entity that is still to be had.
Considers(w) ==
  LET p == picking[w]
  IN  /\ p.phase # "none" => p.test \in Tests
      /\ p.phase \in {"claim", "create"} => p.left # << >>
      /\ p.phase = "look" =>
           \A e \in Entities : e \in Range(p.left) \/ e \in Range(p.open) \/ Taken(w, e)
      /\ p.phase \in {"try", "claim", "create"} =>
           \A e \in Entities : e \in Range(p.left) \/ Taken(w, e)
      /\ p.phase = "done" /\ p.got = NoEntity => \A e \in Entities : Taken(w, e)

HandedIsClaimed == \A p \in handed : claims[p[2]] = p[1]

AllocationInv ==
  AllocationTypeOK /\ HandedIsClaimed /\ \A w \in Workers : Considers(w)

LEMMA AllocationStarts == AllocationInit => AllocationInv
<1> SUFFICES ASSUME AllocationInit PROVE AllocationInv
  OBVIOUS
<1>1. Start("none", NoTest) \in Picking
  BY AllocationAssumption DEF Start, Picking, Phases
<1>2. AllocationTypeOK
  BY <1>1 DEF AllocationInit, AllocationTypeOK
<1>3. \A w \in Workers : picking[w].phase = "none"
  BY DEF AllocationInit, Start
<1> QED
  BY <1>2, <1>3 DEF AllocationInv, HandedIsClaimed, Considers, AllocationInit

\* One worker goes on with its search, and files are only added: the others keep what they know.
LEMMA OnePick ==
  ASSUME AllocationInv, NEW w \in Workers, NEW new \in Picking,
         picking' = [picking EXCEPT ![w] = new],
         claims' \in [Entities -> Tests \cup {NoTest}], rejections' \in SUBSET Entities,
         \A e \in Entities : claims[e] # NoTest => claims'[e] # NoTest,
         rejections \subseteq rejections',
         handed' \subseteq Tests \X Entities, HandedIsClaimed',
         Considers(w)'
  PROVE  AllocationInv'
<1>1. AllocationTypeOK'
  BY DEF AllocationInv, AllocationTypeOK
<1>2. ASSUME NEW v \in Workers PROVE Considers(v)'
  <2>1. CASE v = w
    BY <2>1
  <2>2. CASE v # w
    <3>1. picking'[v] = picking[v] /\ Considers(v)
      BY <2>2 DEF AllocationInv, AllocationTypeOK
    <3>2. \A e \in Entities : Taken(v, e) => Taken(v, e)'
      BY <3>1 DEF Taken
    <3> QED
      BY <3>1, <3>2 DEF Considers
  <2> QED
    BY <2>1, <2>2
<1> QED
  BY <1>1, <1>2 DEF AllocationInv

LEMMA SearchStep ==
  ASSUME AllocationInv, NEW w \in Workers, UNCHANGED << files, handed >>, NEW new \in Picking,
         picking' = [picking EXCEPT ![w] = new],
         Considers(w)'
  PROVE  AllocationInv'
  BY OnePick DEF files, AllocationInv, AllocationTypeOK, HandedIsClaimed

LEMMA AllocationKept == AllocationInv /\ [AllocationNext]_allocationVars => AllocationInv'
<1> SUFFICES ASSUME AllocationInv, [AllocationNext]_allocationVars PROVE AllocationInv'
  OBVIOUS
<1>t. picking \in [Workers -> Picking]
  BY DEF AllocationInv, AllocationTypeOK
<1>l. \A w \in Workers : picking[w].left \in Seq(Entities) /\ picking[w].open \in Seq(Entities)
  BY <1>t DEF Picking
<1>c. \A w \in Workers : Considers(w)
  BY DEF AllocationInv
<1>1. ASSUME NEW w \in Workers, NEW t \in Tests, Pick(w, t) PROVE AllocationInv'
  <2>1. Start("look", t) \in Picking
    BY AllocationAssumption DEF Start, Picking, Phases
  <2>2. picking'[w] = Start("look", t)
    BY <1>1, <1>t DEF Pick
  <2>3. Considers(w)'
    BY <2>2 DEF Start, Considers, Entities
  <2> QED
    BY <1>1, <2>1, <2>3, SearchStep DEF Pick
<1>2. ASSUME NEW w \in Workers, Leave(w) PROVE AllocationInv'
  <2>1. Start("none", NoTest) \in Picking
    BY AllocationAssumption DEF Start, Picking, Phases
  <2>2. picking'[w] = Start("none", NoTest)
    BY <1>2, <1>t DEF Leave
  <2>3. Considers(w)'
    BY <2>2 DEF Start, Considers
  <2> QED
    BY <1>2, <2>1, <2>3, SearchStep DEF Leave
<1>3. ASSUME NEW w \in Workers, Look(w) PROVE AllocationInv'
  <2> DEFINE p == picking[w]
             opened == IF IsAvailable(Candidate(w)) THEN Append(p.open, Candidate(w)) ELSE p.open
             new == [p EXCEPT !.left = Tail(@), !.open = opened]
  <2>1. /\ Candidate(w) \in Entities /\ Tail(p.left) \in Seq(Entities)
        /\ Range(p.left) = Range(Tail(p.left)) \cup {Candidate(w)}
    BY <1>3, <1>l, RangeOfTail DEF Look, Candidate
  <2>2. /\ opened \in Seq(Entities)
        /\ Range(opened) = IF IsAvailable(Candidate(w)) THEN Range(p.open) \cup {Candidate(w)}
                           ELSE Range(p.open)
    <3>1. Range(Append(p.open, Candidate(w))) = Range(p.open) \cup {Candidate(w)}
          /\ Append(p.open, Candidate(w)) \in Seq(Entities)
      BY <1>l, <2>1, RangeOfAppend
    <3>2. CASE IsAvailable(Candidate(w))
      BY <3>1, <3>2
    <3>3. CASE ~ IsAvailable(Candidate(w))
      BY <1>l, <3>3
    <3> QED
      BY <3>2, <3>3
  <2> HIDE DEF opened
  <2>3. picking' = [picking EXCEPT ![w] = new] /\ UNCHANGED << files, handed >>
    BY <1>3, <1>t DEF Look, opened
  <2>4. p \in Picking /\ new \in Picking
    BY <1>t, <2>1, <2>2 DEF Picking
  <2>5. /\ picking'[w].left = Tail(p.left) /\ picking'[w].open = opened
        /\ picking'[w].phase = "look" /\ p.phase = "look" /\ picking'[w].test = p.test
        /\ picking'[w].unfit = p.unfit
    <3>1. /\ new.left = Tail(p.left) /\ new.open = opened /\ new.phase = p.phase
          /\ new.test = p.test /\ new.unfit = p.unfit
      BY <2>4 DEF Picking
    <3>2. picking'[w] = new
      BY <1>t, <2>3
    <3>3. p.phase = "look"
      BY <1>3 DEF Look
    <3> HIDE DEF new, p
    <3> QED
      BY <3>1, <3>2, <3>3
  <2>6. Considers(w)'
    BY <1>c, <2>1, <2>2, <2>3, <2>5 DEF Considers, Taken, IsAvailable, files
  <2> QED
    BY <2>3, <2>4, <2>6, SearchStep
<1>4. ASSUME NEW w \in Workers, Resolve(w) PROVE AllocationInv'
  <2> DEFINE p == picking[w]
  <2>1. /\ p.phase = "look" /\ p.left = << >> /\ UNCHANGED << files, handed >>
        /\ Range(p.left) = {}
    BY <1>4, <1>l, RangeIn DEF Resolve
  <2>2. PICK found \in SUBSET Range(p.open) :
          picking' = [picking EXCEPT ![w] =
                        [p EXCEPT !.phase = "try", !.left = p.open, !.found = found]]
    BY <1>4, <1>t DEF Resolve
  <2> DEFINE new == [p EXCEPT !.phase = "try", !.left = p.open, !.found = found]
  <2>3. p \in Picking /\ p.open \in Seq(Entities) /\ found \subseteq Entities
    BY <1>t, <1>l, RangeIn
  <2>4. /\ new \in Picking
        /\ new.left = p.open /\ new.phase = "try" /\ new.test = p.test /\ new.unfit = p.unfit
    BY <2>3 DEF Picking, Phases
  <2>5. picking'[w] = new
    BY <1>t, <2>2
  <2>6. Considers(w)'
    <3> HIDE DEF new
    <3> QED
      BY <1>c, <2>1, <2>4, <2>5 DEF Considers, Taken, files
  <2> QED
    BY <2>1, <2>2, <2>4, <2>6, SearchStep
<1>5. ASSUME NEW w \in Workers, Passed(w) PROVE AllocationInv'
  <2> DEFINE p == picking[w]
             new == [p EXCEPT !.left = Tail(p.left), !.unfit = p.unfit \cup {Candidate(w)}]
  <2>1. /\ p.phase = "try" /\ p.left # << >> /\ UNCHANGED << files, handed >>
        /\ picking' = [picking EXCEPT ![w] = new]
    BY <1>5, <1>t DEF Passed
  <2>2. /\ p \in Picking /\ p.unfit \subseteq Entities
        /\ Candidate(w) \in Entities /\ Tail(p.left) \in Seq(Entities)
        /\ Range(p.left) = Range(Tail(p.left)) \cup {Candidate(w)}
    BY <1>t, <1>l, <2>1, RangeOfTail DEF Candidate, Picking
  <2>3. /\ new \in Picking /\ new.left = Tail(p.left) /\ new.phase = p.phase
        /\ new.test = p.test /\ new.unfit = p.unfit \cup {Candidate(w)}
    BY <2>2 DEF Picking
  <2>4. picking'[w] = new
    BY <1>t, <2>1
  <2>5. Considers(w)'
    <3> HIDE DEF new
    <3> QED
      BY <1>c, <2>1, <2>2, <2>3, <2>4 DEF Considers, Taken, files
  <2> QED
    BY <2>1, <2>3, <2>5, SearchStep
<1>6. ASSUME NEW w \in Workers, Unsafe(w) PROVE AllocationInv'
  <2> DEFINE p == picking[w]
             new == [p EXCEPT !.left = Tail(p.left)]
  <2>1. /\ p.phase = "try" /\ p.left # << >> /\ UNCHANGED << claims, handed >>
        /\ rejections' = rejections \cup {Candidate(w)}
        /\ picking' = [picking EXCEPT ![w] = new]
    BY <1>6, <1>t DEF Unsafe
  <2>2. /\ p \in Picking
        /\ Candidate(w) \in Entities /\ Tail(p.left) \in Seq(Entities)
        /\ Range(p.left) = Range(Tail(p.left)) \cup {Candidate(w)}
    BY <1>t, <1>l, <2>1, RangeOfTail DEF Candidate
  <2>3. /\ new \in Picking /\ new.left = Tail(p.left) /\ new.phase = p.phase
        /\ new.test = p.test /\ new.unfit = p.unfit
    BY <2>2 DEF Picking
  <2>4. picking'[w] = new
    BY <1>t, <2>1
  <2> HIDE DEF new
  <2>5. Considers(w)'
    BY <1>c, <2>1, <2>2, <2>3, <2>4 DEF Considers, Taken
  <2>6. /\ claims' \in [Entities -> Tests \cup {NoTest}] /\ rejections' \in SUBSET Entities
        /\ handed' \subseteq Tests \X Entities /\ HandedIsClaimed'
    BY <2>1, <2>2 DEF AllocationInv, AllocationTypeOK, HandedIsClaimed
  <2> QED
    BY <2>1, <2>3, <2>5, <2>6, OnePick
<1>7. ASSUME NEW w \in Workers, Suits(w) PROVE AllocationInv'
  <2> DEFINE p == picking[w]
             new == [p EXCEPT !.phase = "claim"]
  <2>1. /\ p.phase = "try" /\ p.left # << >> /\ UNCHANGED << files, handed >>
        /\ picking' = [picking EXCEPT ![w] = new]
    BY <1>7, <1>t DEF Suits
  <2>2. /\ new \in Picking /\ new.left = p.left /\ new.phase = "claim"
        /\ new.test = p.test /\ new.unfit = p.unfit
    BY <1>t DEF Picking, Phases
  <2>3. picking'[w] = new
    BY <1>t, <2>1
  <2>4. Considers(w)'
    <3> HIDE DEF new
    <3> QED
      BY <1>c, <2>1, <2>2, <2>3 DEF Considers, Taken, files
  <2> QED
    BY <2>1, <2>2, <2>4, SearchStep
<1>8. ASSUME NEW w \in Workers, picking[w].phase \in {"claim", "create"},
             Candidate(w) \in rejections \/ claims[Candidate(w)] # NoTest,
             picking' = Lost(w), UNCHANGED << files, handed >>
      PROVE  AllocationInv'
  <2> DEFINE p == picking[w]
             new == [p EXCEPT !.phase = "try", !.left = Tail(p.left)]
  <2>1. picking' = [picking EXCEPT ![w] = new]
    BY <1>8, <1>t DEF Lost, NextOne
  <2>2. /\ p \in Picking /\ p.left # << >>
        /\ Candidate(w) \in Entities /\ Tail(p.left) \in Seq(Entities)
        /\ Range(p.left) = Range(Tail(p.left)) \cup {Candidate(w)}
    BY <1>t, <1>l, <1>c, <1>8, RangeOfTail DEF Candidate, Considers
  <2>3. /\ new \in Picking /\ new.left = Tail(p.left) /\ new.phase = "try"
        /\ new.test = p.test /\ new.unfit = p.unfit
    BY <2>2 DEF Picking, Phases
  <2>4. picking'[w] = new
    BY <1>t, <2>1
  <2>5. Considers(w)'
    <3> HIDE DEF new
    <3> QED
      BY <1>c, <1>8, <2>2, <2>3, <2>4 DEF Considers, Taken, files
  <2> QED
    BY <1>8, <2>1, <2>3, <2>5, SearchStep
<1>9. ASSUME NEW w \in Workers, CheckRejected(w) PROVE AllocationInv'
  <2>1. CASE Candidate(w) \in rejections
    BY <1>8, <1>9, <2>1 DEF CheckRejected
  <2>2. CASE Candidate(w) \notin rejections
    <3> DEFINE p == picking[w]
               new == [p EXCEPT !.phase = "create"]
    <3>1. /\ p.phase = "claim" /\ UNCHANGED << files, handed >>
          /\ picking' = [picking EXCEPT ![w] = new]
      BY <1>9, <2>2, <1>t DEF CheckRejected
    <3>2. /\ new \in Picking /\ new.left = p.left /\ new.phase = "create"
          /\ new.test = p.test /\ new.unfit = p.unfit
      BY <1>t DEF Picking, Phases
    <3>3. picking'[w] = new
      BY <1>t, <3>1
    <3>4. Considers(w)'
      <4> HIDE DEF new
      <4> QED
        BY <1>c, <3>1, <3>2, <3>3 DEF Considers, Taken, files
    <3> QED
      BY <3>1, <3>2, <3>4, SearchStep
  <2> QED
    BY <2>1, <2>2
<1>10. ASSUME NEW w \in Workers, Claim(w) PROVE AllocationInv'
  <2>1. CASE ~ Creates(Candidate(w))
    BY <1>8, <1>10, <2>1 DEF Claim, Creates, files
  <2>2. CASE Creates(Candidate(w))
    <3> DEFINE p == picking[w]
               e == Candidate(w)
               new == [p EXCEPT !.phase = "done", !.got = e]
    <3>1. /\ p.phase = "create" /\ claims[e] = NoTest
          /\ claims' = [claims EXCEPT ![e] = p.test] /\ UNCHANGED rejections
          /\ handed' = handed \cup { << p.test, e >> }
          /\ picking' = [picking EXCEPT ![w] = new]
      BY <1>10, <2>2, <1>t DEF Claim, Creates
    <3>2. p \in Picking /\ e \in Entities /\ e # NoEntity /\ p.test \in Tests /\ p.test # NoTest
      BY <1>t, <1>l, <1>c, <3>1, RangeOfTail, AllocationAssumption DEF Candidate, Considers
    <3>3. /\ new \in Picking /\ new.phase = "done" /\ new.got = e /\ new.test = p.test
      BY <3>2 DEF Picking, Phases
    <3>4. picking'[w] = new
      BY <1>t, <3>1
    <3> HIDE DEF new, e
    <3>5. Considers(w)'
      BY <3>2, <3>3, <3>4 DEF Considers
    <3>6. /\ claims' \in [Entities -> Tests \cup {NoTest}] /\ rejections' \in SUBSET Entities
          /\ \A f \in Entities : claims[f] # NoTest => claims'[f] # NoTest
          /\ handed' \subseteq Tests \X Entities
      BY <3>1, <3>2 DEF AllocationInv, AllocationTypeOK
    <3>7. HandedIsClaimed'
      <4>1. \A q \in handed : q[1] \in Tests /\ q[2] \in Entities /\ claims[q[2]] = q[1]
        BY DEF AllocationInv, AllocationTypeOK, HandedIsClaimed
      <4>2. \A q \in handed : q[2] # e
        BY <4>1, <3>1, AllocationAssumption
      <4>3. claims'[e] = p.test /\ \A f \in Entities \ {e} : claims'[f] = claims[f]
        BY <3>1, <3>2 DEF AllocationInv, AllocationTypeOK
      <4> QED
        BY <3>1, <4>1, <4>2, <4>3 DEF HandedIsClaimed
    <3> QED
      BY <3>1, <3>3, <3>5, <3>6, <3>7, OnePick
  <2> QED
    BY <2>1, <2>2
<1>11. ASSUME NEW w \in Workers, Refuse(w) PROVE AllocationInv'
  <2> DEFINE p == picking[w]
             new == [p EXCEPT !.phase = "done"]
  <2>1. /\ p.phase = "try" /\ Range(p.left) = {} /\ UNCHANGED << files, handed >>
        /\ picking' = [picking EXCEPT ![w] = new]
    BY <1>11, <1>t, <1>l, RangeIn DEF Refuse
  <2>2. new \in Picking /\ new.phase = "done" /\ new.test = p.test /\ new.unfit = p.unfit
    BY <1>t DEF Picking, Phases
  <2>3. picking'[w] = new
    BY <1>t, <2>1
  <2>4. Considers(w)'
    <3> HIDE DEF new
    <3> QED
      BY <1>c, <2>1, <2>2, <2>3 DEF Considers, Taken, files
  <2> QED
    BY <2>1, <2>2, <2>4, SearchStep
<1>12. CASE UNCHANGED allocationVars
  BY <1>12 DEF allocationVars, AllocationInv, AllocationTypeOK, HandedIsClaimed, Considers, Taken
<1> QED
  BY <1>1, <1>2, <1>3, <1>4, <1>5, <1>6, <1>7, <1>9, <1>10, <1>11, <1>12
     DEF AllocationNext, AllocationStep

LEMMA AllocationInvariant == AllocationSpec => []AllocationInv
  BY AllocationStarts, AllocationKept, PTL DEF AllocationSpec

-----------------------------------------------------------------------------
(* A run in workers. *)

LEMMA RunAllocates == Spec => AllocationSpec
<1>1. Init => AllocationInit
  BY DEF Init
<1>2. [Next]_vars => [AllocationNext]_allocationVars
  <2> SUFFICES ASSUME [Next]_vars PROVE [AllocationNext]_allocationVars
    OBVIOUS
  <2>1. ASSUME NEW w \in Workers, NEW t \in Tests, Begin(w, t) PROVE AllocationNext
    BY <2>1 DEF Begin, AllocationNext
  <2>2. ASSUME NEW w \in Workers, Acquire(w) \/ End(w) \/ Die(w) PROVE AllocationNext
    BY <2>2 DEF Acquire, End, Die, AllocationNext
  <2>3. ASSUME NEW w \in Workers,
               \/ \E t \in Tests : Skip(w, t)
               \/ \E m \in Methods : Calls(w, m)
               \/ Travels(w) \/ Returns(w) \/ Shares(w)
        PROVE  UNCHANGED allocationVars
    BY <2>3 DEF Skip, Calls, Travels, Returns, Shares
  <2>4. CASE UNCHANGED vars
    BY <2>4 DEF vars
  <2> QED
    BY <2>1, <2>2, <2>3, <2>4 DEF Next
<1> QED
  BY <1>1, <1>2, PTL DEF Spec, AllocationSpec

LEMMA RunTrips == Spec => BreakerSpec
<1>1. Init => BreakerInit
  BY DEF Init
<1>2. [Next]_vars => [BreakerNext]_breakerVars
  <2> SUFFICES ASSUME [Next]_vars PROVE [BreakerNext]_breakerVars
    OBVIOUS
  <2>1. ASSUME NEW w \in Workers, NEW t \in Tests, Skip(w, t) PROVE BreakerNext
    BY <2>1 DEF Skip, BreakerNext
  <2>2. ASSUME NEW w \in Workers, Returns(w) PROVE [BreakerNext]_breakerVars
    <3>1. CASE \E answer \in Answers : Record(w, answer)
      BY <3>1 DEF BreakerNext
    <3> QED
      BY <2>2, <3>1 DEF Returns
  <2>3. ASSUME NEW w \in Workers, Shares(w) \/ Die(w) PROVE BreakerNext
    BY <2>3 DEF Shares, Die, BreakerNext
  <2>4. ASSUME NEW w \in Workers,
               \/ \E t \in Tests : Begin(w, t)
               \/ \E m \in Methods : Calls(w, m)
               \/ Acquire(w) \/ Travels(w) \/ End(w)
        PROVE  UNCHANGED breakerVars
    BY <2>4 DEF Begin, Calls, Acquire, Travels, End
  <2>5. CASE UNCHANGED vars
    BY <2>5 DEF vars
  <2> QED
    BY <2>1, <2>2, <2>3, <2>4, <2>5 DEF Next
<1> QED
  BY <1>1, <1>2, PTL DEF Spec, BreakerSpec

LEMMA RunResends == Spec => ResendSpec
<1>1. Init => ResendInit
  BY DEF Init
<1>2. [Next]_vars => [ResendNext]_call
  <2> SUFFICES ASSUME [Next]_vars PROVE [ResendNext]_call
    OBVIOUS
  <2>1. ASSUME NEW w \in Workers, NEW m \in Methods, Calls(w, m) PROVE ResendNext
    BY <2>1 DEF Calls, ResendNext
  <2>2. ASSUME NEW w \in Workers, Travels(w) \/ Returns(w) \/ Die(w) PROVE ResendNext
    BY <2>2 DEF Travels, Returns, Die, ResendNext
  <2>3. ASSUME NEW w \in Workers,
               \/ \E t \in Tests : Skip(w, t) \/ Begin(w, t)
               \/ Acquire(w) \/ Shares(w) \/ End(w)
        PROVE  UNCHANGED call
    BY <2>3 DEF Skip, Begin, Acquire, Shares, End
  <2>4. CASE UNCHANGED vars
    BY <2>4 DEF vars
  <2> QED
    BY <2>1, <2>2, <2>3, <2>4 DEF Next
<1> QED
  BY <1>1, <1>2, PTL DEF Spec, ResendSpec

\* What the workers of a run do is, seen by itself, an allocation, a breaker and calls: skipping,
\* dying and ending a test keep to each of them.
THEOREM WorkersImplement == Spec => AllocationSpec /\ BreakerSpec /\ ResendSpec
  BY RunAllocates, RunTrips, RunResends, PTL

\* The breakers, the calls and the searches keep their types, in any run.
THEOREM TypesCorrect == Spec => [](AllocationTypeOK /\ BreakerTypeOK /\ ResendTypeOK)
<1>1. AllocationInv /\ BreakerInv /\ ResendInv => AllocationTypeOK /\ BreakerTypeOK /\ ResendTypeOK
  BY DEF AllocationInv, BreakerInv, ResendInv
<1>2. BreakerSpec => []BreakerInv
  BY BreakerStarts, BreakerStep, PTL DEF BreakerSpec
<1> QED
  BY <1>1, <1>2, AllocationInvariant, ResendInvariant, RunAllocates, RunTrips, RunResends, PTL

\* Two workers never hand out one entity, nor one worker twice, whoever died with it.
THEOREM EntitiesAreClaimedOnce == Spec => []ClaimedOnce
<1>1. AllocationInv => ClaimedOnce
  BY DEF AllocationInv, AllocationTypeOK, HandedIsClaimed, ClaimedOnce
<1> QED
  BY <1>1, AllocationInvariant, RunAllocates, PTL

\* A test is refused an entity only when each of them is claimed, set aside or unfit for it.
THEOREM NoEntityStaysIdle == Spec => []NothingIdle
<1>1. AllocationInv => NothingIdle
  BY DEF AllocationInv, Considers, Taken, NothingIdle
<1> QED
  BY <1>1, AllocationInvariant, RunAllocates, PTL

\* One server error stops every worker that can read the file: as soon as the worker that met it
\* is done with it, unless another is just writing, or one left the file empty, or this one could
\* make no file at all.
THEOREM ErrorStopsAll == Spec => []TripIsShared
  BY TripsAreShared, RunTrips, PTL

\* No write leaves the browser twice, except for a gateway's answer to a write the server
\* deduplicates.
THEOREM WritesLeaveOnce == Spec => []WritesSentOnce
  BY WritesAreSentOnce, RunResends, PTL

-----------------------------------------------------------------------------
(* The shards: the plan of one machine. *)

\* What is known of a view.
LEMMA ViewFacts ==
  ASSUME NEW v \in Views
  PROVE  /\ IsFiniteSet(v.collected) /\ v.collected \subseteq NodeIds
         /\ \A t \in DOMAIN v.durations : v.durations[t] \in Int
<1>1. v.collected \in SUBSET NodeIds /\ v.durations \in [DOMAIN v.durations -> Int] /\ IsFiniteSet(NodeIds)
  BY ShardsAssumption
<1> QED
  BY <1>1, FS_Subset

LEMMA MedianIsInteger == ASSUME NEW v \in Views PROVE Median2(v) \in Int
<1> DEFINE known == {t \in v.collected \cap DOMAIN v.durations : v.durations[t] >= 0}
           n == Cardinality(known)
           d == [t \in known |-> v.durations[t]]
           values == {d[t] : t \in known}
           Rank(t) == Cardinality({s \in known : v.durations[s] <= v.durations[t]})
           Above(i) == {v.durations[t] : t \in {s \in known : Rank(s) >= i}}
<1>1. IsFiniteSet(known) /\ n \in Nat /\ \A t \in known : v.durations[t] \in Int
  BY ViewFacts, FS_Subset, FS_CardinalityType
<1>2. IsFiniteSet(values) /\ values \in SUBSET Int
  BY <1>1, Values
<1>3. ASSUME NEW i \in Nat, i <= n, n # 0 PROVE Min(Above(i)) \in Int
  <2>1. known # {}
    BY <1>3, FS_EmptySet
  <2>2. PICK t \in known : \A s \in known : v.durations[s] <= v.durations[t]
    <3>1. values # {}
      BY <2>1
    <3>2. PICK x \in values : \A y \in values : x >= y
      BY <1>2, <3>1, Extremes
    <3> QED
      BY <3>2, <1>1
  <2>3. {s \in known : v.durations[s] <= v.durations[t]} = known
    BY <2>2
  <2>4. Rank(t) >= i
    BY <2>3, <1>3, <1>1
  <2>5. Above(i) # {}
    BY <2>4
  <2>6. Above(i) \in SUBSET values
    OBVIOUS
  <2>7. IsFiniteSet(Above(i))
    BY <2>6, <1>2, FS_Subset
  <2>8. Above(i) \in SUBSET Int
    BY <1>1
  <2> HIDE DEF Above
  <2> QED
    BY <2>5, <2>7, <2>8, MaxAndMin
<1>4. n # 0 => (n + 1) \div 2 \in Nat /\ (n + 1) \div 2 <= n /\ (n + 2) \div 2 \in Nat /\ (n + 2) \div 2 <= n
  BY <1>1
<1>5. Median2(v) = IF n = 0 THEN 0 ELSE Min(Above((n + 1) \div 2)) + Min(Above((n + 2) \div 2))
  BY DEF Median2
<1> HIDE DEF Above, n
<1> QED
  BY <1>3, <1>4, <1>5

LEMMA WeightIsInteger ==
  ASSUME NEW v \in Views, NEW u, u \in SUBSET v.collected
  PROVE  UnitWeight(v, u) \in Int
<1>1. \A t \in v.collected : Weights(v)[t] \in Int
  BY ViewFacts, MedianIsInteger DEF Weights
<1>2. IsFiniteSet(u)
  BY ViewFacts, FS_Subset
<1> QED
  BY <1>1, <1>2, SumIsInteger DEF UnitWeight

\* The units split what is collected into finitely many sets.
LEMMA UnitFacts ==
  ASSUME NEW v \in Views
  PROVE  /\ IsFiniteSet(Units(v))
         /\ \A u \in Units(v) : u \in SUBSET v.collected /\ u # {}
         /\ \A u, w \in Units(v) : u # w => u \cap w = {}
         /\ \A t \in v.collected : \E u \in Units(v) : t \in u
         /\ v.collected \cap Pinned # {} => v.collected \cap Pinned \in Units(v)
<1> DEFINE alone == v.collected \ Pinned
           f == [t \in alone |-> {t}]
           singles == {f[t] : t \in alone}
           together == IF v.collected \cap Pinned = {} THEN {} ELSE {v.collected \cap Pinned}
<1>1. IsFiniteSet(singles)
  <2>1. IsFiniteSet(alone)
    BY ViewFacts, FS_Subset
  <2>2. f = [t \in alone |-> f[t]]
    OBVIOUS
  <2> HIDE DEF f, alone
  <2> QED
    BY <2>1, <2>2, Values
<1>2. IsFiniteSet(together)
  BY FS_EmptySet, FS_Singleton
<1>3. Units(v) = singles \cup together
  BY DEF Units
<1>4. IsFiniteSet(Units(v))
  <2> HIDE DEF singles, together
  <2>1. IsFiniteSet(singles \cup together)
    BY <1>1, <1>2, FS_Union
  <2> QED
    BY <2>1, <1>3
<1> QED
  BY <1>4 DEF Units

LEMMA KeyIsInteger ==
  ASSUME NEW v \in Views, NEW u \in Units(v), NEW k PROVE Key(k, u) \in Int
<1>1. u # {} /\ u \in SUBSET NodeIds
  BY UnitFacts, ViewFacts
<1>2. (CHOOSE t \in u : TRUE) \in NodeIds
  BY <1>1
<1> QED
  BY <1>2, ShardsAssumption DEF Key

\* The plan never runs out of a next unit.
LEMMA FirstIsLeft ==
  ASSUME NEW v \in Views, NEW k, NEW units \in SUBSET Units(v), units # {}
  PROVE  First(k, v, units) \in units
<1> DEFINE weight == [u \in units |-> UnitWeight(v, u)]
           weights == {weight[u] : u \in units}
           most == Max(weights)
           longest == {u \in units : weight[u] = most}
           key == [u \in longest |-> Key(k, u)]
           keys == {key[u] : u \in longest}
           least == Min(keys)
<1>1. IsFiniteSet(units)
  BY UnitFacts, FS_Subset
<1>2. weights \in SUBSET Int /\ weights # {} /\ IsFiniteSet(weights)
  <2>1. \A u \in units : weight[u] \in Int
    BY UnitFacts, WeightIsInteger
  <2>2. IsFiniteSet(weights)
    BY <1>1, Values
  <2> QED
    BY <2>1, <2>2
<1>3. most \in weights
  <2> HIDE DEF weights
  <2> QED
    BY <1>2, MaxAndMin
<1>4. longest # {}
  <2> HIDE DEF most
  <2> QED
    BY <1>3
<1>5. longest \in SUBSET units
  OBVIOUS
<1>6. keys \in SUBSET Int /\ keys # {} /\ IsFiniteSet(keys)
  <2> HIDE DEF longest
  <2>1. \A u \in longest : key[u] \in Int
    BY <1>5, KeyIsInteger
  <2>2. IsFiniteSet(longest)
    BY <1>1, <1>5, FS_Subset
  <2>3. IsFiniteSet(keys)
    BY <2>2, Values
  <2> QED
    BY <1>4, <2>1, <2>3
<1>7. least \in keys
  <2> HIDE DEF keys
  <2> QED
    BY <1>6, MaxAndMin
<1>8. \E u \in longest : Key(k, u) = least
  <2> HIDE DEF longest, least
  <2> QED
    BY <1>7
<1>9. First(k, v, units) = CHOOSE u \in longest : Key(k, u) = least
  <2>1. /\ {UnitWeight(v, u) : u \in units} = weights
        /\ {u \in units : UnitWeight(v, u) = most} = longest
        /\ {Key(k, u) : u \in longest} = keys
    <3> HIDE DEF most
    <3> QED
      OBVIOUS
  <2> QED
    BY <2>1 DEF First
<1> HIDE DEF longest, least
<1> QED
  BY <1>5, <1>8, <1>9

\* A plan under way: the shards and the units left hold every test once, and a unit that was
\* placed is on one shard.
Divided(v, p) ==
  /\ p.left \in SUBSET Units(v)
  /\ p.bins \in [Shards -> SUBSET v.collected]
  /\ p.load \in [Shards -> Int]
  /\ \A t \in v.collected : (\E i \in Shards : t \in p.bins[i]) \/ (\E u \in p.left : t \in u)
  /\ \A i, j \in Shards : i # j => p.bins[i] \cap p.bins[j] = {}
  /\ \A i \in Shards : \A u \in p.left : p.bins[i] \cap u = {}
  /\ \A u \in Units(v) \ p.left : \E i \in Shards : u \subseteq p.bins[i]

LEMMA PlanStarts ==
  ASSUME NEW v \in Views
  PROVE  Divided(v, [left |-> Units(v), bins |-> [j \in Shards |-> {}], load |-> [j \in Shards |-> 0]])
<1> DEFINE p == [left |-> Units(v), bins |-> [j \in Shards |-> {}], load |-> [j \in Shards |-> 0]]
<1>1. p.left = Units(v) /\ p.bins = [j \in Shards |-> {}] /\ p.load = [j \in Shards |-> 0]
  OBVIOUS
<1> HIDE DEF p
<1>2. \A i \in Shards : p.bins[i] = {}
  BY <1>1
<1>3. p.bins \in [Shards -> SUBSET v.collected] /\ p.load \in [Shards -> Int]
  BY <1>1
<1>4. ASSUME NEW t \in v.collected PROVE \E u \in p.left : t \in u
  <2>1. PICK u \in Units(v) : t \in u
    BY UnitFacts
  <2> QED
    BY <1>1, <2>1
<1>5. \A u \in Units(v) \ p.left : \E i \in Shards : u \subseteq p.bins[i]
  BY <1>1
<1>6. p.left \in SUBSET Units(v)
  BY <1>1
<1>7. Divided(v, p)
  BY <1>2, <1>3, <1>4, <1>5, <1>6 DEF Divided
<1> QED
  BY <1>7 DEF p

LEMMA PlaceDivides ==
  ASSUME NEW v \in Views, NEW k, NEW p, Divided(v, p), p.left # {}
  PROVE  /\ Divided(v, Place(k, v, p))
         /\ Cardinality(Place(k, v, p).left) = Cardinality(p.left) - 1
<1> DEFINE u == First(k, v, p.left)
           load == [i \in Shards |-> p.load[i]]
           loads == {load[i] : i \in Shards}
           least == Min(loads)
           lightest == {i \in Shards : p.load[i] = least}
           to == Min(lightest)
           q == Place(k, v, p)
<1>1. u \in p.left /\ u \in Units(v) /\ u \in SUBSET v.collected /\ UnitWeight(v, u) \in Int
  <2> HIDE DEF u
  <2>1. p.left \in SUBSET Units(v)
    BY DEF Divided
  <2>2. u \in p.left
    BY <2>1, FirstIsLeft DEF u
  <2>3. u \in Units(v) /\ u \in SUBSET v.collected
    BY <2>1, <2>2, UnitFacts
  <2> QED
    BY <2>2, <2>3, WeightIsInteger
<1>2. to \in Shards
  <2>1. IsFiniteSet(Shards) /\ Shards \in SUBSET Int /\ Shards # {}
    <3>1. Count \in Nat /\ Count >= 1
      BY ShardsAssumption
    <3>2. IsFiniteSet(1 .. Count)
      BY <3>1, FS_Interval
    <3>3. 1 \in 1 .. Count
      BY <3>1
    <3> QED
      BY <3>1, <3>2, <3>3 DEF Shards
  <2>2. loads \in SUBSET Int /\ loads # {}
    <3>1. \A i \in Shards : load[i] \in Int
      BY DEF Divided
    <3> HIDE DEF load
    <3> QED
      BY <2>1, <3>1
  <2>3. IsFiniteSet(loads)
    BY <2>1, Values
  <2>4. least \in loads
    <3> HIDE DEF loads
    <3> QED
      BY <2>2, <2>3, MaxAndMin
  <2>5. lightest # {}
    <3> HIDE DEF least
    <3> QED
      BY <2>4
  <2>6. IsFiniteSet(lightest) /\ lightest \in SUBSET Int
    <3> HIDE DEF least
    <3> QED
      BY <2>1, FS_Subset
  <2> HIDE DEF lightest
  <2>7. to \in lightest
    BY <2>5, <2>6, MaxAndMin
  <2> QED
    BY <2>7 DEF lightest
<1>3. /\ q.left = p.left \ {u}
      /\ q.bins = [p.bins EXCEPT ![to] = p.bins[to] \cup u]
      /\ q.load = [p.load EXCEPT ![to] = p.load[to] + UnitWeight(v, u)]
  <2>1. loads = {p.load[i] : i \in Shards}
    OBVIOUS
  <2> HIDE DEF loads
  <2> QED
    BY <2>1, <1>2 DEF Place, Divided
<1> HIDE DEF u, to, q
<1>4. Cardinality(q.left) = Cardinality(p.left) - 1
  <2>1. IsFiniteSet(p.left)
    BY UnitFacts, FS_Subset DEF Divided
  <2> QED
    BY <2>1, <1>1, <1>3, FS_RemoveElement
<1>5. /\ q.left \in SUBSET Units(v)
      /\ q.bins \in [Shards -> SUBSET v.collected]
      /\ q.load \in [Shards -> Int]
  BY <1>1, <1>2, <1>3 DEF Divided
<1>6. \A i \in Shards : q.bins[i] = IF i = to THEN p.bins[to] \cup u ELSE p.bins[i]
  BY <1>2, <1>3 DEF Divided
<1>7. \A t \in v.collected : (\E i \in Shards : t \in q.bins[i]) \/ (\E w \in q.left : t \in w)
  <2> SUFFICES ASSUME NEW t \in v.collected, \A i \in Shards : t \notin q.bins[i]
               PROVE  \E w \in q.left : t \in w
    OBVIOUS
  <2>1. t \notin u /\ \A i \in Shards : t \notin p.bins[i]
    BY <1>2, <1>6
  <2>2. \E w \in p.left : t \in w
    BY <2>1 DEF Divided
  <2> QED
    BY <2>1, <2>2, <1>3
<1>8. \A i, j \in Shards : i # j => q.bins[i] \cap q.bins[j] = {}
  BY <1>1, <1>2, <1>6 DEF Divided
<1>9. \A i \in Shards : \A w \in q.left : q.bins[i] \cap w = {}
  <2> SUFFICES ASSUME NEW i \in Shards, NEW w \in q.left PROVE q.bins[i] \cap w = {}
    OBVIOUS
  <2>1. w \in p.left /\ w # u /\ w \in Units(v)
    BY <1>3 DEF Divided
  <2>2. u \cap w = {}
    BY <2>1, <1>1, UnitFacts
  <2> QED
    BY <2>1, <2>2, <1>2, <1>6 DEF Divided
<1>10. \A w \in Units(v) \ q.left : \E i \in Shards : w \subseteq q.bins[i]
  <2> SUFFICES ASSUME NEW w \in Units(v) \ q.left PROVE \E i \in Shards : w \subseteq q.bins[i]
    OBVIOUS
  <2>1. CASE w = u
    BY <2>1, <1>2, <1>6
  <2>2. CASE w # u
    <3>1. PICK i \in Shards : w \subseteq p.bins[i]
      BY <2>2, <1>3 DEF Divided
    <3>2. w \subseteq q.bins[i]
      BY <3>1, <1>6
    <3> QED
      BY <3>2
  <2> QED
    BY <2>1, <2>2
<1>11. Divided(v, q)
  BY <1>5, <1>7, <1>8, <1>9, <1>10 DEF Divided
<1> QED
  BY <1>4, <1>11 DEF q

\* The plan of a view is a partition of what it collects that keeps the units together.
LEMMA PlanDivides ==
  ASSUME NEW v \in Views, NEW k
  PROVE  \E p : Divided(v, p) /\ p.left = {} /\ Plan(k, v) = p.bins
<1> DEFINE n == Cardinality(Units(v))
           start == [left |-> Units(v), bins |-> [j \in Shards |-> {}], load |-> [j \in Shards |-> 0]]
           Fits(g, m) == g = [i \in 0 .. m |-> IF i = 0 THEN start ELSE Place(k, v, g[i - 1])]
           placed == CHOOSE g : Fits(g, n)
           Without == {m \in Nat : ~ \E g : Fits(g, m)}
<1>1. Plan(k, v) = placed[n].bins
  BY DEF Plan
<1>2. n \in Nat /\ IsFiniteSet(Units(v))
  BY UnitFacts, FS_CardinalityType
<1>3. Divided(v, start) /\ start.left = Units(v)
  BY PlanStarts
<1> HIDE DEF start, n
<1>4. Without = {}
  <2>1. SUFFICES ASSUME Without # {} PROVE FALSE
    OBVIOUS
  <2>2. Without \in SUBSET Nat
    OBVIOUS
  <2>3. PICK m \in Without : \A l \in Without : m <= l
    <3> HIDE DEF Without
    <3> QED
      BY <2>1, <2>2, LeastNumber
  <2>4. CASE m = 0
    <3>1. Fits([i \in 0 .. 0 |-> start], 0)
      OBVIOUS
    <3> QED
      BY <2>3, <2>4, <3>1
  <2>5. CASE m # 0
    <3>1. m \in Nat /\ m - 1 \in Nat
      BY <2>3, <2>5
    <3>2. m - 1 \notin Without
      <4> HIDE DEF Without
      <4> QED
        BY <2>3, <3>1
    <3>3. PICK g : Fits(g, m - 1)
      BY <3>1, <3>2
    <3> DEFINE h == [i \in 0 .. m |-> IF i = m THEN Place(k, v, g[m - 1]) ELSE g[i]]
    <3>4. \A i \in 0 .. m - 1 : g[i] = IF i = 0 THEN start ELSE Place(k, v, g[i - 1])
      BY <3>3
    <3>5. ASSUME NEW i \in 0 .. m PROVE h[i] = IF i = 0 THEN start ELSE Place(k, v, h[i - 1])
      <4>1. CASE i = m
        BY <4>1, <3>1, <2>5
      <4>2. CASE i # m
        <5>1. i \in 0 .. m - 1 /\ h[i] = g[i]
          BY <4>2, <3>1
        <5>2. i # 0 => h[i - 1] = g[i - 1]
          BY <4>2, <3>1
        <5> QED
          BY <5>1, <5>2, <3>4
      <4> QED
        BY <4>1, <4>2
    <3>6. h = [i \in 0 .. m |-> IF i = 0 THEN start ELSE Place(k, v, h[i - 1])]
      <4> HIDE DEF h
      <4>1. h = [i \in 0 .. m |-> h[i]]
        BY DEF h
      <4> QED
        BY <4>1, <3>5
    <3>7. Fits(h, m)
      BY <3>6
    <3> QED
      BY <2>3, <3>7
  <2> QED
    BY <2>4, <2>5
<1>5. Fits(placed, n)
  BY <1>2, <1>4
<1>6. \A i \in 0 .. n : placed[i] = IF i = 0 THEN start ELSE Place(k, v, placed[i - 1])
  BY <1>5
<1> HIDE DEF placed
<1> DEFINE Good(i) == Divided(v, placed[i]) /\ Cardinality(placed[i].left) = n - i
           Bad == {i \in 0 .. n : ~ Good(i)}
<1>7. Bad = {}
  <2>1. SUFFICES ASSUME Bad # {} PROVE FALSE
    OBVIOUS
  <2>2. Bad \in SUBSET Nat
    BY <1>2
  <2>3. PICK i \in Bad : \A l \in Bad : i <= l
    <3> HIDE DEF Bad
    <3> QED
      BY <2>1, <2>2, LeastNumber
  <2>4. i # 0
    BY <2>3, <1>2, <1>3, <1>6 DEF n
  <2>5. i - 1 \in 0 .. n /\ i \in 0 .. n
    BY <2>3, <2>4, <1>2
  <2>6. i - 1 \notin Bad
    <3> HIDE DEF Bad
    <3> QED
      BY <2>3, <2>5, <1>2
  <2>7. Good(i - 1)
    BY <2>5, <2>6
  <2>8. placed[i] = Place(k, v, placed[i - 1])
    BY <1>6, <2>4, <2>5
  <2>9. placed[i - 1].left # {}
    <3>1. Cardinality(placed[i - 1].left) # 0
      BY <2>5, <2>7, <1>2
    <3> QED
      BY <3>1, FS_EmptySet
  <2>10. /\ Divided(v, Place(k, v, placed[i - 1]))
         /\ Cardinality(Place(k, v, placed[i - 1]).left) = Cardinality(placed[i - 1].left) - 1
    BY <2>7, <2>9, PlaceDivides
  <2>11. Good(i)
    BY <2>5, <2>7, <2>8, <2>10, <1>2
  <2> QED
    BY <2>3, <2>11
<1>8. Good(n)
  BY <1>2, <1>7
<1>9. placed[n].left = {}
  <2>1. IsFiniteSet(placed[n].left)
    BY <1>2, <1>8, FS_Subset DEF Divided
  <2> QED
    BY <2>1, <1>2, <1>8, FS_EmptySet
<1> QED
  BY <1>1, <1>8, <1>9

\* Machines that see the same plan the same: nothing in a plan but the view says whose it is.
LEMMA SameView == ASSUME NEW j, NEW k, NEW v PROVE Plan(j, v) = Plan(k, v)
  BY DEF Plan, Place, First, Key

-----------------------------------------------------------------------------
(* The shards: the machines and the merge. *)

\* The manifests are what the machines did: one of the selection says what its machine collects
\* and plans for itself, one of the execution is the last word of a machine that ended.
Manifested ==
  /\ \A k \in Shards : phase[k] \in {"running", "ended"} => k \in Selected
  /\ \A k \in Selected : /\ phase[k] # "start"
                          /\ selects[k].collected = view[k].collected
                          /\ selects[k].selected = Plan(k, view[k])[k]
  /\ \A k \in Reported : phase[k] = "ended" /\ reports[k] = executed[k]

ShardsInv == ShardsTypeOK /\ Manifested /\ CompleteIsWhole

LEMMA ShardsStart == ShardsInit => ShardsInv
<1> SUFFICES ASSUME ShardsInit PROVE ShardsInv
  OBVIOUS
<1>1. Selected = {} /\ Reported = {}
  BY DEF ShardsInit, Selected, Reported
<1>2. ShardsTypeOK
  BY <1>1 DEF ShardsInit, ShardsTypeOK, Selected, Reported
<1>3. Manifested
  BY <1>1 DEF ShardsInit, Manifested
<1>4. CompleteIsWhole
  BY DEF ShardsInit, CompleteIsWhole
<1> QED
  BY <1>2, <1>3, <1>4 DEF ShardsInv

\* Once the merge said complete, every machine has ended and no step of one is left.
LEMMA Settled == ASSUME ShardsInv, merged = "complete" PROVE \A k \in Shards : phase[k] = "ended"
  BY DEF ShardsInv, CompleteIsWhole

LEMMA ShardsStep == ShardsInv /\ [ShardsNext]_shardsVars => ShardsInv'
<1> SUFFICES ASSUME ShardsInv, [ShardsNext]_shardsVars PROVE ShardsInv'
  OBVIOUS
<1>t. ShardsTypeOK /\ Manifested /\ CompleteIsWhole
  BY DEF ShardsInv
<1>1. ASSUME NEW k \in Shards, Collect(k) PROVE ShardsInv'
  <2> DEFINE manifest == [collected |-> view[k].collected, selected |-> Plan(k, view[k])[k]]
  <2>1. manifest.collected = view[k].collected /\ manifest.selected = Plan(k, view[k])[k]
    OBVIOUS
  <2> HIDE DEF manifest
  <2>2. /\ phase[k] = "start" /\ phase' = [phase EXCEPT ![k] = "running"]
        /\ selects' = Written(selects, k, manifest)
        /\ UNCHANGED << view, executed, reports, merged >>
    BY <1>1 DEF Collect, manifest
  <2>3. /\ DOMAIN selects' = DOMAIN selects \cup {k}
        /\ selects'[k] = manifest
        /\ \A j \in DOMAIN selects \ {k} : selects'[j] = selects[j]
    <3>1. /\ DOMAIN Written(selects, k, manifest) = DOMAIN selects \cup {k}
          /\ Written(selects, k, manifest)[k] = manifest
          /\ \A j \in DOMAIN selects \ {k} : Written(selects, k, manifest)[j] = selects[j]
      BY DEF Written
    <3> QED
      BY <2>2, <3>1, Zenon
  <2>4. ShardsTypeOK'
    BY <1>t, <2>2, <2>3 DEF ShardsTypeOK
  <2>5. Manifested'
    BY <1>t, <2>1, <2>2, <2>3 DEF ShardsTypeOK, Manifested, Selected, Reported
  <2>6. CompleteIsWhole'
    BY <2>2, Settled DEF CompleteIsWhole
  <2> QED
    BY <2>4, <2>5, <2>6 DEF ShardsInv
<1>2. ASSUME NEW k \in Shards, NEW t \in NodeIds, Report(k, t) PROVE ShardsInv'
  <2>1. /\ phase[k] = "running" /\ executed' = [executed EXCEPT ![k] = executed[k] \cup {t}]
        /\ UNCHANGED << view, phase, selects, reports, merged >>
    BY <1>2, <1>t DEF Report, manifestVars
  <2>2. ShardsTypeOK'
    BY <1>t, <2>1 DEF ShardsTypeOK
  <2>3. Manifested'
    BY <1>t, <2>1 DEF ShardsTypeOK, Manifested, Selected, Reported
  <2>4. CompleteIsWhole'
    BY <2>1, Settled DEF CompleteIsWhole
  <2> QED
    BY <2>2, <2>3, <2>4 DEF ShardsInv
<1>3. ASSUME NEW k \in Shards, Finish(k) PROVE ShardsInv'
  <2>1. /\ phase[k] = "running" /\ phase' = [phase EXCEPT ![k] = "ended"]
        /\ reports' = Written(reports, k, executed[k])
        /\ UNCHANGED << view, executed, selects, merged >>
    BY <1>3 DEF Finish
  <2>2. /\ DOMAIN reports' = DOMAIN reports \cup {k}
        /\ reports'[k] = executed[k]
        /\ \A j \in DOMAIN reports \ {k} : reports'[j] = reports[j]
    <3>1. /\ DOMAIN Written(reports, k, executed[k]) = DOMAIN reports \cup {k}
          /\ Written(reports, k, executed[k])[k] = executed[k]
          /\ \A j \in DOMAIN reports \ {k} : Written(reports, k, executed[k])[j] = reports[j]
      BY DEF Written
    <3> QED
      BY <2>1, <3>1, Zenon
  <2>3. reports' = [j \in DOMAIN reports' |-> reports'[j]]
    BY <2>1, <2>2 DEF Written
  <2>4. ShardsTypeOK'
    BY <1>t, <2>1, <2>2, <2>3 DEF ShardsTypeOK
  <2>5. Manifested'
    BY <1>t, <2>1, <2>2 DEF ShardsTypeOK, Manifested, Selected, Reported
  <2>6. CompleteIsWhole'
    BY <2>1, Settled DEF CompleteIsWhole
  <2> QED
    BY <2>4, <2>5, <2>6 DEF ShardsInv
<1>4. ASSUME NEW k \in Shards, Vanish(k) PROVE ShardsInv'
  <2>1. /\ phase[k] \in {"start", "running"} /\ phase' = [phase EXCEPT ![k] = "dead"]
        /\ UNCHANGED << view, executed, selects, reports, merged >>
    BY <1>4 DEF Vanish, manifestVars
  <2>2. ShardsTypeOK'
    BY <1>t, <2>1 DEF ShardsTypeOK
  <2>3. Manifested'
    BY <1>t, <2>1 DEF ShardsTypeOK, Manifested, Selected, Reported
  <2>4. CompleteIsWhole'
    BY <2>1, Settled DEF CompleteIsWhole
  <2> QED
    BY <2>2, <2>3, <2>4 DEF ShardsInv
<1>5. CASE Merge
  <2>1. ShardsTypeOK'
    BY <1>5, <1>t DEF Merge, ShardsTypeOK, manifestVars
  <2>2. Manifested'
    BY <1>5, <1>t DEF Merge, Manifested, Selected, Reported, manifestVars
  <2>3. CompleteIsWhole'
    <3> SUFFICES ASSUME merged' = "complete", NEW k \in Shards
                 PROVE  /\ phase[k] = "ended"
                        /\ view[k].collected \subseteq UNION {executed[j] : j \in Shards}
                        /\ selects[k].selected \subseteq executed[k]
      BY <1>5 DEF Merge, manifestVars, CompleteIsWhole
    <3>1. Complete
      BY <1>5 DEF Merge
    <3>2. Reported = Shards
      BY <3>1 DEF Complete
    <3>3. \A j \in Shards : phase[j] = "ended" /\ reports[j] = executed[j] /\ j \in Selected
      BY <1>t, <3>2 DEF Manifested
    <3>4. selects[k].selected \subseteq executed[k]
      BY <3>1, <3>2, <3>3 DEF Complete
    <3>5. view[k].collected \subseteq Expected
      BY <1>t, <3>3 DEF Manifested, Expected
    <3>6. Expected \subseteq UNION {executed[j] : j \in Shards}
      BY <3>1, <3>2, <3>3 DEF Complete
    <3> QED
      BY <3>3, <3>4, <3>5, <3>6
  <2> QED
    BY <2>1, <2>2, <2>3 DEF ShardsInv
<1>6. CASE UNCHANGED shardsVars
  BY <1>6, <1>t DEF shardsVars, manifestVars, ShardsInv, ShardsTypeOK, Manifested, Selected, Reported, CompleteIsWhole
<1> QED
  BY <1>1, <1>2, <1>3, <1>4, <1>5, <1>6 DEF ShardsNext

\* The manifests and what the machines do keep their types.
THEOREM ShardsTypeCorrect == ShardsSpec => []ShardsTypeOK
<1>1. ShardsInv => ShardsTypeOK
  BY DEF ShardsInv
<1> QED
  BY <1>1, ShardsStart, ShardsStep, PTL DEF ShardsSpec

\* A merge that says complete has every collected test's result and every machine's last word,
\* also when the machines saw different tests and durations, planned differently, stopped early
\* or died.
THEOREM MergesAreWhole == ShardsSpec => []CompleteIsWhole
<1>1. ShardsInv => CompleteIsWhole
  BY DEF ShardsInv
<1> QED
  BY <1>1, ShardsStart, ShardsStep, PTL DEF ShardsSpec

\* The machines plan apart and divide the tests all the same: those that see the same select no
\* test twice, together they leave none out, and the pinned ones are never split.
THEOREM MachinesAgree == ShardsSpec => []PlansAgree
<1>1. ASSUME ShardsInv PROVE PlansAgree
  <2>t. /\ view \in [Shards -> Views] /\ DOMAIN selects \subseteq Shards
        /\ \A k \in Selected : selects[k].selected = Plan(k, view[k])[k]
    BY <1>1 DEF ShardsInv, ShardsTypeOK, Manifested
  <2>1. \A k \in Selected : k \in Shards /\ view[k] \in Views
    BY <2>t DEF Selected
  <2>2. ASSUME NEW j \in Selected, NEW k \in Selected, j # k, view[j] = view[k]
        PROVE  selects[j].selected \cap selects[k].selected = {}
    <3>1. PICK p : Divided(view[k], p) /\ p.left = {} /\ Plan(k, view[k]) = p.bins
      BY <2>1, PlanDivides
    <3>2. Plan(j, view[j]) = Plan(k, view[k])
      BY <2>2, SameView
    <3>3. selects[j].selected = p.bins[j] /\ selects[k].selected = p.bins[k]
      BY <2>t, <3>1, <3>2
    <3> QED
      BY <2>1, <2>2, <3>1, <3>3 DEF Divided
  <2>3. ASSUME Selected = Shards, \A j, k \in Shards : view[j] = view[k]
        PROVE  UNION {selects[k].selected : k \in Shards} = view[1].collected
    <3>1. 1 \in Shards
      BY ShardsAssumption DEF Shards
    <3>2. PICK p : Divided(view[1], p) /\ p.left = {} /\ Plan(1, view[1]) = p.bins
      BY <2>1, <2>3, <3>1, PlanDivides
    <3>3. \A k \in Shards : selects[k].selected = p.bins[k]
      <4>1. \A k \in Shards : view[k] = view[1]
        BY <2>3, <3>1
      <4>2. \A k \in Shards : Plan(k, view[k]) = p.bins
        BY <3>2, <4>1, SameView
      <4> QED
        BY <2>t, <2>3, <4>2
    <3>4. \A k \in Shards : p.bins[k] \in SUBSET view[1].collected
      BY <3>2 DEF Divided
    <3>5. \A t \in view[1].collected : \E k \in Shards : t \in p.bins[k]
      BY <3>2 DEF Divided
    <3> QED
      BY <3>3, <3>4, <3>5
  <2>4. ASSUME NEW k \in Selected
        PROVE  \/ view[k].collected \cap Pinned \subseteq selects[k].selected
               \/ view[k].collected \cap Pinned \cap selects[k].selected = {}
    <3> DEFINE pinned == view[k].collected \cap Pinned
    <3>1. PICK p : Divided(view[k], p) /\ p.left = {} /\ Plan(k, view[k]) = p.bins
      BY <2>1, PlanDivides
    <3>2. selects[k].selected = p.bins[k]
      BY <2>t, <3>1
    <3>3. CASE pinned = {}
      BY <3>3
    <3>4. CASE pinned # {}
      <4>1. pinned \in Units(view[k]) \ p.left
        BY <2>1, <3>1, <3>4, UnitFacts
      <4>2. PICK i \in Shards : pinned \subseteq p.bins[i]
        BY <3>1, <4>1 DEF Divided
      <4>3. i # k => p.bins[i] \cap p.bins[k] = {}
        BY <2>1, <3>1 DEF Divided
      <4> QED
        BY <3>2, <4>2, <4>3
    <3> QED
      BY <3>3, <3>4
  <2> QED
    BY <2>2, <2>3, <2>4 DEF PlansAgree
<1> QED
  BY <1>1, ShardsStart, ShardsStep, PTL DEF ShardsSpec
=============================================================================
