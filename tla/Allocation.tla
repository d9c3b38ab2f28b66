----------------------------- MODULE Allocation -----------------------------
(***************************************************************************)
(* How the tests of a run, in several worker processes, come to an entity  *)
(* each from one allowlist (test_data/allocator.py): by files that are     *)
(* created once, in a directory they share.                                *)
(*                                                                         *)
(* A file is there as soon as it is created; what is written into it is    *)
(* read only for messages, which are left out, as are the pages of the     *)
(* listing.                                                                *)
(***************************************************************************)
EXTENDS WorkerPool, Sequences, Functions

CONSTANTS
  Tests,     \* the tests of the run
  Allowlist, \* the entities they may use, as a sequence
  NoTest,    \* claims an entity that nobody claimed
  NoEntity   \* what a test got that got none

Entities == Range(Allowlist)

ASSUME AllocationAssumption ==
  /\ Allowlist \in Seq(Entities)
  /\ NoTest \notin Tests
  /\ NoEntity \notin Entities

VARIABLES
  claims,     \* the files under claims/: the test of each entity
  rejections, \* the files under rejected/
  picking,    \* claim_for in each worker
  handed      \* auxiliary: the tests and entities claim_for has returned

allocationVars == << claims, rejections, picking, handed >>

\* look: is_available of what is left of the list; try: the candidates left; claim, create: the
\* two halves of claiming the first of them; done: what it returned.
Phases == {"none", "look", "try", "claim", "create", "done"}

\* open: the idents that were available; found: those the listing has; unfit: noted as not
\* found or unsuitable for this test.
Picking ==
  [phase : Phases, test : Tests \cup {NoTest}, left : Seq(Entities), open : Seq(Entities),
   found : SUBSET Entities, unfit : SUBSET Entities, got : Entities \cup {NoEntity}]

AllocationTypeOK ==
  /\ claims \in [Entities -> Tests \cup {NoTest}]
  /\ rejections \subseteq Entities
  /\ picking \in [Workers -> Picking]
  /\ handed \subseteq Tests \X Entities

Start(phase, t) ==
  [phase |-> phase, test |-> t, left |-> Allowlist, open |-> << >>,
   found |-> {}, unfit |-> {}, got |-> NoEntity]

AllocationInit ==
  /\ claims = [e \in Entities |-> NoTest]
  /\ rejections = {}
  /\ picking = [w \in Workers |-> Start("none", NoTest)]
  /\ handed = {}

files == << claims, rejections >>
IsAvailable(e) == claims[e] = NoTest /\ e \notin rejections
Candidate(w) == Head(picking[w].left)

-----------------------------------------------------------------------------
\* claim_for is called for a test.
Pick(w, t) ==
  /\ picking[w].phase = "none"
  /\ picking' = [picking EXCEPT ![w] = Start("look", t)]
  /\ UNCHANGED << files, handed >>

\* One ident of the list after the other is looked at.
Look(w) ==
  /\ picking[w].phase = "look" /\ picking[w].left # << >>
  /\ picking' = [picking EXCEPT ![w].left = Tail(@),
                                ![w].open = IF IsAvailable(Candidate(w))
                                            THEN Append(@, Candidate(w)) ELSE @]
  /\ UNCHANGED << files, handed >>

\* resolve_targets finds some of them; without any there is nothing to find.
Resolve(w) ==
  /\ picking[w].phase = "look" /\ picking[w].left = << >>
  /\ \E found \in SUBSET Range(picking[w].open) :
       picking' = [picking EXCEPT ![w].phase = "try", ![w].left = picking[w].open,
                                  ![w].found = found]
  /\ UNCHANGED << files, handed >>

\* The next candidate was not found, or the preflight finds it unsuitable for this test.
Passed(w) ==
  /\ picking[w].phase = "try" /\ picking[w].left # << >>
  /\ picking' = [picking EXCEPT ![w].left = Tail(@), ![w].unfit = @ \cup {Candidate(w)}]
  /\ UNCHANGED << files, handed >>

\* The preflight finds it unsafe: reject, for the whole run.
Unsafe(w) ==
  /\ picking[w].phase = "try" /\ picking[w].left # << >>
  /\ Candidate(w) \in picking[w].found
  /\ rejections' = rejections \cup {Candidate(w)}
  /\ picking' = [picking EXCEPT ![w].left = Tail(@)]
  /\ UNCHANGED << claims, handed >>

\* It passes its preflight.
Suits(w) ==
  /\ picking[w].phase = "try" /\ picking[w].left # << >>
  /\ Candidate(w) \in picking[w].found
  /\ picking' = [picking EXCEPT ![w].phase = "claim"]
  /\ UNCHANGED << files, handed >>

\* What is left after a claim that failed.  (FaultyNextOne gives up with the first.)
FaultyNextOne(w) == << >>
NextOne(w) == Tail(picking[w].left)

Lost(w) == [picking EXCEPT ![w].phase = "try", ![w].left = NextOne(w)]

\* claim looks for a rejection first, and then creates the file.
CheckRejected(w) ==
  /\ picking[w].phase = "claim"
  /\ picking' = IF Candidate(w) \in rejections THEN Lost(w)
                ELSE [picking EXCEPT ![w].phase = "create"]
  /\ UNCHANGED << files, handed >>

\* _create_once succeeds for the first.  (FaultyCreates opens the file whoever created it.)
FaultyCreates(e) == TRUE
Creates(e) == claims[e] = NoTest

Claim(w) ==
  LET e == Candidate(w)  t == picking[w].test
  IN  /\ picking[w].phase = "create"
      /\ IF Creates(e)
         THEN /\ claims' = [claims EXCEPT ![e] = t]
              /\ handed' = handed \cup { << t, e >> }
              /\ picking' = [picking EXCEPT ![w].phase = "done", ![w].got = e]
         ELSE picking' = Lost(w) /\ UNCHANGED << claims, handed >>
      /\ UNCHANGED rejections

\* No candidate is left: no claim, and an explanation.
Refuse(w) ==
  /\ picking[w].phase = "try" /\ picking[w].left = << >>
  /\ picking' = [picking EXCEPT ![w].phase = "done"]
  /\ UNCHANGED << files, handed >>

AllocationStep(w) ==
  \/ Look(w) \/ Resolve(w) \/ Passed(w) \/ Unsafe(w) \/ Suits(w)
  \/ CheckRejected(w) \/ Claim(w) \/ Refuse(w)

\* The test is over, or its worker died: what it claimed stays claimed.
Leave(w) ==
  /\ picking' = [picking EXCEPT ![w] = Start("none", NoTest)]
  /\ UNCHANGED << files, handed >>

AllocationNext == \E w \in Workers : AllocationStep(w) \/ Leave(w) \/ \E t \in Tests : Pick(w, t)

AllocationSpec == AllocationInit /\ [][AllocationNext]_allocationVars

-----------------------------------------------------------------------------
\* "Hand each allowlisted entity to at most one test per run, across every xdist worker"
\* (allocator.py:1), whoever died after it was handed one.
ClaimedOnce ==
  \A p, q \in handed : p[2] = q[2] => p = q

\* A test is refused only when there is a reason for every entity of the list: it is claimed,
\* it is set aside for the run, or this test looked at it and it did not do.  A claim lost to
\* another worker does not end the search.
NothingIdle ==
  \A w \in Workers :
    picking[w].phase = "done" /\ picking[w].got = NoEntity =>
      \A e \in Entities : claims[e] # NoTest \/ e \in rejections \/ e \in picking[w].unfit
=============================================================================
