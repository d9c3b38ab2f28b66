----------------------------- MODULE MCBundles ------------------------------
(***************************************************************************)
(* Bundles on small instances.  The jobs share nothing, and an import      *)
(* reads only the bundles and the platform's store: every behaviour has    *)
(* the same stores and imports as one in which the steps of job b come     *)
(* first, then those of job a, then the imports.  WithinBounds keeps to    *)
(* those, and View forgets what is read no more once imports have begun.   *)
(* One of the two tests is rerun within a session, the other is not.       *)
(***************************************************************************)
EXTENDS Bundles

CONSTANTS a, b, t1, t2

MCSelections == (a :> {{t1, t2}}) @@ (b :> {{t1}})
MCSessions == (a :> 2) @@ (b :> 1)
MCBundlesOf == (a :> 2) @@ (b :> 1)

Local(j) == << store[j], recorder[j], bundles[j] >>' # << store[j], recorder[j], bundles[j] >>

WithinBounds ==
  /\ recorder'[a].open => recorder'[a].attempts[t2] <= 1
  /\ Local(a) => imported = {}
  /\ Local(b) => imported = {} /\ store[a] = NoRun

MCSpec == Init /\ [][Next /\ WithinBounds]_vars

View ==
  << IF imported # {} THEN << >>
     ELSE IF store[a] # NoRun THEN << store[a], recorder[a] >> ELSE << store, recorder >>,
     bundles, central, imported, collided >>
=============================================================================
