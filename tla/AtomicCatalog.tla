---------------------------- MODULE AtomicCatalog ----------------------------
(***************************************************************************)
(* What the catalog file promises the programs that share it (README.md:   *)
(* "a temporary file is made and replaced atomically"): it is absent, then *)
(* the bundled catalog or a whole catalog that somebody asked to save.     *)
(* A save takes effect once, entirely, or not at all, and initialising the *)
(* user's catalog never undoes a save.                                     *)
(***************************************************************************)
CONSTANTS Process, Bundled, None, Whole(_)

VARIABLES catalog, wanted

vars == <<catalog, wanted>>

Init == wanted = [p \in Process |-> None]

\* The first start finds no catalog and installs the bundled one.
Install == catalog = None /\ catalog' = Bundled /\ UNCHANGED wanted

Request(p) ==
  /\ wanted[p] = None
  /\ wanted'[p] # None
  /\ wanted' = [wanted EXCEPT ![p] = wanted'[p]]
  /\ UNCHANGED catalog

Take(p) ==
  /\ wanted[p] # None /\ Whole(wanted[p])
  /\ catalog' = wanted[p]
  /\ wanted' = [wanted EXCEPT ![p] = None]

\* The save failed, or its process died.
GiveUp(p) ==
  /\ wanted[p] # None
  /\ wanted' = [wanted EXCEPT ![p] = None]
  /\ UNCHANGED catalog

Next == Install \/ \E p \in Process : Request(p) \/ Take(p) \/ GiveUp(p)

Spec == Init /\ [][Next]_vars
=============================================================================
