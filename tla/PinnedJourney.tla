--------------------------- MODULE PinnedJourney ---------------------------
(***************************************************************************)
(* What instances of different builds promise together to whoever reads    *)
(* the journey: a run is pinned to the version it begins with and walks    *)
(* its steps one at a time, each only after the read-model has shown the   *)
(* run standing there.  It ends when the last step has been shown as       *)
(* completed, or without having completed any.                             *)
(***************************************************************************)
EXTENDS Integers

CONSTANTS
  Versions,      \* the versions of the catalog
  N,             \* how many steps each has
  CompletedAt    \* the step counts at which its journey is completed

VARIABLES
  active,        \* is a run open?
  version,       \* the version it is pinned to
  reached,       \* how many steps of it that run has completed
  visible        \* what the read-model shows: version, steps done, status

vars == <<active, version, reached, visible>>

Unpublished == [version |-> 0, steps |-> -1, completed |-> FALSE]

View(v, n) == [version |-> v, steps |-> n, completed |-> n \in CompletedAt[v]]

Shown == visible = View(version, reached)

Init ==
  /\ active = FALSE
  /\ version = 0
  /\ reached = 0
  /\ visible = Unpublished

\* A run is begun by whatever build; the read-model is left as it is.
Begin(v) ==
  /\ ~active
  /\ active' = TRUE
  /\ version' = v
  /\ reached' = 0
  /\ UNCHANGED visible

Publish ==
  /\ active
  /\ visible' = View(version, reached)
  /\ UNCHANGED <<active, version, reached>>

Complete ==
  /\ active /\ Shown
  /\ reached < N[version]
  /\ reached' = reached + 1
  /\ UNCHANGED <<active, version, visible>>

\* A run that has begun to complete steps ends with the last of them.
End ==
  /\ active /\ Shown
  /\ reached \in {0, N[version]}
  /\ active' = FALSE
  /\ UNCHANGED <<version, reached, visible>>

Next == (\E v \in Versions : Begin(v)) \/ Publish \/ Complete \/ End

Spec == Init /\ [][Next]_vars
=============================================================================
