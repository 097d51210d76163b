------------------------- MODULE OnboardingJourney -------------------------
(***************************************************************************)
(* What a journey promises to whoever reads it: a journey completes its    *)
(* steps one at a time, and completes a step only after the read-model has *)
(* shown the user standing at that step.  What is shown is always a        *)
(* position the journey has been at, and it is shown as completed exactly  *)
(* when that position lies in CompletedAt.                                 *)
(***************************************************************************)
EXTENDS Integers

CONSTANTS
  N,             \* the number of steps of the catalog
  CompletedAt    \* the step counts at which the journey is completed

VARIABLES
  active,        \* is a workflow run executing the journey?
  reached,       \* how many steps that run has completed
  visible        \* what the read-model shows: steps completed, and the status

vars == <<active, reached, visible>>

Unpublished == [steps |-> -1, completed |-> FALSE]

View(n) == [steps |-> n, completed |-> n \in CompletedAt]

Init ==
  /\ active = FALSE
  /\ reached = 0
  /\ visible = Unpublished

\* A run starts at the first step; the read-model is left as it is.
Begin ==
  /\ ~active
  /\ active' = TRUE
  /\ reached' = 0
  /\ UNCHANGED visible

Publish ==
  /\ active
  /\ visible' = View(reached)
  /\ UNCHANGED <<active, reached>>

Complete ==
  /\ active
  /\ reached < N
  /\ visible = View(reached)
  /\ reached' = reached + 1
  /\ UNCHANGED <<active, visible>>

\* A run ends, having published whatever it last did or failing to.
End ==
  /\ active
  /\ active' = FALSE
  /\ visible' \in {visible, View(reached)}
  /\ UNCHANGED reached

Next == Begin \/ Publish \/ Complete \/ End

Spec == Init /\ [][Next]_vars
=============================================================================
