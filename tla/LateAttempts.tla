---------------------------- MODULE LateAttempts ----------------------------
(***************************************************************************)
(* OnboardingWorkflow without the assumption that an attempt is over when  *)
(* Temporal gives it up.  The write that a timed-out attempt had under way *)
(* may reach Mongo at any later time, after the writes of later attempts   *)
(* and even of a later run.  The module also has the activity              *)
(* EmitStepEvent between two steps; the counters it increments are read by *)
(* nobody and left out.  What an attempt does at Auth0 and at the          *)
(* providers is done or not done when it ends.                             *)
(***************************************************************************)
EXTENDS OnboardingWorkflow

CONSTANT MaxLate   \* bound on the writes under way

ASSUME LateAssumption == MaxLate \in Nat

VARIABLES
  late,      \* writes of attempts given up, not yet applied
  emit       \* attempts left to the pending EmitStepEvent; 0 if none is

lateVars == <<vars, late, emit>>

\* A write replaces the journey document, sets its orgId, or replaces the
\* provisioning record of an organisation.
Write == [to : {"journey", "orgId", "record"}, journey : Journey,
          orgId : OrgIds \cup {None}, record : Record]

NoWrite == [to |-> "journey", journey |-> NoDoc, orgId |-> None,
            record |-> NewRecord]

JourneyWrite(j) == [NoWrite EXCEPT !.journey = j]
OrgIdWrite(o) == [NoWrite EXCEPT !.to = "orgId", !.orgId = o]
RecordWrite(o, rec) ==
  [NoWrite EXCEPT !.to = "record", !.orgId = o, !.record = rec]

LateTypeOK ==
  /\ TypeOK
  /\ \A w \in late : w \in Write
  /\ emit \in 0..MaxAttempts

LateInit ==
  /\ Init
  /\ late = {}
  /\ emit = 0

-----------------------------------------------------------------------------
\* The attempt was given up without an effect on the stores.
GivenUp ==
  /\ attempt' > attempt \/ run' = "failed"
  /\ UNCHANGED storeVars

\* ... but it had got as far as its write.
WriteUnderWay ==
  /\ GivenUp
  /\ Cardinality(late) < MaxLate
  /\ \/ /\ phase \in {"persist", "final"}
        /\ late' = late \cup {JourneyWrite(journey')}
     \/ \E o \in orgs' \ orgs : late' = late \cup {OrgIdWrite(o)}
     \/ \E r \in Resources :
          /\ phase = "action" /\ Step.action = ProvisionAction[r]
          /\ r \in provisioned'[ctx.orgId] \ records[ctx.orgId].resources
          /\ late' = late \cup {RecordWrite(ctx.orgId,
                       [records[ctx.orgId] EXCEPT !.resources = @ \cup {r}])}
     \/ /\ phase = "action" /\ Step.action = "CompleteProvisioning"
        /\ late' = late \cup {RecordWrite(ctx.orgId,
                     [records[ctx.orgId] EXCEPT !.completed = TRUE])}

\* A step of the executor; the event of a completed step is pending before the
\* next step is begun.
Execute ==
  /\ emit = 0
  /\ ExecutorStep
  /\ UNCHANGED late \/ WriteUnderWay
  /\ emit' = IF phase = "record" THEN MaxAttempts ELSE 0

\* The write gets there after all.
Applied(w) ==
  \/ /\ w.to = "journey"
     /\ Upsert(w.journey)
     /\ UNCHANGED records
  \/ /\ w.to = "orgId"
     /\ SetOrgID(w.orgId)
     /\ UNCHANGED records
  \/ /\ w.to = "record"
     /\ records' = [records EXCEPT ![w.orgId] = w.record]
     /\ UNCHANGED doc

LateWrite ==
  /\ \E w \in late : Applied(w) /\ late' = late \ {w}
  /\ UNCHANGED <<temporalVars, executorVars, externalVars, emit>>

\* Mutant: the event is retried until it is taken.
EmitUnlimited ==
  /\ emit > 0
  /\ emit' \in {0, 1 + (emit % MaxAttempts)}
  /\ UNCHANGED <<vars, late>>

\* An attempt of EmitStepEvent is answered, or fails; when no attempt is left
\* the executor goes on.
EmitStepEvent ==
  /\ emit > 0
  /\ emit' \in {0, emit - 1}
  /\ UNCHANGED <<vars, late>>

Starter ==
  /\ StarterStep
  /\ UNCHANGED <<late, emit>>

LateNext ==
  \/ Execute
  \/ EmitStepEvent
  \/ LateWrite
  \/ Starter

LateSpec == LateInit /\ [][LateNext]_lateVars

\* The worker keeps polling.
LateFairSpec == LateSpec /\ WF_lateVars(Execute \/ EmitStepEvent)

-----------------------------------------------------------------------------
(***************************************************************************)
(* Properties.                                                             *)
(***************************************************************************)

\* However late a write is applied, the read-model shows a position the
\* executor has been at: the completed steps, the step that follows them and
\* the status agree, and within the first run it is never ahead of the
\* executor (onboarding_journey_repo.go:28-49, written as a whole).
ReadModelWasTrue ==
  LET n == Len(doc.steps)
  IN  doc.status # "absent" =>
        /\ doc.steps = [i \in 1..n |-> Steps[i].name]
        /\ doc.currentStep \in {Steps[i].name : i \in {n, n + 1} \cap DOMAIN Steps}
        /\ doc.status = "completed" <=> MarkedComplete(Steps, n)
        /\ runs = 1 => n <= Len(journey.steps)

\* What a closed record stands for exists: a late write may take resources off
\* the record (provisioning_record_repo.go:40-63), but CompleteProvisioning has
\* closed it only after the providers had made them all.
ClosedIsProvisioned ==
  \A o \in OrgIds : records[o].completed => provisioned[o] = Resources

\* Neither a late write nor a sink that keeps failing stops the executor short
\* of a signal nobody has sent (onboarding_workflow.go:148-155).
LateRunsUntilParked == RunsUntilParked
=============================================================================
