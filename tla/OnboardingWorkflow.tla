------------------------- MODULE OnboardingWorkflow -------------------------
(***************************************************************************)
(* One user's onboarding workflow: the generic executor of                 *)
(* internal/workflow/onboarding_workflow.go, the activities it runs        *)
(* (activities.go) with the two Mongo documents they write, and the        *)
(* primitives by which it is started and signalled (starter.go).           *)
(*                                                                         *)
(* Temporal, Auth0 and the four providers are external.  Of Temporal the   *)
(* model keeps: at most one open run per workflow id, a channel of         *)
(* buffered signals per signal name that dies with its run, activities     *)
(* attempted at least once and at most MaxAttempts times, an attempt's     *)
(* effects staying when its answer is lost, and replay that makes a worker *)
(* crash invisible between activities.  Users share nothing, so one user   *)
(* is enough.                                                              *)
(***************************************************************************)
EXTENDS StepCatalog, SequencesExt

CONSTANTS
  Steps,          \* the step list of the version the user's runs pin
  DisplayNames,   \* organisation names a client may send
  AcceptedNames,  \* those that Auth0's pattern accepts
  VerticalNames,  \* vertical names a client may send
  OrgIds,         \* ids Auth0 may give a new organisation
  MaxAttempts,    \* RetryPolicy.MaximumAttempts
  MaxRuns,        \* bound on the runs begun
  MaxBuffered     \* bound on the signals waiting in one channel

\* A catalog's names are distinct, a signal is named for its step and every
\* action has a handler.
ASSUME CatalogAssumption ==
  /\ Steps \in Seq(StepDef)
  /\ Steps # << >>
  /\ \A i, j \in DOMAIN Steps : Steps[i].name = Steps[j].name => i = j
  /\ \A i \in DOMAIN Steps : /\ Steps[i].name # None
                             /\ Steps[i].signal \in {None, Steps[i].name}
  /\ ValidateActions(Steps)

\* A provider is called only for an organisation made by an earlier step, of
\* which there is one, and the record is closed after all four resources.
ASSUME ProvisioningOrderAssumption ==
  \A i \in DOMAIN Steps :
    /\ Steps[i].action \notin {None, "CreateOrganisation"} =>
         \E j \in 1..(i - 1) : Steps[j].action = "CreateOrganisation"
    /\ Steps[i].action = "CreateOrganisation" =>
         \A j \in DOMAIN Steps :
           Steps[j].action = "CreateOrganisation" => j = i
    /\ Steps[i].action = "CompleteProvisioning" =>
         \A r \in Resources :
           \E j \in 1..(i - 1) : Steps[j].action = ProvisionAction[r]

ASSUME DataAssumption ==
  /\ DisplayNames \subseteq STRING \ {None}
  /\ AcceptedNames \subseteq DisplayNames
  /\ VerticalNames \subseteq STRING \ {None}
  /\ OrgIds \subseteq STRING \ {None}

ASSUME BoundsAssumption ==
  /\ MaxAttempts \in Nat \ {0}
  /\ MaxRuns \in Nat
  /\ MaxBuffered \in Nat

VARIABLES
  run,          \* Temporal: the state of the newest run of the user's id
  runs,         \* ... how many runs were begun
  signals,      \* ... the signals its open run has not received, per channel
  pos,          \* executor: the index of the step it is at
  phase,        \* ... where in that step it is
  attempt,      \* ... failed attempts of the activity it waits for
  journey,      \* ... the journey it carries and persists
  ctx,          \* ... the context it threads to the actions
  doc,          \* Mongo: the user's document in onboarding_journeys
  records,      \* Mongo: provisioning_records, by organisation
  orgs,         \* Auth0: the organisations the user is a member of
  provisioned   \* providers: the resources that exist, by organisation

temporalVars == <<run, runs, signals>>
executorVars == <<pos, phase, attempt, journey, ctx>>
storeVars    == <<doc, records>>
externalVars == <<orgs, provisioned>>
vars == <<temporalVars, executorVars, storeVars, externalVars>>

Names == StepNames(Steps)

\* The channels some step receives from; a signal sent elsewhere is buffered
\* by Temporal and never read, so it is left out.
Channels == {Steps[i].signal : i \in DOMAIN Steps} \ {None}

Payload == [displayName  : DisplayNames \cup {None},
            verticalName : VerticalNames \cup {None}]

NoSignals == [n \in Channels |-> << >>]

NoPayload == [displayName |-> None, verticalName |-> None]

\* dto.OnboardingJourney and its document; steps lists the completed steps.
Journey ==
  [status       : {"absent", "in_progress", "completed"},
   currentStep  : Names \cup {None},
   orgId        : OrgIds \cup {None},
   verticalName : VerticalNames \cup {None},
   steps        : Seq(Names)]

NoDoc ==
  [status |-> "absent", currentStep |-> None, orgId |-> None,
   verticalName |-> None, steps |-> << >>]

NewJourney == [NoDoc EXCEPT !.status = "in_progress"]

Context == [orgId       : OrgIds \cup {None},
            displayName : DisplayNames \cup {None},
            email       : BOOLEAN]     \* has an address been threaded?

NewContext == [orgId |-> None, displayName |-> None, email |-> FALSE]

\* A missing record and one without resources are the same to every reader.
Record == [completed : BOOLEAN, resources : SUBSET Resources]

NewRecord == [completed |-> FALSE, resources |-> {}]

Phases == {"idle", "persist", "await", "action", "record", "final"}

TypeOK ==
  /\ run \in {"none", "running", "completed", "failed"}
  /\ runs \in Nat
  /\ signals \in [Channels -> Seq(Payload)]
  /\ pos \in 1..(Len(Steps) + 1)
  /\ phase \in Phases
  /\ attempt \in 0..(MaxAttempts - 1)
  /\ journey \in Journey
  /\ ctx \in Context
  /\ doc \in Journey
  /\ records \in [OrgIds \cup {None} -> Record]
  /\ orgs \in SUBSET OrgIds
  /\ provisioned \in [OrgIds \cup {None} -> SUBSET Resources]

Init ==
  /\ run = "none"
  /\ runs = 0
  /\ signals = NoSignals
  /\ pos = 1
  /\ phase = "idle"
  /\ attempt = 0
  /\ journey = NewJourney
  /\ ctx = NewContext
  /\ doc = NoDoc
  /\ records = [o \in OrgIds \cup {None} |-> NewRecord]
  /\ orgs = {}
  /\ provisioned = [o \in OrgIds \cup {None} |-> {}]

-----------------------------------------------------------------------------
(***************************************************************************)
(* Temporal, as the Starter uses it.                                       *)
(***************************************************************************)

\* Mutant: the conflict policy terminates the open run.
StartAlways(chans) ==
  /\ run' = "running"
  /\ runs' = runs + 1
  /\ signals' = chans
  /\ pos' = 1
  /\ phase' = "persist"
  /\ attempt' = 0
  /\ journey' = NewJourney
  /\ ctx' = NewContext

\* A start with conflict policy USE_EXISTING: an open run is left alone; a
\* closed one does not count, and a new run begins at the first step.
StartIfAbsent(chans) ==
  IF run = "running"
  THEN /\ signals' = chans
       /\ UNCHANGED <<run, runs, executorVars>>
  ELSE /\ run' = "running"
       /\ runs' = runs + 1
       /\ signals' = chans
       /\ pos' = 1
       /\ phase' = "persist"
       /\ attempt' = 0
       /\ journey' = NewJourney
       /\ ctx' = NewContext

\* The channels after payload p is sent to n.
Delivered(n, p) ==
  IF n \in Channels THEN [signals EXCEPT ![n] = Append(@, p)] ELSE signals

\* Starter.Start
Start == StartIfAbsent(signals)

\* Starter.signalStep and SubmitStep: start and signal in one server-side step.
SubmitStep(n) == StartIfAbsent(Delivered(n, NoPayload))

\* Starter.SignalStep, SignalEmailVerified: only an open run can be signalled.
SignalStep(n, p) ==
  /\ run = "running"
  /\ signals' = Delivered(n, p)
  /\ UNCHANGED <<run, runs, executorVars>>

Close(outcome) ==
  /\ run' = outcome
  /\ phase' = "idle"
  /\ attempt' = 0
  /\ signals' = NoSignals

\* The activity answered: the executor goes on to phase next.
AttemptSucceeded(next) ==
  /\ phase' = next
  /\ attempt' = 0
  /\ UNCHANGED <<run, signals>>

\* Mutant: no limit on the attempts.
AttemptsUnlimited ==
  /\ attempt' = (attempt + 1) % MaxAttempts
  /\ UNCHANGED <<run, signals, phase>>

\* The attempt failed, or its answer was lost: Temporal retries it, and when
\* no attempt is left the workflow returns the error.
AttemptFailed ==
  \/ /\ attempt + 1 < MaxAttempts
     /\ attempt' = attempt + 1
     /\ UNCHANGED <<run, signals, phase>>
  \/ /\ attempt + 1 >= MaxAttempts
     /\ Close("failed")

-----------------------------------------------------------------------------
(***************************************************************************)
(* The executor: one pass of the loop per catalog step.                    *)
(***************************************************************************)

Step == Steps[pos]

\* Mutant: the document keeps the step it showed.
UpsertWithoutStep(j) == doc' = [j EXCEPT !.currentStep = doc.currentStep]

\* OnboardingJourneyRepo.Upsert: the whole document is replaced.
Upsert(j) == doc' = j

AfterPersist(s) == IF s.signal # None THEN "await"
                   ELSE IF s.action # None THEN "action" ELSE "record"

AfterSignal(s) == IF s.action # None THEN "action" ELSE "record"

\* Mutant: the error of the persist is ignored.
PersistBestEffort ==
  /\ phase = "persist"
  /\ journey' = [journey EXCEPT !.currentStep = Step.name]
  /\ Upsert(journey') \/ UNCHANGED doc
  /\ AttemptSucceeded(AfterPersist(Step))
  /\ UNCHANGED <<runs, pos, ctx, records, externalVars>>

\* 1. Persist where the user is, before waiting or acting.
PersistStep ==
  /\ phase = "persist"
  /\ journey' = [journey EXCEPT !.currentStep = Step.name]
  /\ \/ Upsert(journey') /\ AttemptSucceeded(AfterPersist(Step))
     \/ (Upsert(journey') \/ UNCHANGED doc) /\ AttemptFailed
  /\ UNCHANGED <<runs, pos, ctx, records, externalVars>>

OrElse(new, old) == IF new # None THEN new ELSE old

\* 2. Receive the step's signal and absorb what its payload carries.
ReceiveSignal ==
  /\ phase = "await"
  /\ signals[Step.signal] # << >>
  /\ LET p == Head(signals[Step.signal])
     IN  /\ ctx' = [ctx EXCEPT !.displayName = OrElse(p.displayName, @)]
         /\ journey' = [journey EXCEPT
                          !.verticalName = OrElse(p.verticalName, @)]
  /\ signals' = [signals EXCEPT ![Step.signal] = Tail(@)]
  /\ phase' = AfterSignal(Step)
  /\ UNCHANGED <<run, runs, pos, attempt, storeVars, externalVars>>

\* Mutant: the organisation is threaded but left out of the journey.
MergeOrgIntoContext(o, emailFound) ==
  /\ ctx' = [ctx EXCEPT !.orgId = o, !.email = @ \/ emailFound]
  /\ UNCHANGED journey

\* 3. The action's result is merged into the context.
MergeOrg(o, emailFound) ==
  /\ ctx' = [ctx EXCEPT !.orgId = o, !.email = @ \/ emailFound]
  /\ journey' = [journey EXCEPT !.orgId = o]

NothingMerged == UNCHANGED <<ctx, journey>>

\* Mutant: the organisation is noted by writing a new document.
SetOrgIDByUpsert(o) == Upsert([NewJourney EXCEPT !.orgId = o])

\* OnboardingJourneyRepo.SetOrgID: one field of the document.
SetOrgID(o) ==
  doc' = [doc EXCEPT !.orgId = o,
                     !.status = IF @ = "absent" THEN "in_progress" ELSE @]

\* Mutant: nobody asks what organisations the user has.
CanAlwaysCreateOrg == ctx.displayName \in AcceptedNames

\* HTTPOrgCreator.CreateOrganisation accepts the name and finds that the user
\* owns no organisation.
CanCreateOrg == ctx.displayName \in AcceptedNames /\ orgs = {}

\* The document has an organisation: it is returned, without an address.
ReuseOrganisation ==
  /\ doc.orgId # None
  /\ \/ MergeOrg(doc.orgId, FALSE) /\ AttemptSucceeded("record")
     \/ NothingMerged /\ AttemptFailed
  /\ UNCHANGED <<doc, orgs>>

\* It has none: one is created at Auth0, then noted in the document; the
\* address is looked up best-effort.
CreateNewOrganisation ==
  /\ doc.orgId = None
  /\ CanCreateOrg
  /\ \E o \in OrgIds :
       /\ orgs' = orgs \cup {o}
       /\ \/ /\ SetOrgID(o)
             /\ \E emailFound \in BOOLEAN : MergeOrg(o, emailFound)
             /\ AttemptSucceeded("record")
          \/ /\ SetOrgID(o) \/ UNCHANGED doc
             /\ NothingMerged
             /\ AttemptFailed

\* A read, the creation or its checks failed: nothing was made.
CreateOrganisationRejected ==
  /\ doc.orgId = None
  /\ NothingMerged
  /\ AttemptFailed
  /\ UNCHANGED <<doc, orgs>>

CreateOrganisation ==
  /\ phase = "action"
  /\ Step.action = "CreateOrganisation"
  /\ \/ ReuseOrganisation
     \/ CreateNewOrganisation
     \/ CreateOrganisationRejected
  /\ UNCHANGED <<runs, pos, records, provisioned>>

\* The provider has the resource, and the record says so.
AtProvider(o, r) == provisioned' = [provisioned EXCEPT ![o] = @ \cup {r}]

\* Mutant: the record is replaced by one that holds the new resource only.
RecordedAlone(o, r) == records' = [records EXCEPT ![o].resources = {r}]

Recorded(o, r) ==
  records' = [records EXCEPT ![o].resources = @ \cup {r}]

\* Activities.provision: the record is read, the provider called and the
\* record replaced, unless it already has the resource.
AlreadyProvisioned(o, r) ==
  /\ r \in records[o].resources
  /\ AttemptSucceeded("record") \/ AttemptFailed
  /\ UNCHANGED <<records, provisioned>>

\* Mutant: the error of the provider's call is dropped.
ProvisionBestEffort(o, r) ==
  /\ r \notin records[o].resources
  /\ AtProvider(o, r) \/ UNCHANGED provisioned
  /\ Recorded(o, r)
  /\ AttemptSucceeded("record")

ProvisionNew(o, r) ==
  /\ r \notin records[o].resources
  /\ \/ AtProvider(o, r) /\ Recorded(o, r) /\ AttemptSucceeded("record")
     \/ AtProvider(o, r) /\ Recorded(o, r) /\ AttemptFailed
     \/ AtProvider(o, r) /\ UNCHANGED records /\ AttemptFailed
     \/ UNCHANGED <<records, provisioned>> /\ AttemptFailed

Provision ==
  /\ phase = "action"
  /\ \E r \in Resources :
       /\ Step.action = ProvisionAction[r]
       /\ AlreadyProvisioned(ctx.orgId, r) \/ ProvisionNew(ctx.orgId, r)
  /\ NothingMerged
  /\ UNCHANGED <<runs, pos, doc, orgs>>

CompleteProvisioning ==
  /\ phase = "action"
  /\ Step.action = "CompleteProvisioning"
  /\ LET closed == [records EXCEPT ![ctx.orgId].completed = TRUE]
     IN  \/ records' = closed /\ AttemptSucceeded("record")
         \/ records' \in {closed, records} /\ AttemptFailed
  /\ NothingMerged
  /\ UNCHANGED <<runs, pos, doc, externalVars>>

\* Mutant: the journey is completed by its last step, not by the declared one.
RecordCompletedAtEnd ==
  /\ phase = "record"
  /\ journey' = [journey EXCEPT
                   !.steps = Append(@, Step.name),
                   !.status = IF pos = Len(Steps) THEN "completed" ELSE @]
  /\ pos' = pos + 1
  /\ phase' = IF pos = Len(Steps) THEN "final" ELSE "persist"
  /\ UNCHANGED <<temporalVars, attempt, ctx, storeVars, externalVars>>

\* 4. and 5. Record the step completed and go to the next one; the analytics
\* event in between is an activity whose failure is ignored.
RecordCompleted ==
  /\ phase = "record"
  /\ journey' = [journey EXCEPT
                   !.steps = Append(@, Step.name),
                   !.status = IF Step.marksComplete THEN "completed" ELSE @]
  /\ pos' = pos + 1
  /\ phase' = IF pos = Len(Steps) THEN "final" ELSE "persist"
  /\ UNCHANGED <<temporalVars, attempt, ctx, storeVars, externalVars>>

\* After the loop: persist the terminal state, and the run completes.
FinalPersist ==
  /\ phase = "final"
  /\ \/ Upsert(journey) /\ Close("completed")
     \/ (Upsert(journey) \/ UNCHANGED doc) /\ AttemptFailed
  /\ UNCHANGED <<runs, pos, journey, ctx, records, externalVars>>

ExecutorStep ==
  \/ PersistStep
  \/ ReceiveSignal
  \/ CreateOrganisation
  \/ Provision
  \/ CompleteProvisioning
  \/ RecordCompleted
  \/ FinalPersist

-----------------------------------------------------------------------------
(***************************************************************************)
(* The workflow under any use of the Starter: starts and signals may come  *)
(* at any time, in any order, with any payload.                            *)
(***************************************************************************)

StoresSame == UNCHANGED <<storeVars, externalVars>>

RoomFor(n) == n \in Channels => Len(signals[n]) < MaxBuffered
RunsLeft == run = "running" \/ runs < MaxRuns

BeginRun ==
  /\ RunsLeft
  /\ Start
  /\ StoresSame

AnySignal ==
  /\ \E n \in Names, p \in Payload : RoomFor(n) /\ SignalStep(n, p)
  /\ StoresSame

AnySubmit ==
  /\ RunsLeft
  /\ \E n \in Names : RoomFor(n) /\ SubmitStep(n)
  /\ StoresSame

StarterStep == BeginRun \/ AnySignal \/ AnySubmit

Next == ExecutorStep \/ StarterStep

Spec == Init /\ [][Next]_vars

\* The worker keeps polling, so the executor does not stop for ever.
FairSpec == Spec /\ WF_vars(ExecutorStep)

-----------------------------------------------------------------------------
(***************************************************************************)
(* Properties.                                                             *)
(***************************************************************************)

\* While a step waits or acts, the read-model shows the user at that very
\* step, with the steps and the status the run has reached: the persist of
\* onboarding_workflow.go:98-102 drives the resume screen, and AdvanceStep
\* judges submissions by it.
ReadModelTracksRun ==
  phase \in {"await", "action", "record"} =>
    /\ doc.currentStep = Step.name
    /\ doc.steps = journey.steps
    /\ doc.status = journey.status

\* No action behind the step that marks the journey completed runs before the
\* user can read that it is completed: provisioning Svix and Lago never keeps
\* the user waiting (onboarding-lld.md:66-68).
LateActionsSeeCompleted ==
  phase = "action" /\ MarkedComplete(Steps, pos - 1) =>
    doc.status = "completed"

\* A provisioning record is marked completed only when it lists the four
\* resources and the providers have them, although CompleteProvisioning
\* (activities.go:150-160) looks at none of them.
CompletedRecordsAreWhole ==
  \A o \in OrgIds \cup {None} :
    records[o].completed => /\ records[o].resources = Resources
                            /\ provisioned[o] = Resources

\* Retries, lost answers and later runs leave the user with one organisation;
\* every resource and the journey's orgId belong to it, and a recorded
\* resource exists.
OneOrganisation ==
  /\ \A o1, o2 \in orgs : o1 = o2
  /\ doc.orgId \in orgs \cup {None}
  /\ \A o \in OrgIds \cup {None} :
       /\ provisioned[o] # {} => o \in orgs
       /\ records[o].resources \subseteq provisioned[o]

\* Within a run the read-model only moves forward, whichever of the whole
\* document writes (Upsert) and field writes (SetOrgID) come after each other:
\* no completed step, completion or orgId is lost once the run has published.
ReadModelForward ==
  [][phase # "idle" /\ ~(pos = 1 /\ phase = "persist") =>
       /\ IsPrefix(doc.steps, doc'.steps)
       /\ doc.status = "completed" => doc'.status = "completed"
       /\ doc.orgId # None => doc'.orgId = doc.orgId]_doc

\* The user's organisation is at Auth0, and neither the document nor an open
\* run knows of it.
LockedOut ==
  /\ orgs # {}
  /\ doc.orgId = None
  /\ run = "running" => journey.orgId = None

\* The run has completed the step that makes the organisation.
PastOrganisation ==
  /\ run = "running"
  /\ \E i \in 1..(pos - 1) : Steps[i].action = "CreateOrganisation"

\* Where RetryCanSucceed fails the user is lost for good: whatever is retried,
\* signalled or started again, userOwnsOrg (httporgcreator.go:119-126) turns
\* every attempt down, nothing notes the organisation, and no run gets past the
\* step that makes it.
LockedOutForGood ==
  [][LockedOut => LockedOut' /\ ~PastOrganisation']_vars

\* Where CompletedForever fails a user with an organisation is locked out: the
\* document that the first persist of a run writes has no orgId
\* (onboarding_workflow.go:73-83), and the run has none either.
RestartLocksOut ==
  [][pos = 1 /\ phase = "persist" /\ orgs # {} /\ doc' = journey'
       => LockedOut']_vars

\* The refinement mapping to the abstract journey.
shown == [steps     |-> IF doc.status = "absent" THEN -1 ELSE Len(doc.steps),
          completed |-> doc.status = "completed"]

J == INSTANCE OnboardingJourney
       WITH N           <- Len(Steps),
            CompletedAt <- {n \in 0..Len(Steps) : MarkedComplete(Steps, n)},
            active      <- run = "running",
            reached     <- Len(journey.steps),
            visible     <- shown

\* The executor with its activities implements the journey: steps complete one
\* at a time, each after the read-model has shown the user standing at it.
ImplementsJourney == J!Spec

\* Nothing is left for the executor until the user acts.
Parked == phase = "await" /\ signals[Step.signal] = << >>

\* A run does not get stuck in a system-driven step or over a signal that has
\* arrived: it comes to wait for a signal nobody sent, or it closes.
RunsUntilParked == run = "running" ~> (run # "running" \/ Parked)

\* How far into its step an executor is that has come to a phase.
Rank(p) == CASE p = "persist" -> 0
             [] p = "await"   -> 1
             [] p = "action"  -> 2
             [] p = "record"  -> 3
             [] OTHER         -> 0

\* The safety half of it: whatever fails and is retried, an open run never comes
\* back to a place it has left, nor to an attempt it has made. Its work is
\* bounded by its steps and their attempts, and a run that is not over waits for
\* a signal or has an attempt under way.
RunAdvances ==
  [][run = "running" /\ run' = "running" =>
       \/ UNCHANGED executorVars
       \/ pos' > pos
       \/ pos' = pos /\ Rank(phase') > Rank(phase)
       \/ pos' = pos /\ phase' = phase /\ attempt' > attempt]_vars

\* Once the user can read that the journey is completed, the run needs nothing
\* more from the user to end, well or badly (onboarding-lld.md:66-68).
CompletedRunsEnd ==
  run = "running" /\ journey.status = "completed" ~> run # "running"

\* A completed journey just returns its state, for ever (onboarding.go:245-246).
CompletedForever ==
  [][doc.status = "completed" => doc'.status = "completed"]_doc

\* CreateOrganisation is idempotent by user (activities.go:99-102): with a name
\* that Auth0 accepts, an attempt that follows a crash can succeed, for it sees
\* the id of the organisation made before it or none was made.
RetryCanSucceed ==
  phase = "action" /\ Step.action = "CreateOrganisation"
    /\ ctx.displayName \in AcceptedNames
  => doc.orgId # None \/ CanCreateOrg

-----------------------------------------------------------------------------
(***************************************************************************)
(* The inductive invariant behind the safety properties.                   *)
(***************************************************************************)

\* The phases belong to an open run and to a step of the right kind.
PhaseInv ==
  /\ phase = "idle" <=> run # "running"
  /\ phase \in {"persist", "await", "action", "record"} => pos <= Len(Steps)
  /\ phase = "final" => pos = Len(Steps) + 1
  /\ phase = "await" => Step.signal # None
  /\ phase = "action" => Step.action # None

\* The executor's journey is a function of its position.
JourneyInv ==
  /\ journey.steps = [i \in 1..(pos - 1) |-> Steps[i].name]
  /\ journey.status = IF MarkedComplete(Steps, pos - 1)
                      THEN "completed" ELSE "in_progress"

\* The steps whose action, if they have one, has been done in this run.
Done(i) == i \in 1..(pos - 1) \/ (phase = "record" /\ i = pos)

\* What the actions done so far have left for the later ones.
OrgInv ==
  /\ journey.orgId = ctx.orgId
  /\ ctx.orgId \in orgs \cup {None}
  /\ \A i \in DOMAIN Steps :
       Done(i) /\ Steps[i].action = "CreateOrganisation" => ctx.orgId # None

RecordInv ==
  /\ \A i \in DOMAIN Steps, r \in Resources :
       Done(i) /\ Steps[i].action = ProvisionAction[r] =>
         r \in records[ctx.orgId].resources
  /\ CompletedRecordsAreWhole

\* Once the run has published, the document is behind the executor's journey,
\* but for the organisation an attempt has noted and not yet answered.
ForwardInv ==
  phase # "idle" /\ ~(pos = 1 /\ phase = "persist") =>
    /\ IsPrefix(doc.steps, journey.steps)
    /\ doc.status = "completed" => journey.status = "completed"
    /\ doc.orgId # None =>
         \/ journey.orgId = doc.orgId
         \/ phase = "action" /\ Step.action = "CreateOrganisation"

\* An organisation the context names was made, or found, by this run.
OwnOrgInv ==
  ctx.orgId # None =>
    \E i \in DOMAIN Steps :
      Done(i) /\ Steps[i].action = "CreateOrganisation"

IInv ==
  /\ TypeOK
  /\ PhaseInv
  /\ JourneyInv
  /\ ReadModelTracksRun
  /\ OneOrganisation
  /\ OrgInv
  /\ RecordInv
  /\ OwnOrgInv
  /\ ForwardInv
=============================================================================
