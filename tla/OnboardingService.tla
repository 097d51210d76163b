------------------------- MODULE OnboardingService -------------------------
(***************************************************************************)
(* The HTTP handlers of internal/controller over one user's workflow: the  *)
(* journey entry point GET /state, the step endpoint POST /steps/{name} and *)
(* the internal endpoint the Auth Service calls.  A handler is several     *)
(* calls with nothing held between them, so requests of the user's clients *)
(* interleave with each other and with the executor.                       *)
(***************************************************************************)
EXTENDS OnboardingWorkflow

CONSTANTS
  Clients,        \* tabs and devices the user is signed in on
  Verticals,      \* the names in the vertical cache
  Inputs,         \* the inputs a client may post
  InternalSteps,  \* the step names the Auth Service records
  MaxRequests     \* bound on the requests received

ASSUME ServiceAssumption ==
  /\ Verticals \subseteq VerticalNames
  /\ Inputs \subseteq Payload
  /\ MaxRequests \in Nat

\* The organisation is made by the step ORGANISATION_CREATED, which waits for a
\* signal that the Auth Service does not send, as VERTICAL_SELECTED does, and
\* nothing waits for the user once the journey is marked completed.
ASSUME UserStepsAssumption ==
  /\ \A i \in DOMAIN Steps :
       Steps[i].action = "CreateOrganisation" =>
         Steps[i].signal = "ORGANISATION_CREATED"
  /\ \A i \in DOMAIN Steps :
       Steps[i].name = "VERTICAL_SELECTED" =>
         Steps[i].signal = "VERTICAL_SELECTED"
  /\ {"ORGANISATION_CREATED", "VERTICAL_SELECTED"} \cap InternalSteps = {}
  /\ \A i, j \in DOMAIN Steps :
       i < j /\ Steps[i].marksComplete => Steps[j].signal = None

VARIABLES
  req,        \* the request each client has in progress, one at a time
  requests    \* how many requests were received

serviceVars == <<vars, req, requests>>

NoRequest == [at |-> "idle", step |-> None, payload |-> NoPayload]

Request == [at      : {"idle", "started", "admitted", "answering"},
            step    : Names \cup {None},
            payload : Payload]

ServiceTypeOK ==
  /\ TypeOK
  /\ req \in [Clients -> Request]
  /\ requests \in 0..MaxRequests

ServiceInit ==
  /\ Init
  /\ req = [c \in Clients |-> NoRequest]
  /\ requests = 0

Receive(c) ==
  /\ req[c].at = "idle"
  /\ requests < MaxRequests
  /\ requests' = requests + 1

\* The request of c is answered, here or with an error status.
Finished(c) == req' = [req EXCEPT ![c] = NoRequest]
GoesTo(c, place) == req' = [req EXCEPT ![c] = [NoRequest EXCEPT !.at = place]]

-----------------------------------------------------------------------------
\* GetState: start the workflow if absent; with an email_verified claim go on
\* to signal it, else to answer.  A start whose answer times out is a 500.
GetState(c) ==
  /\ Receive(c)
  /\ RunsLeft
  /\ Start
  /\ \/ \E verified \in BOOLEAN :
          GoesTo(c, IF verified THEN "started" ELSE "answering")
     \/ Finished(c)
  /\ StoresSame

\* startAndReturnState, after Start: signal EMAIL_VERIFIED to the open run.
SignalEmailVerified(c) ==
  /\ req[c].at = "started"
  /\ RoomFor("EMAIL_VERIFIED")
  /\ SignalStep("EMAIL_VERIFIED", NoPayload)
  /\ GoesTo(c, "answering") \/ Finished(c)
  /\ UNCHANGED requests
  /\ StoresSame

\* Either signal fails: no run is open any more, or the call did not arrive.
SignalFails(c) ==
  /\ req[c].at \in {"started", "admitted"}
  /\ Finished(c)
  /\ UNCHANGED <<vars, requests>>

\* writeState: read the document and answer with its step and status.
WriteState(c) ==
  /\ req[c].at = "answering"
  /\ Finished(c)
  /\ UNCHANGED <<vars, requests>>

-----------------------------------------------------------------------------
stepCompleted(name) == \E i \in DOMAIN doc.steps : doc.steps[i] = name

\* Mutant: the name of the organisation is not validated.
ValidateVerticalOnly(name, p) ==
  name = "VERTICAL_SELECTED" => p.verticalName \in Verticals

\* Mutant: any vertical will do.
ValidateNameOnly(name, p) ==
  name = "ORGANISATION_CREATED" => p.displayName # None

\* ValidatorRegistry.Validate
Validate(name, p) ==
  /\ name = "ORGANISATION_CREATED" => p.displayName # None
  /\ name = "VERTICAL_SELECTED" => p.verticalName \in Verticals

\* The step is a no-op: the handler goes straight to the answer.
AlreadyDone(name) == doc.status = "completed" \/ stepCompleted(name)

\* Mutant: no ordering guard.
IsCatalogStep(name) == doc.status # "absent" /\ StepInCatalog(Steps, name)

\* The ordering guard.  A synthetic journey has no catalog version, so none of
\* its steps is in the catalog.
IsCurrent(name) ==
  /\ doc.status # "absent"
  /\ StepInCatalog(Steps, name)
  /\ name = doc.currentStep

\* AdvanceStep up to the signal: read the document, judge the step and the
\* input.  The request may finish here, with a 409, a 400 or a failed read.
AdvanceStep(c, name, p) ==
  /\ Receive(c)
  /\ \/ AlreadyDone(name) /\ GoesTo(c, "answering")
     \/ /\ ~AlreadyDone(name)
        /\ IsCurrent(name) /\ Validate(name, p)
        /\ req' = [req EXCEPT ![c] = [at |-> "admitted", step |-> name,
                                      payload |-> p]]
     \/ Finished(c)
  /\ UNCHANGED vars

\* Mutant: the signal starts a run when none is open.
AdvanceWithStart(c) ==
  /\ req[c].at = "admitted"
  /\ RunsLeft
  /\ StartIfAbsent(Delivered(req[c].step, req[c].payload))
  /\ GoesTo(c, "answering") \/ Finished(c)
  /\ UNCHANGED requests
  /\ StoresSame

\* AdvanceStep, the rest: signal the step to whatever run is open now.
AdvanceSignal(c) ==
  /\ req[c].at = "admitted"
  /\ RoomFor(req[c].step)
  /\ SignalStep(req[c].step, req[c].payload)
  /\ GoesTo(c, "answering") \/ Finished(c)
  /\ UNCHANGED requests
  /\ StoresSame

\* InternalOnboardingController.RecordStep: no ordering guard and no input.
RecordStep(name) ==
  /\ requests < MaxRequests
  /\ requests' = requests + 1
  /\ RunsLeft
  /\ RoomFor(name)
  /\ SubmitStep(name)
  /\ UNCHANGED req
  /\ StoresSame

HandlerStep(c) ==
  \/ GetState(c)
  \/ SignalEmailVerified(c)
  \/ SignalFails(c)
  \/ WriteState(c)
  \/ \E name \in Names, p \in Inputs : AdvanceStep(c, name, p)
  \/ AdvanceSignal(c)

Worker == ExecutorStep /\ UNCHANGED <<req, requests>>

ServiceNext ==
  \/ Worker
  \/ \E c \in Clients : HandlerStep(c)
  \/ \E name \in InternalSteps : RecordStep(name)

ServiceSpec == ServiceInit /\ [][ServiceNext]_serviceVars

-----------------------------------------------------------------------------
(***************************************************************************)
(* Properties.                                                             *)
(***************************************************************************)

\* The step of that name is where the executor is, or behind it.
ReachedStep(name) == \E i \in 1..pos : i <= Len(Steps) /\ Steps[i].name = name

\* In a user's first run the ordering guard of AdvanceStep (onboarding.go:151)
\* lets nothing through ahead of its turn, stale as the document it reads may
\* be: neither an admitted submission nor a buffered signal is for a step that
\* the executor has yet to reach.
AdvanceNeverEarly ==
  runs <= 1 =>
    /\ \A c \in Clients : req[c].at = "admitted" => ReachedStep(req[c].step)
    /\ \A n \in Channels \ (InternalSteps \cup {"EMAIL_VERIFIED"}) :
         signals[n] # << >> => ReachedStep(n)

\* The step the executor waits for is never refused as out of order, nor
\* swallowed as already done (onboarding.go:144-154): a parked user is not
\* locked out.
AwaitedStepIsAdmitted ==
  phase = "await" => IsCurrent(Step.name) /\ ~AlreadyDone(Step.name)

\* Auth0 is asked for an organisation only under a name the validator of
\* ORGANISATION_CREATED (stepvalidator.go:52-54) has seen, whichever run the
\* signal is delivered to.
OrganisationIsNamed ==
  phase = "action" /\ Step.action = "CreateOrganisation" =>
    ctx.displayName # None

\* The handlers use the workflow as OnboardingWorkflow allows, so what holds of
\* Spec holds of the service.
ImplementsWorkflow == Spec

\* The vertical a journey has when VERTICAL_SELECTED is completed is one of
\* the vertical cache (stepvalidator.go:70-77), whatever the bodies of other
\* steps and of earlier runs brought along: the executor takes a vertical from
\* any of them (onboarding_workflow.go:111-113).
SelectedIsFromCache ==
  phase = "record" /\ Step.name = "VERTICAL_SELECTED" =>
    journey.verticalName \in Verticals
=============================================================================
