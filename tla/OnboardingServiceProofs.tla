----------------------- MODULE OnboardingServiceProofs -----------------------
(***************************************************************************)
(* Theorems about the handlers, for every catalog, any number of clients   *)
(* and any inputs.                                                         *)
(***************************************************************************)
EXTENDS OnboardingService, OnboardingWorkflowProofs

ReqOK == req \in [Clients -> Request] /\ requests \in 0..MaxRequests

\* A request at any of its places is one.
LEMMA RequestFacts ==
  /\ NoPayload \in Payload
  /\ NoRequest \in Request
  /\ NoRequest.at = "idle"
  /\ \A place \in {"idle", "started", "admitted", "answering"} :
       /\ [NoRequest EXCEPT !.at = place] \in Request
       /\ [NoRequest EXCEPT !.at = place].at = place
BY DEF NoPayload, Payload, NoRequest, Request

\* What GetState, its signal and its answer make of the clients' requests.
LEMMA OtherPlaces ==
  ASSUME ReqOK, NEW c \in Clients, NEW place \in {"started", "answering"},
         GoesTo(c, place) \/ Finished(c)
  PROVE  /\ req' \in [Clients -> Request]
         /\ \A d \in Clients : req'[d].at = "admitted" => req'[d] = req[d]
BY RequestFacts DEF ReqOK, GoesTo, Finished

\* A submission that is let through has passed the guard and the validator.
LEMMA Admission ==
  ASSUME ReqOK, NEW c \in Clients, NEW name \in Names, NEW p \in Inputs,
         AdvanceStep(c, name, p)
  PROVE  /\ req' \in [Clients -> Request]
         /\ \A d \in Clients :
              req'[d].at = "admitted" =>
                \/ req'[d] = req[d]
                \/ /\ d = c /\ req'[d].step = name /\ req'[d].payload = p
                   /\ IsCurrent(name) /\ Validate(name, p)
<1>1. CASE GoesTo(c, "answering") \/ Finished(c)
  BY <1>1, OtherPlaces
<1>2. CASE /\ IsCurrent(name) /\ Validate(name, p)
           /\ req' = [req EXCEPT ![c] = [at |-> "admitted", step |-> name,
                                         payload |-> p]]
  <2>1. [at |-> "admitted", step |-> name, payload |-> p] \in Request
    BY ServiceAssumption DEF Request
  <2>. QED  BY <1>2, <2>1 DEF ReqOK
<1>. QED  BY <1>1, <1>2 DEF AdvanceStep

\* Requests stay well-formed.
LEMMA NextReqOK ==
  ASSUME ReqOK, [ServiceNext]_serviceVars
  PROVE  ReqOK'
<1>1. CASE Worker \/ UNCHANGED serviceVars
  BY <1>1 DEF Worker, serviceVars, ReqOK
<1>2. CASE \E name \in InternalSteps : RecordStep(name)
  BY <1>2, ServiceAssumption DEF RecordStep, ReqOK
<1>3. ASSUME NEW c \in Clients, HandlerStep(c)
      PROVE  ReqOK'
  <2>1. CASE GetState(c)
    <3>1. req' \in [Clients -> Request]
      BY <2>1, OtherPlaces DEF GetState
    <3>. QED  BY <2>1, <3>1, ServiceAssumption DEF GetState, Receive, ReqOK
  <2>2. CASE \/ SignalEmailVerified(c) \/ SignalFails(c) \/ WriteState(c)
             \/ AdvanceSignal(c)
    <3>1. req' \in [Clients -> Request]
      BY <2>2, OtherPlaces DEF SignalEmailVerified, SignalFails, WriteState,
                               AdvanceSignal
    <3>2. requests' = requests
      BY <2>2 DEF SignalEmailVerified, SignalFails, WriteState, AdvanceSignal
    <3>. QED  BY <3>1, <3>2 DEF ReqOK
  <2>3. ASSUME NEW name \in Names, NEW p \in Inputs, AdvanceStep(c, name, p)
        PROVE  ReqOK'
    <3>1. req' \in [Clients -> Request]
      BY <2>3, Admission
    <3>2. requests' = requests + 1 /\ requests < MaxRequests
      BY <2>3 DEF AdvanceStep, Receive
    <3>. QED  BY <3>1, <3>2, ServiceAssumption DEF ReqOK
  <2>. QED  BY <1>3, <2>1, <2>2, <2>3 DEF HandlerStep
<1>. QED  BY <1>1, <1>2, <1>3 DEF ServiceNext

\* Requests are well-formed to begin with, and for ever.
LEMMA RequestsTyped == ServiceSpec => []ReqOK
<1>1. ServiceInit => ReqOK
  BY RequestFacts, ServiceAssumption DEF ServiceInit, ReqOK
<1>. QED  BY <1>1, NextReqOK, PTL DEF ServiceSpec

-----------------------------------------------------------------------------
\* A signal sent to a step is one the workflow allows, or goes unnoticed.
LEMMA SignalAllowed ==
  ASSUME NEW n, NEW p \in Payload, RoomFor(n), SignalStep(n, p), StoresSame
  PROVE  [Next]_vars
<1>1. CASE n \in Names
  BY <1>1 DEF AnySignal, StarterStep, Next
<1>2. CASE n \notin Names
  <2>1. n \notin Channels
    BY <1>2, CatalogAssumption DEF Channels, Names, StepNames
  <2>. QED
    BY <2>1 DEF SignalStep, Delivered, StoresSame, vars, temporalVars
<1>. QED  BY <1>1, <1>2

\* So is a start with a signal.
LEMMA SubmitAllowed ==
  ASSUME NEW n, RunsLeft, RoomFor(n), SubmitStep(n), StoresSame
  PROVE  [Next]_vars
<1>1. CASE n \in Names
  BY <1>1 DEF AnySubmit, StarterStep, Next
<1>2. CASE n \notin Names
  <2>1. n \notin Channels
    BY <1>2, CatalogAssumption DEF Channels, Names, StepNames
  <2>. QED
    BY <2>1 DEF SubmitStep, Delivered, BeginRun, Start, StarterStep, Next
<1>. QED  BY <1>1, <1>2

\* Every step of the service is a step of the workflow, or a stutter.
LEMMA NextSimulates ==
  ASSUME ReqOK, [ServiceNext]_serviceVars
  PROVE  [Next]_vars
<1>1. CASE Worker
  BY <1>1 DEF Worker, Next
<1>2. CASE \E name \in InternalSteps : RecordStep(name)
  BY <1>2, SubmitAllowed DEF RecordStep
<1>3. ASSUME NEW c \in Clients, HandlerStep(c)
      PROVE  [Next]_vars
  <2>1. CASE GetState(c)
    BY <2>1 DEF GetState, BeginRun, StarterStep, Next
  <2>2. CASE SignalEmailVerified(c)
    BY <2>2, SignalAllowed, RequestFacts DEF SignalEmailVerified
  <2>3. CASE AdvanceSignal(c)
    <3>1. req[c].payload \in Payload
      BY DEF ReqOK, Request
    <3>. QED  BY <2>3, <3>1, SignalAllowed DEF AdvanceSignal
  <2>4. CASE \/ SignalFails(c) \/ WriteState(c)
             \/ \E name \in Names, p \in Inputs : AdvanceStep(c, name, p)
    BY <2>4 DEF SignalFails, WriteState, AdvanceStep
  <2>. QED  BY <1>3, <2>1, <2>2, <2>3, <2>4 DEF HandlerStep
<1>4. CASE UNCHANGED serviceVars
  BY <1>4 DEF serviceVars
<1>. QED  BY <1>1, <1>2, <1>3, <1>4 DEF ServiceNext

\* The handlers use the workflow as OnboardingWorkflow allows, however many
\* clients there are and whatever they post (onboarding.go:95-185,
\* internal_onboarding.go:36-64).
THEOREM Simulation == ServiceSpec => ImplementsWorkflow
<1>1. ServiceInit => Init
  BY DEF ServiceInit
<1>. QED
  BY <1>1, NextSimulates, RequestsTyped, PTL
     DEF ServiceSpec, Spec, ImplementsWorkflow

\* What the workflow keeps invariant it keeps under the handlers.
LEMMA WorkflowInvariant == ServiceSpec => []IInv
BY Simulation, Invariant, PTL DEF ImplementsWorkflow

\* The two refinements together: under the handlers, whatever clients do, the
\* user's journey is the abstract one, its read-model goes forward within a run,
\* and a lock-out is final (onboarding.go:95-185, onboarding_workflow.go:62-165).
THEOREM ServiceImplementsJourney ==
  ServiceSpec => ImplementsJourney /\ ReadModelForward /\ LockedOutForGood
BY Simulation, Refinement, ForwardCorrect, LockedOutCorrect
   DEF ImplementsWorkflow

\* Type correctness of the handlers.
THEOREM ServiceTypeCorrect == ServiceSpec => []ServiceTypeOK
<1>1. IInv /\ ReqOK => ServiceTypeOK
  BY DEF IInv, ReqOK, ServiceTypeOK
<1>. QED  BY <1>1, WorkflowInvariant, RequestsTyped, PTL

-----------------------------------------------------------------------------
\* No user is locked out at the step the run waits for: the ordering guard and
\* the no-op check of AdvanceStep (onboarding.go:142-154) both let it pass.
THEOREM NeverLockedOut == ServiceSpec => []AwaitedStepIsAdmitted
<1>1. IInv => AwaitedStepIsAdmitted
  <2>. SUFFICES ASSUME IInv, phase = "await"
                PROVE  IsCurrent(Step.name) /\ ~AlreadyDone(Step.name)
    BY DEF AwaitedStepIsAdmitted
  <2>0. /\ TypeOK /\ PhaseInv /\ JourneyInv /\ ReadModelTracksRun
        /\ pos \in 1..Len(Steps)
        /\ Step.signal # None
    BY CatalogAssumption DEF IInv, TypeOK, PhaseInv
  <2>1. doc.currentStep = Step.name /\ doc.status # "absent"
    BY <2>0 DEF ReadModelTracksRun, JourneyInv
  <2>2. Step.name \in StepNames(Steps)
    BY <2>0 DEF StepNames, Step
  <2>3. doc.status # "completed"
    <3>1. ~MarkedComplete(Steps, pos - 1)
      BY <2>0, UserStepsAssumption, CatalogAssumption
         DEF MarkedComplete, Step
    <3>. QED  BY <2>0, <3>1 DEF ReadModelTracksRun, JourneyInv
  <2>4. ~stepCompleted(Step.name)
    <3>1. doc.steps = [i \in 1..(pos - 1) |-> Steps[i].name]
      BY <2>0 DEF ReadModelTracksRun, JourneyInv
    <3>. QED  BY <2>0, <3>1, CatalogAssumption DEF stepCompleted, Step
  <2>. QED
    BY <2>1, <2>2, <2>3, <2>4 DEF IsCurrent, AlreadyDone, StepInCatalog
<1>. QED  BY <1>1, WorkflowInvariant, PTL
-----------------------------------------------------------------------------
\* A name that was validated stays with the request, its signal and the run.
NamedInv ==
  /\ \A c \in Clients :
       req[c].at = "admitted" /\ req[c].step = "ORGANISATION_CREATED" =>
         req[c].payload.displayName # None
  /\ "ORGANISATION_CREATED" \in Channels =>
       \A k \in DOMAIN signals["ORGANISATION_CREATED"] :
         signals["ORGANISATION_CREATED"][k].displayName # None
  /\ OrganisationIsNamed

\* In a first run whatever the clients may read or have submitted is behind
\* the executor.
EarlyInv ==
  /\ runs = 0 => pos = 1 /\ run # "running"
  /\ runs <= 1 =>
       \A n \in {journey.currentStep, doc.currentStep} \ {None} : ReachedStep(n)
  /\ AdvanceNeverEarly

\* Only the requests themselves change what is admitted.
LEMMA AdmittedKept ==
  ASSUME ReqOK, [ServiceNext]_serviceVars,
         NEW d \in Clients, req'[d].at = "admitted"
  PROVE  \/ req'[d] = req[d]
         \/ /\ UNCHANGED vars
            /\ req'[d].step \in Names
            /\ IsCurrent(req'[d].step)
            /\ Validate(req'[d].step, req'[d].payload)
<1>1. CASE UNCHANGED req
  BY <1>1
<1>2. ASSUME NEW c \in Clients, HandlerStep(c)
      PROVE  \/ req'[d] = req[d]
             \/ /\ UNCHANGED vars
                /\ req'[d].step \in Names
                /\ IsCurrent(req'[d].step)
                /\ Validate(req'[d].step, req'[d].payload)
  <2>1. CASE \/ GetState(c) \/ SignalEmailVerified(c) \/ SignalFails(c)
             \/ WriteState(c) \/ AdvanceSignal(c)
    <3>1. GoesTo(c, "started") \/ GoesTo(c, "answering") \/ Finished(c)
      BY <2>1 DEF GetState, SignalEmailVerified, SignalFails, WriteState,
                  AdvanceSignal
    <3>. QED  BY <3>1, OtherPlaces
  <2>2. CASE \E name \in Names, p \in Inputs : AdvanceStep(c, name, p)
    BY <2>2, Admission DEF AdvanceStep
  <2>. QED  BY <1>2, <2>1, <2>2 DEF HandlerStep
<1>. QED
  BY <1>1, <1>2 DEF ServiceNext, Worker, RecordStep, serviceVars

\* What a step of the service does to the channels.
LEMMA ChannelsKept ==
  ASSUME TypeOK, ReqOK, [ServiceNext]_serviceVars, NEW n \in Channels
  PROVE  \/ signals'[n] \in {signals[n], << >>}
         \/ signals[n] # << >> /\ signals'[n] = Tail(signals[n])
         \/ /\ n \in InternalSteps \cup {"EMAIL_VERIFIED"}
            /\ signals'[n] = Append(signals[n], NoPayload)
         \/ \E c \in Clients : /\ req[c].at = "admitted" /\ req[c].step = n
                               /\ signals'[n] = Append(signals[n],
                                                       req[c].payload)
<1>. USE DEF TypeOK
<1>1. CASE Worker
  <2>1. CASE ReceiveSignal
    BY <2>1 DEF ReceiveSignal
  <2>2. CASE PersistStep \/ FinalPersist \/ RecordCompleted
    BY <2>2 DEF PersistStep, FinalPersist, RecordCompleted, AttemptSucceeded,
                AttemptFailed, Close, NoSignals, temporalVars
  <2>3. CASE CreateOrganisation
    BY <2>3 DEF CreateOrganisation, ReuseOrganisation, CreateNewOrganisation,
                CreateOrganisationRejected, AttemptSucceeded, AttemptFailed,
                Close, NoSignals
  <2>4. CASE Provision \/ CompleteProvisioning
    BY <2>4 DEF Provision, AlreadyProvisioned, ProvisionNew,
                CompleteProvisioning, AttemptSucceeded, AttemptFailed, Close,
                NoSignals
  <2>. QED  BY <1>1, <2>1, <2>2, <2>3, <2>4 DEF Worker, ExecutorStep
<1>2. CASE \E name \in InternalSteps : RecordStep(name)
  BY <1>2 DEF RecordStep, SubmitStep, StartIfAbsent, Delivered
<1>3. ASSUME NEW c \in Clients, HandlerStep(c)
      PROVE  \/ signals'[n] = signals[n]
             \/ /\ n = "EMAIL_VERIFIED"
                /\ signals'[n] = Append(signals[n], NoPayload)
             \/ /\ req[c].at = "admitted" /\ req[c].step = n
                /\ signals'[n] = Append(signals[n], req[c].payload)
  <2>1. CASE GetState(c)
    BY <2>1 DEF GetState, Start, StartIfAbsent
  <2>2. CASE SignalEmailVerified(c)
    BY <2>2 DEF SignalEmailVerified, SignalStep, Delivered
  <2>3. CASE AdvanceSignal(c)
    BY <2>3 DEF AdvanceSignal, SignalStep, Delivered
  <2>4. CASE \/ SignalFails(c) \/ WriteState(c)
             \/ \E name \in Names, p \in Inputs : AdvanceStep(c, name, p)
    BY <2>4 DEF SignalFails, WriteState, AdvanceStep, vars, temporalVars
  <2>. QED  BY <1>3, <2>1, <2>2, <2>3, <2>4 DEF HandlerStep
<1>4. CASE UNCHANGED serviceVars
  BY <1>4 DEF serviceVars, vars, temporalVars
<1>. QED  BY <1>1, <1>2, <1>3, <1>4 DEF ServiceNext

\* The run comes to create an organisation only by receiving the signal that
\* names it.
LEMMA NextNamed ==
  ASSUME IInv, ReqOK, NamedInv, [ServiceNext]_serviceVars
  PROVE  NamedInv'
<1>0. TypeOK /\ PhaseInv
  BY DEF IInv
<1>1. ASSUME NEW c \in Clients, req'[c].at = "admitted",
             req'[c].step = "ORGANISATION_CREATED"
      PROVE  req'[c].payload.displayName # None
  BY <1>1, AdmittedKept DEF NamedInv, Validate
<1>2. ASSUME "ORGANISATION_CREATED" \in Channels,
             NEW k \in DOMAIN signals'["ORGANISATION_CREATED"]
      PROVE  signals'["ORGANISATION_CREATED"][k].displayName # None
  <2>. DEFINE s == signals["ORGANISATION_CREATED"]
              t == signals'["ORGANISATION_CREATED"]
  <2>1. s \in Seq(Payload) /\ \A i \in DOMAIN s : s[i].displayName # None
    BY <1>0, <1>2 DEF TypeOK, NamedInv
  <2>2. \/ t \in {s, << >>}
        \/ s # << >> /\ t = Tail(s)
        \/ \E p \in Payload : p.displayName # None /\ t = Append(s, p)
    <3>1. "ORGANISATION_CREATED" \notin InternalSteps \cup {"EMAIL_VERIFIED"}
      BY UserStepsAssumption
    <3>2. \A c \in Clients : req[c].payload \in Payload
      BY DEF ReqOK, Request
    <3>. QED  BY <1>0, <1>2, <3>1, <3>2, ChannelsKept DEF NamedInv
  <2>. HIDE DEF s, t
  <2>3. \A i \in DOMAIN t : t[i].displayName # None
    <3>1. CASE s # << >> /\ t = Tail(s)
      <4>1. Len(t) = Len(s) - 1 /\ \A i \in 1..Len(t) : t[i] = s[i + 1]
        BY <2>1, <3>1
      <4>. QED  BY <2>1, <3>1, <4>1
    <3>2. CASE t \in {s, << >>}
      BY <2>1, <3>2
    <3>3. CASE \E p \in Payload : p.displayName # None /\ t = Append(s, p)
      BY <2>1, <3>3
    <3>. QED  BY <2>2, <3>1, <3>2, <3>3
  <2>. QED  BY <1>2, <2>3 DEF t
<1>3. OrganisationIsNamed'
  <2>. SUFFICES ASSUME phase' = "action", Step'.action = "CreateOrganisation"
                PROVE  ctx'.displayName # None
    BY DEF OrganisationIsNamed
  <2>0. [Next]_vars
    BY NextSimulates
  <2>1. CASE ReceiveSignal
    <3>1. Step' = Step /\ pos \in DOMAIN Steps /\ phase = "await"
      BY <1>0, <2>1, CatalogAssumption DEF ReceiveSignal, Step, PhaseInv, TypeOK
    <3>2. Step.signal = "ORGANISATION_CREATED"
      BY <3>1, UserStepsAssumption DEF Step
    <3>3. Step.signal \in Channels
      BY <3>1, <3>2 DEF Channels, Step, None
    <3>4. Head(signals[Step.signal]).displayName # None
      BY <1>0, <2>1, <3>2, <3>3 DEF ReceiveSignal, NamedInv, TypeOK
    <3>. QED
      BY <1>0, <2>1, <3>4 DEF ReceiveSignal, OrElse, TypeOK, Context
  <2>2. CASE PersistStep
    <3>1. Step' = Step /\ pos \in DOMAIN Steps
      BY <1>0, <2>2, CatalogAssumption DEF PersistStep, Step, PhaseInv, TypeOK
    <3>2. Step.signal # None
      BY <3>1, UserStepsAssumption DEF Step, None
    <3>. QED
      BY <2>2, <3>2 DEF PersistStep, AttemptSucceeded, AttemptFailed, Close,
                        AfterPersist
  <2>3. CASE CreateOrganisation
    BY <2>3 DEF CreateOrganisation, ReuseOrganisation, CreateNewOrganisation,
                CreateOrganisationRejected, AttemptSucceeded, AttemptFailed,
                Close, NothingMerged, NamedInv, OrganisationIsNamed, Step
  <2>4. CASE Provision \/ CompleteProvisioning
    BY <2>4 DEF Provision, CompleteProvisioning, NothingMerged, NamedInv,
                OrganisationIsNamed, Step
  <2>5. CASE RecordCompleted \/ FinalPersist
    BY <2>5 DEF RecordCompleted, FinalPersist, AttemptFailed, Close
  <2>6. CASE StarterStep
    BY <2>6 DEF StarterStep, BeginRun, AnySignal, AnySubmit, Start, SubmitStep,
                SignalStep, StartIfAbsent, executorVars, NamedInv,
                OrganisationIsNamed, Step
  <2>7. CASE UNCHANGED vars
    BY <2>7 DEF vars, executorVars, NamedInv, OrganisationIsNamed, Step
  <2>. QED
    BY <2>0, <2>1, <2>2, <2>3, <2>4, <2>5, <2>6, <2>7 DEF Next, ExecutorStep
<1>. QED  BY <1>1, <1>2, <1>3 DEF NamedInv

\* Auth0 is asked for an organisation only under a validated name
\* (stepvalidator.go:52-54), for every catalog in which the organisation waits
\* for its user.
THEOREM OrganisationNamed == ServiceSpec => []OrganisationIsNamed
<1>1. ServiceInit => NamedInv
  BY RequestFacts
     DEF ServiceInit, Init, NamedInv, OrganisationIsNamed, NoSignals
<1>2. NamedInv => OrganisationIsNamed
  BY DEF NamedInv
<1>. QED
  BY <1>1, <1>2, NextNamed, WorkflowInvariant, RequestsTyped, PTL
     DEF ServiceSpec

-----------------------------------------------------------------------------
\* A vertical that was validated stays with the request and its signal, and is
\* the journey's from its receipt until the step is completed.
VerticalInv ==
  /\ \A c \in Clients :
       req[c].at = "admitted" /\ req[c].step = "VERTICAL_SELECTED" =>
         req[c].payload.verticalName \in Verticals
  /\ "VERTICAL_SELECTED" \in Channels =>
       \A k \in DOMAIN signals["VERTICAL_SELECTED"] :
         signals["VERTICAL_SELECTED"][k].verticalName \in Verticals
  /\ phase \in {"action", "record"} /\ Step.name = "VERTICAL_SELECTED" =>
       journey.verticalName \in Verticals

\* Later payloads come with other steps.
LEMMA NextVertical ==
  ASSUME IInv, ReqOK, VerticalInv, [ServiceNext]_serviceVars
  PROVE  VerticalInv'
<1>0. TypeOK /\ PhaseInv
  BY DEF IInv
<1>1. ASSUME NEW c \in Clients, req'[c].at = "admitted",
             req'[c].step = "VERTICAL_SELECTED"
      PROVE  req'[c].payload.verticalName \in Verticals
  BY <1>1, AdmittedKept DEF VerticalInv, Validate
<1>2. ASSUME "VERTICAL_SELECTED" \in Channels,
             NEW k \in DOMAIN signals'["VERTICAL_SELECTED"]
      PROVE  signals'["VERTICAL_SELECTED"][k].verticalName \in Verticals
  <2>. DEFINE s == signals["VERTICAL_SELECTED"]
              t == signals'["VERTICAL_SELECTED"]
  <2>1. s \in Seq(Payload) /\ \A i \in DOMAIN s : s[i].verticalName \in Verticals
    BY <1>0, <1>2 DEF TypeOK, VerticalInv
  <2>2. \/ t \in {s, << >>}
        \/ s # << >> /\ t = Tail(s)
        \/ \E p \in Payload : p.verticalName \in Verticals /\ t = Append(s, p)
    <3>1. "VERTICAL_SELECTED" \notin InternalSteps \cup {"EMAIL_VERIFIED"}
      BY UserStepsAssumption
    <3>2. \A c \in Clients : req[c].payload \in Payload
      BY DEF ReqOK, Request
    <3>. QED  BY <1>0, <1>2, <3>1, <3>2, ChannelsKept DEF VerticalInv
  <2>. HIDE DEF s, t
  <2>3. \A i \in DOMAIN t : t[i].verticalName \in Verticals
    <3>1. CASE s # << >> /\ t = Tail(s)
      <4>1. Len(t) = Len(s) - 1 /\ \A i \in 1..Len(t) : t[i] = s[i + 1]
        BY <2>1, <3>1
      <4>. QED  BY <2>1, <3>1, <4>1
    <3>2. CASE t \in {s, << >>}
      BY <2>1, <3>2
    <3>3. CASE \E p \in Payload :
                 p.verticalName \in Verticals /\ t = Append(s, p)
      BY <2>1, <3>3
    <3>. QED  BY <2>2, <3>1, <3>2, <3>3
  <2>. QED  BY <1>2, <2>3 DEF t
<1>3. ASSUME phase' \in {"action", "record"}, Step'.name = "VERTICAL_SELECTED"
      PROVE  journey'.verticalName \in Verticals
  <2>0. [Next]_vars
    BY NextSimulates
  <2>1. CASE ReceiveSignal
    <3>1. Step' = Step /\ pos \in DOMAIN Steps /\ phase = "await"
      BY <1>0, <2>1, CatalogAssumption DEF ReceiveSignal, Step, PhaseInv, TypeOK
    <3>2. Step.signal = "VERTICAL_SELECTED"
      BY <1>3, <3>1, UserStepsAssumption DEF Step
    <3>3. Step.signal \in Channels
      BY <3>1, <3>2 DEF Channels, Step, None
    <3>4. Head(signals[Step.signal]).verticalName \in Verticals
      BY <1>0, <2>1, <3>2, <3>3 DEF ReceiveSignal, VerticalInv, TypeOK
    <3>5. Head(signals[Step.signal]).verticalName # None
      BY <3>4, ServiceAssumption, DataAssumption
    <3>. QED
      BY <1>0, <2>1, <3>4, <3>5 DEF ReceiveSignal, OrElse, TypeOK, Journey
  <2>2. CASE PersistStep
    <3>1. Step' = Step /\ pos \in DOMAIN Steps
      BY <1>0, <2>2, CatalogAssumption DEF PersistStep, Step, PhaseInv, TypeOK
    <3>2. Step.signal # None
      BY <1>3, <3>1, UserStepsAssumption DEF Step, None
    <3>. QED
      BY <1>3, <2>2, <3>2 DEF PersistStep, AttemptSucceeded, AttemptFailed,
                              Close, AfterPersist
  <2>3. CASE CreateOrganisation
    <3>1. journey'.verticalName = journey.verticalName
      BY <1>0, <2>3 DEF CreateOrganisation, ReuseOrganisation,
                CreateNewOrganisation, CreateOrganisationRejected, MergeOrg,
                NothingMerged, TypeOK, Journey
    <3>2. phase = "action" /\ Step' = Step
      BY <2>3 DEF CreateOrganisation, Step
    <3>. QED  BY <1>3, <3>1, <3>2 DEF VerticalInv
  <2>4. CASE Provision \/ CompleteProvisioning
    BY <1>3, <2>4 DEF Provision, CompleteProvisioning, NothingMerged,
                      VerticalInv, Step
  <2>5. CASE RecordCompleted \/ FinalPersist
    BY <1>3, <2>5 DEF RecordCompleted, FinalPersist, AttemptFailed, Close
  <2>6. CASE StarterStep
    BY <1>3, <2>6 DEF StarterStep, BeginRun, AnySignal, AnySubmit, Start,
                SubmitStep, SignalStep, StartIfAbsent, executorVars,
                VerticalInv, Step
  <2>7. CASE UNCHANGED vars
    BY <1>3, <2>7 DEF vars, executorVars, VerticalInv, Step
  <2>. QED
    BY <2>0, <2>1, <2>2, <2>3, <2>4, <2>5, <2>6, <2>7 DEF Next, ExecutorStep
<1>. QED  BY <1>1, <1>2, <1>3 DEF VerticalInv

\* The vertical selected is one of the cache (stepvalidator.go:70-77), whatever
\* the bodies of other steps bring along, for every catalog in which
\* VERTICAL_SELECTED waits for the user.
THEOREM VerticalSelected == ServiceSpec => []SelectedIsFromCache
<1>1. ServiceInit => VerticalInv
  BY RequestFacts DEF ServiceInit, Init, VerticalInv, NoSignals
<1>2. VerticalInv => SelectedIsFromCache
  BY DEF VerticalInv, SelectedIsFromCache
<1>. QED
  BY <1>1, <1>2, NextVertical, WorkflowInvariant, RequestsTyped, PTL
     DEF ServiceSpec
-----------------------------------------------------------------------------
\* In a first run the executor does not go back.
LEMMA FirstRunForward ==
  ASSUME IInv, EarlyInv, [Next]_vars, runs' <= 1
  PROVE  /\ runs <= 1 /\ pos' >= pos
         /\ runs' = 0 => pos' = 1 /\ run' # "running"
<1>0. TypeOK /\ PhaseInv
  BY DEF IInv
<1>1. CASE ExecutorStep
  <2>1. runs' = runs /\ pos' \in {pos, pos + 1}
    <3>1. CASE PersistStep \/ ReceiveSignal \/ FinalPersist
      BY <3>1 DEF PersistStep, ReceiveSignal, FinalPersist
    <3>2. CASE CreateOrganisation \/ Provision \/ CompleteProvisioning
      BY <3>2 DEF CreateOrganisation, Provision, CompleteProvisioning
    <3>3. CASE RecordCompleted
      BY <3>3 DEF RecordCompleted, temporalVars
    <3>. QED  BY <1>1, <3>1, <3>2, <3>3 DEF ExecutorStep
  <2>2. run = "running"
    BY <1>0, <1>1
       DEF ExecutorStep, PersistStep, ReceiveSignal, FinalPersist,
           CreateOrganisation, Provision, CompleteProvisioning,
           RecordCompleted, PhaseInv
  <2>. QED  BY <1>0, <2>1, <2>2 DEF TypeOK, EarlyInv
<1>2. CASE StarterStep
  BY <1>0, <1>2 DEF StarterStep, BeginRun, AnySignal, AnySubmit, Start,
                    SubmitStep, SignalStep, StartIfAbsent, executorVars, TypeOK,
                    EarlyInv
<1>3. CASE UNCHANGED vars
  BY <1>0, <1>3 DEF vars, temporalVars, executorVars, TypeOK, EarlyInv
<1>. QED  BY <1>1, <1>2, <1>3 DEF Next

\* The step shown is the one the executor is at, or the one shown before.
LEMMA ShownStep ==
  ASSUME IInv, [Next]_vars
  PROVE  \/ /\ {journey'.currentStep, doc'.currentStep} \ {None}
                 \subseteq {journey.currentStep, doc.currentStep}
         \/ /\ pos' = pos /\ pos <= Len(Steps)
            /\ journey'.currentStep = Step.name
            /\ doc'.currentStep \in {Step.name, doc.currentStep}
<1>0. TypeOK /\ PhaseInv
  BY DEF IInv
<1>. USE <1>0 DEF TypeOK, Journey
<1>1. CASE PersistStep
  BY <1>1 DEF PersistStep, Upsert, PhaseInv
<1>2. CASE ReceiveSignal \/ RecordCompleted \/ FinalPersist
  BY <1>2 DEF ReceiveSignal, RecordCompleted, FinalPersist, Upsert, storeVars
<1>3. CASE CreateOrganisation
  BY <1>3 DEF CreateOrganisation, ReuseOrganisation, CreateNewOrganisation,
              CreateOrganisationRejected, MergeOrg, NothingMerged, SetOrgID
<1>4. CASE Provision \/ CompleteProvisioning
  BY <1>4 DEF Provision, CompleteProvisioning, NothingMerged
<1>5. CASE StarterStep
  <2>1. doc' = doc /\ journey' \in {journey, NewJourney}
    BY <1>5 DEF StarterStep, BeginRun, AnySignal, AnySubmit, Start, SubmitStep,
                SignalStep, StartIfAbsent, executorVars, StoresSame, storeVars
  <2>2. NewJourney.currentStep = None
    BY DEF NewJourney, NoDoc
  <2>. QED  BY <2>1, <2>2
<1>6. CASE UNCHANGED vars
  BY <1>6 DEF vars, executorVars, storeVars
<1>. QED
  BY <1>1, <1>2, <1>3, <1>4, <1>5, <1>6 DEF Next, ExecutorStep

\* The step of that name is one of the first k.
AmongFirst(k, name) == \E i \in 1..k : i <= Len(Steps) /\ Steps[i].name = name

\* Nothing gets ahead of the executor in a first run.
LEMMA NextEarly ==
  ASSUME IInv, ReqOK, EarlyInv, [ServiceNext]_serviceVars
  PROVE  EarlyInv'
<1>0. TypeOK /\ TypeOK' /\ [Next]_vars
  BY NextSimulates, NextTypeOK DEF IInv
<1>1. CASE ~(runs' <= 1)
  BY <1>0, <1>1 DEF EarlyInv, AdvanceNeverEarly, TypeOK
<1>2. CASE runs' <= 1
  <2>1. /\ runs <= 1 /\ pos' >= pos
        /\ runs' = 0 => pos' = 1 /\ run' # "running"
    BY <1>0, <1>2, FirstRunForward
  <2>2. \A n : ReachedStep(n) => AmongFirst(pos', n)
    BY <1>0, <2>1 DEF ReachedStep, AmongFirst, TypeOK
  <2>3. ASSUME NEW n \in {journey'.currentStep, doc'.currentStep} \ {None}
        PROVE  AmongFirst(pos', n)
    <3>1. n \in {journey.currentStep, doc.currentStep} => AmongFirst(pos', n)
      BY <2>1, <2>2, <2>3 DEF EarlyInv
    <3>2. pos' = pos /\ pos <= Len(Steps) => AmongFirst(pos', Step.name)
      BY <1>0 DEF AmongFirst, Step, TypeOK
    <3>. QED  BY <1>0, <2>3, <3>1, <3>2, ShownStep
  <2>4. ASSUME NEW c \in Clients, req'[c].at = "admitted"
        PROVE  AmongFirst(pos', req'[c].step)
    <3>1. CASE req'[c] = req[c]
      <4>1. ReachedStep(req[c].step)
        BY <2>1, <2>4, <3>1 DEF EarlyInv, AdvanceNeverEarly
      <4>. QED  BY <2>2, <3>1, <4>1
    <3>2. CASE req'[c].step \in Names /\ IsCurrent(req'[c].step)
      <4>1. req'[c].step = doc.currentStep /\ req'[c].step # None
        BY <3>2, CatalogAssumption DEF IsCurrent, Names, StepNames
      <4>2. ReachedStep(doc.currentStep)
        BY <2>1, <4>1 DEF EarlyInv
      <4>. QED  BY <2>2, <4>1, <4>2
    <3>. QED  BY <2>4, <3>1, <3>2, AdmittedKept
  <2>5. ASSUME NEW n \in Channels \ (InternalSteps \cup {"EMAIL_VERIFIED"}),
               signals'[n] # << >>
        PROVE  AmongFirst(pos', n)
    <3>1. CASE signals[n] # << >>
      <4>1. ReachedStep(n)
        BY <2>1, <3>1 DEF EarlyInv, AdvanceNeverEarly
      <4>. QED  BY <2>2, <4>1
    <3>2. CASE \E c \in Clients : req[c].at = "admitted" /\ req[c].step = n
      <4>1. ReachedStep(n)
        BY <2>1, <3>2 DEF EarlyInv, AdvanceNeverEarly
      <4>. QED  BY <2>2, <4>1
    <3>. QED  BY <1>0, <2>5, <3>1, <3>2, ChannelsKept
  <2>6. /\ \A n \in {journey.currentStep, doc.currentStep}' \ {None} :
             ReachedStep(n)'
        /\ AdvanceNeverEarly'
    BY <2>3, <2>4, <2>5 DEF AdvanceNeverEarly, ReachedStep, AmongFirst
  <2>. QED  BY <2>1, <2>6 DEF EarlyInv
<1>. QED  BY <1>1, <1>2

\* In a user's first run no submission gets ahead of the executor, however
\* many requests race and however stale the documents they read
\* (onboarding.go:142-167).
THEOREM NeverEarly == ServiceSpec => []AdvanceNeverEarly
<1>1. ServiceInit => EarlyInv
  BY RequestFacts
     DEF ServiceInit, Init, EarlyInv, AdvanceNeverEarly, NoSignals, NewJourney,
         NoDoc
<1>2. EarlyInv => AdvanceNeverEarly
  BY DEF EarlyInv
<1>. QED
  BY <1>1, <1>2, NextEarly, WorkflowInvariant, RequestsTyped, PTL
     DEF ServiceSpec
=============================================================================
