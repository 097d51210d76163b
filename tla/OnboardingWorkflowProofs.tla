---------------------- MODULE OnboardingWorkflowProofs ----------------------
EXTENDS OnboardingWorkflow, TLAPS

\* What every step of a catalog has.
LEMMA StepFacts ==
  ASSUME NEW i \in 1..Len(Steps)
  PROVE  /\ i \in DOMAIN Steps
         /\ Steps[i] \in StepDef
         /\ Steps[i].name \in Names
         /\ Steps[i].name # None
         /\ Steps[i].signal # None => Steps[i].signal \in Channels
BY CatalogAssumption DEF Names, StepNames, Channels

\* The actions' names tell the actions, and the four resources, apart.
LEMMA ActionFacts ==
  \A r \in Resources :
    /\ ProvisionAction[r] \notin {None, "CreateOrganisation",
                                  "CompleteProvisioning"}
    /\ \A q \in Resources : ProvisionAction[q] = ProvisionAction[r] => q = r
<1>1. /\ ProvisionAction["kong"] = "ProvisionKong"
      /\ ProvisionAction["aws"] = "ProvisionAWS"
      /\ ProvisionAction["svix"] = "ProvisionSvix"
      /\ ProvisionAction["lago"] = "ProvisionLago"
  BY DEF ProvisionAction
<1>. QED  BY <1>1 DEF Resources, None

\* The initial documents, contexts and channels are what their types say.
LEMMA DataFacts ==
  /\ NoDoc \in Journey
  /\ NewJourney \in Journey
  /\ NewContext \in Context
  /\ NewRecord \in Record
  /\ NoPayload \in Payload
  /\ NoSignals \in [Channels -> Seq(Payload)]
<1>1. << >> \in Seq(Names)  OBVIOUS
<1>2. NoDoc \in Journey
  BY <1>1 DEF NoDoc, Journey
<1>3. NewJourney \in Journey
  BY <1>2 DEF NewJourney, Journey
<1>. QED
  BY <1>2, <1>3 DEF NewContext, Context, NewRecord, Record, NoPayload, Payload,
                    NoSignals

\* Type correctness: the initial states, then one lemma per action.
LEMMA InitTypeOK == Init => TypeOK
<1>1. Len(Steps) \in Nat  BY CatalogAssumption
<1>. QED
  BY <1>1, DataFacts, BoundsAssumption DEF Init, TypeOK, Phases

\* What the starter does to the channels.
LEMMA DeliveredType ==
  ASSUME TypeOK, NEW n, NEW p \in Payload
  PROVE  Delivered(n, p) \in [Channels -> Seq(Payload)]
BY DEF TypeOK, Delivered

\* Starts and signals (starter.go:30-109).
LEMMA StarterTypeOK == TypeOK /\ StarterStep => TypeOK'
<1>. SUFFICES ASSUME TypeOK, StarterStep PROVE TypeOK'
  OBVIOUS
<1>. USE BoundsAssumption
<1>0. Len(Steps) \in Nat  BY CatalogAssumption
<1>1. ASSUME NEW chans \in [Channels -> Seq(Payload)],
             StartIfAbsent(chans), StoresSame
      PROVE  TypeOK'
  BY <1>0, <1>1, DataFacts
     DEF TypeOK, StartIfAbsent, StoresSame, storeVars, externalVars,
         executorVars, Phases
<1>2. CASE BeginRun
  BY <1>1, <1>2 DEF BeginRun, Start, StoresSame, TypeOK
<1>3. CASE AnySignal
  <2>1. PICK n \in Names, p \in Payload : SignalStep(n, p)
    BY <1>3 DEF AnySignal
  <2>2. signals' \in [Channels -> Seq(Payload)]
    BY <2>1, DeliveredType DEF SignalStep
  <2>. QED
    BY <1>3, <2>1, <2>2 DEF AnySignal, SignalStep, TypeOK, StoresSame,
                            executorVars, storeVars, externalVars
<1>4. CASE AnySubmit
  <2>1. PICK n \in Names : SubmitStep(n)
    BY <1>4 DEF AnySubmit
  <2>2. Delivered(n, NoPayload) \in [Channels -> Seq(Payload)]
    BY DeliveredType, DataFacts
  <2>. QED
    BY <1>1, <1>4, <2>1, <2>2 DEF AnySubmit, SubmitStep
<1>. QED  BY <1>2, <1>3, <1>4 DEF StarterStep

\* The persist of each step (onboarding_workflow.go:98-102).
LEMMA PersistTypeOK == TypeOK /\ PhaseInv /\ PersistStep => TypeOK'
<1>. SUFFICES ASSUME TypeOK, PhaseInv, PersistStep PROVE TypeOK'
  OBVIOUS
<1>. USE BoundsAssumption
<1>1. pos \in 1..Len(Steps)  
  BY CatalogAssumption DEF TypeOK, PhaseInv, PersistStep
<1>2. journey' \in Journey
  BY <1>1, StepFacts DEF TypeOK, PersistStep, Journey, Step
<1>3. doc' \in Journey
  BY <1>2 DEF TypeOK, PersistStep, Upsert
<1>4. /\ run' \in {"none", "running", "completed", "failed"}
      /\ attempt' \in 0..(MaxAttempts - 1)
      /\ phase' \in Phases
      /\ signals' \in [Channels -> Seq(Payload)]
  BY DataFacts DEF TypeOK, PersistStep, AttemptSucceeded, AttemptFailed, Close, Phases, AfterPersist
<1>. QED
  BY <1>2, <1>3, <1>4 DEF TypeOK, PersistStep, externalVars

\* What becomes of the run and of its activity when an attempt ends.
LEMMA AttemptType ==
  ASSUME TypeOK, NEW next \in Phases,
         AttemptSucceeded(next) \/ AttemptFailed \/ Close("completed")
  PROVE  /\ run' \in {"none", "running", "completed", "failed"}
         /\ attempt' \in 0..(MaxAttempts - 1)
         /\ phase' \in Phases
         /\ signals' \in [Channels -> Seq(Payload)]
BY DataFacts, BoundsAssumption
   DEF TypeOK, AttemptSucceeded, AttemptFailed, Close, Phases

\* The receipt of a signal and its payload (onboarding_workflow.go:105-117).
LEMMA ReceiveTypeOK == TypeOK /\ PhaseInv /\ ReceiveSignal => TypeOK'
<1>. SUFFICES ASSUME TypeOK, PhaseInv, ReceiveSignal PROVE TypeOK'
  OBVIOUS
<1>1. pos \in 1..Len(Steps)
  BY CatalogAssumption DEF TypeOK, PhaseInv, ReceiveSignal
<1>2. Step.signal \in Channels
  BY <1>1, StepFacts DEF PhaseInv, ReceiveSignal, Step
<1>3. signals[Step.signal] \in Seq(Payload) /\ signals[Step.signal] # << >>
  BY <1>2 DEF TypeOK, ReceiveSignal
<1>4. /\ Head(signals[Step.signal]) \in Payload
      /\ Tail(signals[Step.signal]) \in Seq(Payload)
  BY <1>3
<1>5. journey' \in Journey /\ ctx' \in Context
  BY <1>4 DEF TypeOK, ReceiveSignal, Journey, Context, Payload, OrElse
<1>6. signals' \in [Channels -> Seq(Payload)]
  BY <1>2, <1>4 DEF TypeOK, ReceiveSignal
<1>7. phase' \in Phases
  BY DEF ReceiveSignal, AfterSignal, Phases
<1>. QED
  BY <1>5, <1>6, <1>7 DEF TypeOK, ReceiveSignal, storeVars, externalVars

\* The CreateOrganisation activity (activities.go:103-126).
LEMMA CreateTypeOK == TypeOK /\ CreateOrganisation => TypeOK'
<1>. SUFFICES ASSUME TypeOK, CreateOrganisation PROVE TypeOK'
  OBVIOUS
<1>. USE DEF TypeOK
<1>1. "record" \in Phases  BY DEF Phases
<1>2. CASE ReuseOrganisation
  <2>1. ctx' \in Context /\ journey' \in Journey
    BY <1>2 DEF ReuseOrganisation, MergeOrg, NothingMerged, Journey, Context
  <2>. QED
    BY <1>1, <1>2, <2>1, AttemptType DEF CreateOrganisation, ReuseOrganisation
<1>3. CASE CreateNewOrganisation
  <2>1. ctx' \in Context /\ journey' \in Journey
    BY <1>3 DEF CreateNewOrganisation, MergeOrg, NothingMerged, Journey,
                Context
  <2>2. doc' \in Journey
    BY <1>3 DEF CreateNewOrganisation, SetOrgID, Journey
  <2>3. AttemptSucceeded("record") \/ AttemptFailed
    BY <1>3 DEF CreateNewOrganisation
  <2>4. orgs' \in SUBSET OrgIds
    BY <1>3 DEF CreateNewOrganisation
  <2>. QED
    BY <1>1, <2>1, <2>2, <2>3, <2>4, AttemptType DEF CreateOrganisation
<1>4. CASE CreateOrganisationRejected
  BY <1>1, <1>4, AttemptType
     DEF CreateOrganisation, CreateOrganisationRejected, NothingMerged
<1>. QED  BY <1>2, <1>3, <1>4 DEF CreateOrganisation

\* A resource added to the record of p, and the record of p closed: a record
\* stays one, and what each of the two writes changes.
LEMMA AddedRecord ==
  ASSUME TypeOK, NEW p \in OrgIds \cup {None}, NEW r \in Resources,
         Recorded(p, r)
  PROVE  /\ records' \in [OrgIds \cup {None} -> Record]
         /\ \A o \in OrgIds \cup {None} :
              /\ records'[o].completed = records[o].completed
              /\ records'[o].resources =
                   records[o].resources \cup (IF o = p THEN {r} ELSE {})
<1>. DEFINE new == [records[p] EXCEPT !.resources = @ \cup {r}]
<1>1. records[p] \in Record  BY DEF TypeOK
<1>2. /\ new \in Record
      /\ new.completed = records[p].completed
      /\ new.resources = records[p].resources \cup {r}
  BY <1>1 DEF Record
<1>. HIDE DEF new
<1>3. records' = [records EXCEPT ![p] = new]
  BY DEF Recorded, new
<1>. QED  BY <1>2, <1>3 DEF TypeOK

LEMMA ClosedRecord ==
  ASSUME TypeOK, NEW p \in OrgIds \cup {None},
         records' = [records EXCEPT ![p].completed = TRUE]
  PROVE  /\ records' \in [OrgIds \cup {None} -> Record]
         /\ \A o \in OrgIds \cup {None} :
              /\ records'[o].resources = records[o].resources
              /\ records'[o].completed => records[o].completed \/ o = p
<1>. DEFINE new == [records[p] EXCEPT !.completed = TRUE]
<1>1. records[p] \in Record  BY DEF TypeOK
<1>2. new \in Record /\ new.resources = records[p].resources
  BY <1>1 DEF Record
<1>. HIDE DEF new
<1>3. records' = [records EXCEPT ![p] = new]
  BY DEF new
<1>. QED  BY <1>2, <1>3 DEF TypeOK

\* The provisioning activities (activities.go:173-216).
LEMMA ProvisionTypeOK == TypeOK /\ Provision => TypeOK'
<1>. SUFFICES ASSUME TypeOK, Provision PROVE TypeOK'
  OBVIOUS
<1>1. "record" \in Phases  BY DEF Phases
<1>2. AttemptSucceeded("record") \/ AttemptFailed
  BY DEF Provision, AlreadyProvisioned, ProvisionNew
<1>3. ctx.orgId \in OrgIds \cup {None}
  BY DEF TypeOK, Context
<1>4. records' \in [OrgIds \cup {None} -> Record]
  <2>1. PICK r \in Resources :
          UNCHANGED records \/ Recorded(ctx.orgId, r)
    BY DEF Provision, AlreadyProvisioned, ProvisionNew
  <2>2. CASE UNCHANGED records
    BY <2>2 DEF TypeOK
  <2>3. CASE Recorded(ctx.orgId, r)
    BY <1>3, <2>3, AddedRecord
  <2>. QED
    BY <2>1, <2>2, <2>3
<1>5. provisioned' \in [OrgIds \cup {None} -> SUBSET Resources]
  BY <1>3 DEF TypeOK, Provision, AlreadyProvisioned, ProvisionNew, AtProvider
<1>. QED
  BY <1>1, <1>2, <1>4, <1>5, AttemptType DEF TypeOK, Provision, NothingMerged

\* The CompleteProvisioning activity (activities.go:150-160).
LEMMA CompleteTypeOK == TypeOK /\ CompleteProvisioning => TypeOK'
<1>. SUFFICES ASSUME TypeOK, CompleteProvisioning PROVE TypeOK'
  OBVIOUS
<1>1. "record" \in Phases  BY DEF Phases
<1>2. AttemptSucceeded("record") \/ AttemptFailed
  BY DEF CompleteProvisioning
<1>3. records' \in [OrgIds \cup {None} -> Record]
  <2>1. ctx.orgId \in OrgIds \cup {None}
    BY DEF TypeOK, Context
  <2>2. CASE records' = records
    BY <2>2 DEF TypeOK
  <2>3. CASE records' = [records EXCEPT ![ctx.orgId].completed = TRUE]
    BY <2>1, <2>3, ClosedRecord
  <2>. QED
    BY <2>2, <2>3 DEF CompleteProvisioning
<1>. QED
  BY <1>1, <1>2, <1>3, AttemptType
     DEF TypeOK, CompleteProvisioning, NothingMerged, externalVars

\* The completion of a step (onboarding_workflow.go:138-149).
LEMMA RecordTypeOK == TypeOK /\ PhaseInv /\ RecordCompleted => TypeOK'
<1>. SUFFICES ASSUME TypeOK, PhaseInv, RecordCompleted PROVE TypeOK'
  OBVIOUS
<1>1. pos \in 1..Len(Steps)
  BY CatalogAssumption DEF TypeOK, PhaseInv, RecordCompleted
<1>2. Append(journey.steps, Step.name) \in Seq(Names)
  BY <1>1, StepFacts DEF TypeOK, Journey, Step
<1>3. journey' \in Journey
  BY <1>2 DEF TypeOK, RecordCompleted, Journey
<1>4. pos' \in 1..(Len(Steps) + 1)
  BY <1>1, CatalogAssumption DEF RecordCompleted
<1>. QED
  BY <1>3, <1>4 DEF TypeOK, RecordCompleted, Phases, temporalVars, storeVars,
                    externalVars

\* The last persist (onboarding_workflow.go:159-162).
LEMMA FinalTypeOK == TypeOK /\ FinalPersist => TypeOK'
<1>. SUFFICES ASSUME TypeOK, FinalPersist PROVE TypeOK'
  OBVIOUS
<1>1. "record" \in Phases  BY DEF Phases
<1>. QED
  BY <1>1, AttemptType DEF TypeOK, FinalPersist, Upsert, externalVars

\* Every step keeps the types.
LEMMA NextTypeOK == TypeOK /\ PhaseInv /\ [Next]_vars => TypeOK'
<1>1. TypeOK /\ UNCHANGED vars => TypeOK'
  BY DEF TypeOK, vars, temporalVars, executorVars, storeVars, externalVars
<1>. QED
  BY <1>1, StarterTypeOK, PersistTypeOK, ReceiveTypeOK, CreateTypeOK,
     ProvisionTypeOK, CompleteTypeOK, RecordTypeOK, FinalTypeOK
     DEF Next, ExecutorStep

-----------------------------------------------------------------------------
\* The phases follow each other within a step and within a run.
LEMMA NextPhaseInv == TypeOK /\ PhaseInv /\ [Next]_vars => PhaseInv'
<1>. SUFFICES ASSUME TypeOK, PhaseInv, [Next]_vars PROVE PhaseInv'
  OBVIOUS
<1>. USE CatalogAssumption
<1>0. Len(Steps) \in Nat /\ Len(Steps) > 0 /\ pos \in 1..(Len(Steps) + 1)
  BY DEF TypeOK
<1>1. CASE PersistStep
  BY <1>0, <1>1 DEF PhaseInv, PersistStep, AfterPersist, AttemptSucceeded,
                    AttemptFailed, Close, Step
<1>2. CASE ReceiveSignal
  BY <1>0, <1>2 DEF PhaseInv, ReceiveSignal, AfterSignal, Step
<1>3. CASE CreateOrganisation
  BY <1>0, <1>3 DEF PhaseInv, CreateOrganisation, ReuseOrganisation,
                    CreateNewOrganisation, CreateOrganisationRejected,
                    AttemptSucceeded, AttemptFailed, Close, Step
<1>4. CASE Provision
  BY <1>0, <1>4 DEF PhaseInv, Provision, AlreadyProvisioned, ProvisionNew,
                    AttemptSucceeded, AttemptFailed, Close, Step
<1>5. CASE CompleteProvisioning
  BY <1>0, <1>5 DEF PhaseInv, CompleteProvisioning,
                    AttemptSucceeded, AttemptFailed, Close, Step
<1>6. CASE RecordCompleted
  BY <1>0, <1>6 DEF PhaseInv, RecordCompleted, temporalVars, Step
<1>7. CASE FinalPersist
  BY <1>0, <1>7 DEF PhaseInv, FinalPersist, AttemptFailed, Close, Step
<1>8. CASE StarterStep
  BY <1>0, <1>8 DEF PhaseInv, StarterStep, BeginRun, AnySignal, AnySubmit,
                    Start, SubmitStep, SignalStep, StartIfAbsent,
                    executorVars, Step
<1>9. CASE UNCHANGED vars
  BY <1>9 DEF PhaseInv, vars, temporalVars, executorVars, Step
<1>. QED
  BY <1>1, <1>2, <1>3, <1>4, <1>5, <1>6, <1>7, <1>8, <1>9
     DEF Next, ExecutorStep

\* Type correctness of every behaviour of the workflow, for every catalog and
\* every bound: the phases are what makes Steps[pos] a step.
THEOREM TypeCorrect == Spec => [](TypeOK /\ PhaseInv)
<1>1. Init => PhaseInv
  BY CatalogAssumption DEF Init, PhaseInv
<1>. QED
  BY <1>1, InitTypeOK, NextTypeOK, NextPhaseInv, PTL DEF Spec

-----------------------------------------------------------------------------
\* One more completed step is one more name, and perhaps the completion.
LEMMA CompletedNames ==
  ASSUME NEW n \in 1..Len(Steps),
         NEW s, s = [i \in 1..(n - 1) |-> Steps[i].name]
  PROVE  Append(s, Steps[n].name) = [i \in 1..n |-> Steps[i].name]
<1>. DEFINE t == [i \in 1..n |-> Steps[i].name]
<1>1. Len(Steps) \in Nat /\ n \in Nat /\ n - 1 \in Nat
  BY CatalogAssumption
<1>2. \A i \in 1..n : Steps[i].name \in Names
  BY <1>1, StepFacts
<1>3. s \in Seq(Names) /\ Len(s) = n - 1
  BY <1>1, <1>2
<1>4. t \in Seq(Names) /\ Len(t) = n
  BY <1>1, <1>2
<1>5. Append(s, Steps[n].name) \in Seq(Names)
  BY <1>1, <1>2, <1>3
<1>6. Len(Append(s, Steps[n].name)) = n
  BY <1>1, <1>3
<1>7. ASSUME NEW i \in 1..n PROVE Append(s, Steps[n].name)[i] = t[i]
  <2>1. CASE i = n  BY <1>1, <1>3, <2>1
  <2>2. CASE i \in 1..(n - 1)  BY <1>1, <1>3, <2>2
  <2>. QED  BY <1>1, <2>1, <2>2
<1>. HIDE DEF t
<1>8. Append(s, Steps[n].name) = t
  BY <1>4, <1>5, <1>6, <1>7
<1>. QED  BY <1>8 DEF t

\* A position is marked completed by the step it completes or by an earlier one.
LEMMA OneMoreMarked ==
  ASSUME NEW n \in 1..Len(Steps)
  PROVE  MarkedComplete(Steps, n)
           <=> MarkedComplete(Steps, n - 1) \/ Steps[n].marksComplete
BY CatalogAssumption DEF MarkedComplete

\* The executor's journey stays a function of its position.
LEMMA NextJourneyInv ==
  TypeOK /\ PhaseInv /\ JourneyInv /\ [Next]_vars => JourneyInv'
<1>. SUFFICES ASSUME TypeOK, PhaseInv, JourneyInv, [Next]_vars
              PROVE  JourneyInv'
  OBVIOUS
<1>0. Len(Steps) \in Nat
  BY CatalogAssumption
<1>. DEFINE Same == /\ pos' = pos
                    /\ journey'.steps = journey.steps
                    /\ journey'.status = journey.status
<1>1. Same => JourneyInv'
  BY DEF JourneyInv
<1>2. CASE RecordCompleted
  <2>1. pos \in 1..Len(Steps) /\ pos' - 1 = pos
    BY <1>0, <1>2 DEF TypeOK, PhaseInv, RecordCompleted
  <2>2. journey'.steps = [i \in 1..(pos' - 1) |-> Steps[i].name]
    BY <1>2, <2>1, CompletedNames
       DEF TypeOK, Journey, JourneyInv, RecordCompleted, Step
  <2>3. journey'.status = IF MarkedComplete(Steps, pos' - 1)
                          THEN "completed" ELSE "in_progress"
    BY <1>2, <2>1, OneMoreMarked
       DEF TypeOK, Journey, JourneyInv, RecordCompleted, Step
  <2>. QED  BY <2>2, <2>3 DEF JourneyInv
<1>3. CASE StarterStep
  <2>1. CASE UNCHANGED <<pos, journey>>
    BY <2>1 DEF JourneyInv
  <2>2. CASE pos' = 1 /\ journey' = NewJourney
    BY <2>2 DEF JourneyInv, NewJourney, NoDoc, MarkedComplete
  <2>. QED
    BY <1>3, <2>1, <2>2 DEF StarterStep, BeginRun, AnySignal, AnySubmit, Start,
       SubmitStep, SignalStep, StartIfAbsent, executorVars
<1>4. CASE UNCHANGED vars
  BY <1>4 DEF JourneyInv, vars, executorVars
<1>5. CASE PersistStep
  BY <1>1, <1>5 DEF TypeOK, Journey, PersistStep
<1>6. CASE ReceiveSignal
  BY <1>1, <1>6 DEF TypeOK, Journey, ReceiveSignal
<1>7. CASE CreateOrganisation
  BY <1>1, <1>7 DEF TypeOK, Journey, CreateOrganisation, ReuseOrganisation,
     CreateNewOrganisation, CreateOrganisationRejected, MergeOrg, NothingMerged
<1>8. CASE Provision \/ CompleteProvisioning \/ FinalPersist
  BY <1>1, <1>8 DEF Provision, CompleteProvisioning, FinalPersist,
                    NothingMerged
<1>. QED
  BY <1>2, <1>3, <1>4, <1>5, <1>6, <1>7, <1>8 DEF Next, ExecutorStep

-----------------------------------------------------------------------------
\* Between the persist of a step and its completion nothing the read-model
\* shows of the journey changes.
LEMMA NextReadModel ==
  TypeOK /\ PhaseInv /\ JourneyInv /\ ReadModelTracksRun /\ [Next]_vars
    => ReadModelTracksRun'
<1>. SUFFICES ASSUME TypeOK, PhaseInv, JourneyInv, ReadModelTracksRun,
                     [Next]_vars,
                     phase' \in {"await", "action", "record"}
              PROVE  /\ doc'.currentStep = Step'.name
                     /\ doc'.steps = journey'.steps
                     /\ doc'.status = journey'.status
  BY DEF ReadModelTracksRun
<1>1. CASE PersistStep
  BY <1>1 DEF TypeOK, Journey, PersistStep, Upsert, AttemptSucceeded,
              AttemptFailed, Close, Step
<1>2. CASE ReceiveSignal
  BY <1>2 DEF TypeOK, Journey, ReceiveSignal, ReadModelTracksRun, storeVars,
              Step
<1>3. CASE CreateOrganisation
  <2>1. phase = "action" /\ pos' = pos
    BY <1>3 DEF CreateOrganisation
  <2>2. doc.status # "absent"
    BY <2>1 DEF ReadModelTracksRun, JourneyInv
  <2>3. /\ doc'.steps = doc.steps
        /\ doc'.status = doc.status
        /\ doc'.currentStep = doc.currentStep
    BY <1>3, <2>2
       DEF TypeOK, Journey, CreateOrganisation, ReuseOrganisation, SetOrgID,
           CreateNewOrganisation, CreateOrganisationRejected
  <2>4. /\ journey'.steps = journey.steps
        /\ journey'.status = journey.status
    BY <1>3 DEF TypeOK, Journey, CreateOrganisation, ReuseOrganisation,
       CreateNewOrganisation, CreateOrganisationRejected, MergeOrg,
       NothingMerged
  <2>. QED  BY <2>1, <2>3, <2>4 DEF ReadModelTracksRun, Step
<1>4. CASE Provision \/ CompleteProvisioning
  BY <1>4 DEF Provision, CompleteProvisioning, NothingMerged,
              ReadModelTracksRun, Step
<1>5. CASE RecordCompleted \/ FinalPersist
  BY <1>5 DEF RecordCompleted, FinalPersist, AttemptFailed, Close
<1>6. CASE StarterStep
  BY <1>6 DEF StarterStep, BeginRun, AnySignal, AnySubmit, Start, SubmitStep,
     SignalStep, StartIfAbsent, executorVars, StoresSame, storeVars,
     ReadModelTracksRun, Step
<1>7. CASE UNCHANGED vars
  BY <1>7 DEF vars, executorVars, storeVars, ReadModelTracksRun, Step
<1>. QED
  BY <1>1, <1>2, <1>3, <1>4, <1>5, <1>6, <1>7 DEF Next, ExecutorStep

-----------------------------------------------------------------------------
\* Nothing but CreateOrganisation touches the user's organisations, and
\* nothing but provisioning the records and the providers.
LEMMA OthersLeaveOrgs ==
  ASSUME TypeOK, [Next]_vars, ~CreateOrganisation
  PROVE  /\ orgs' = orgs
         /\ ctx'.orgId = ctx.orgId \/ ctx' = NewContext
         /\ doc' = doc \/ doc'.orgId = journey.orgId
BY DEF TypeOK, Journey, Context, Next, ExecutorStep, PersistStep, ReceiveSignal, Provision,
   CompleteProvisioning, RecordCompleted, FinalPersist, StarterStep, BeginRun,
   AnySignal, AnySubmit, Start, SubmitStep, SignalStep, StartIfAbsent,
   NothingMerged, Upsert, StoresSame, vars, executorVars, storeVars,
   externalVars

\* A step newly done had no action, or its action has just succeeded.
LEMMA DoneGrows ==
  ASSUME TypeOK, PhaseInv, [Next]_vars, NEW i \in DOMAIN Steps, Done(i)'
  PROVE  \/ Done(i)
         \/ Steps[i].action = None
         \/ i = pos /\ phase = "action" /\ phase' = "record"
<1>. USE CatalogAssumption DEF Done, TypeOK, PhaseInv
<1>1. CASE PersistStep
  BY <1>1 DEF PersistStep, AttemptSucceeded, AttemptFailed, AfterPersist,
              Close, Step
<1>2. CASE ReceiveSignal
  BY <1>2 DEF ReceiveSignal, AfterSignal, Step
<1>3. CASE CreateOrganisation \/ Provision \/ CompleteProvisioning
  BY <1>3 DEF CreateOrganisation, Provision, CompleteProvisioning
<1>4. CASE RecordCompleted
  BY <1>4 DEF RecordCompleted
<1>5. CASE FinalPersist
  BY <1>5 DEF FinalPersist, AttemptFailed, Close
<1>6. CASE StarterStep
  BY <1>6 DEF StarterStep, BeginRun, AnySignal, AnySubmit, Start, SubmitStep,
              SignalStep, StartIfAbsent, executorVars
<1>7. CASE UNCHANGED vars
  BY <1>7 DEF vars, executorVars
<1>. QED
  BY <1>1, <1>2, <1>3, <1>4, <1>5, <1>6, <1>7 DEF Next, ExecutorStep

\* While anything stays done, the context keeps its organisation.
LEMMA DoneKeepsOrg ==
  ASSUME TypeOK, PhaseInv, [Next]_vars, ~CreateOrganisation,
         NEW i \in DOMAIN Steps, Done(i)'
  PROVE  ctx'.orgId = ctx.orgId
<1>1. CASE StarterStep
  BY <1>1, CatalogAssumption
     DEF Done, StarterStep, BeginRun, AnySignal, AnySubmit, Start, SubmitStep,
         SignalStep, StartIfAbsent, executorVars
<1>2. CASE ~StarterStep
  BY <1>2 DEF TypeOK, Context, Next, ExecutorStep, PersistStep, ReceiveSignal,
     Provision, CompleteProvisioning, RecordCompleted, FinalPersist,
     NothingMerged, vars, executorVars
<1>. QED  BY <1>1, <1>2

\* Once an organisation has been made for the run, a later step knows it.
LEMMA ActionHasOrg ==
  ASSUME TypeOK, PhaseInv, OrgInv, phase = "action",
         Step.action # "CreateOrganisation"
  PROVE  ctx.orgId # None /\ ctx.orgId \in orgs
<1>1. pos \in DOMAIN Steps
  BY CatalogAssumption DEF TypeOK, PhaseInv
<1>2. PICK j \in 1..(pos - 1) : Steps[j].action = "CreateOrganisation"
  BY <1>1, ProvisioningOrderAssumption DEF PhaseInv, Step
<1>3. j \in DOMAIN Steps /\ Done(j)
  BY <1>1, <1>2, CatalogAssumption DEF Done
<1>. QED
  BY <1>2, <1>3 DEF OrgInv

\* The organisation that the run made stays the one its context names.
LEMMA NextOrgInv ==
  TypeOK /\ PhaseInv /\ OneOrganisation /\ OrgInv /\ [Next]_vars => OrgInv'
<1>. SUFFICES ASSUME TypeOK, PhaseInv, OneOrganisation, OrgInv, [Next]_vars
              PROVE  OrgInv'
  OBVIOUS
<1>1. CASE CreateOrganisation
  <2>1. /\ journey'.orgId = ctx'.orgId
        /\ ctx'.orgId \in orgs' \cup {None}
    <3>1. CASE ReuseOrganisation
      BY <3>1 DEF TypeOK, Journey, Context, OneOrganisation, OrgInv,
                  ReuseOrganisation, MergeOrg, NothingMerged
    <3>2. CASE CreateNewOrganisation
      <4>1. PICK o \in OrgIds :
              /\ orgs' = orgs \cup {o}
              /\ \/ \E emailFound \in BOOLEAN : MergeOrg(o, emailFound)
                 \/ NothingMerged
        BY <3>2 DEF CreateNewOrganisation
      <4>2. CASE NothingMerged
        BY <4>1, <4>2 DEF OrgInv, NothingMerged
      <4>3. ASSUME NEW emailFound \in BOOLEAN, MergeOrg(o, emailFound)
            PROVE  journey'.orgId = o /\ ctx'.orgId = o
        BY <4>3 DEF TypeOK, Journey, Context, MergeOrg
      <4>. QED  BY <4>1, <4>2, <4>3
    <3>3. CASE CreateOrganisationRejected
      BY <3>3 DEF OrgInv, CreateOrganisationRejected, NothingMerged
    <3>. QED
      BY <1>1, <3>1, <3>2, <3>3 DEF CreateOrganisation
  <2>3. \/ ctx'.orgId # None
        \/ ctx'.orgId = ctx.orgId /\ phase' # "record"
    BY <1>1, DataAssumption DEF TypeOK, Context, CreateOrganisation,
       ReuseOrganisation, CreateNewOrganisation, CreateOrganisationRejected,
       MergeOrg, NothingMerged, AttemptFailed, Close
  <2>4. \A i \in DOMAIN Steps :
          Done(i)' /\ Steps[i].action = "CreateOrganisation" =>
            ctx'.orgId # None
    BY <2>3, DoneGrows DEF OrgInv, None
  <2>. QED  BY <2>1, <2>4 DEF OrgInv
<1>2. CASE ~CreateOrganisation
  <2>1. /\ journey'.orgId = ctx'.orgId
        /\ ctx'.orgId \in orgs' \cup {None}
    <3>1. orgs' = orgs
      BY <1>2, OthersLeaveOrgs
    <3>2. CASE StarterStep
      BY <3>1, <3>2 DEF OrgInv, StarterStep, BeginRun, AnySignal, AnySubmit,
         Start, SubmitStep, SignalStep, StartIfAbsent, executorVars,
         NewContext, NewJourney, NoDoc
    <3>3. CASE PersistStep \/ ReceiveSignal \/ RecordCompleted
      BY <3>1, <3>3 DEF TypeOK, Journey, Context, OrgInv, PersistStep,
                        ReceiveSignal, RecordCompleted
    <3>4. CASE UNCHANGED <<journey, ctx>>
      BY <3>1, <3>4 DEF OrgInv
    <3>. QED
      BY <1>2, <3>2, <3>3, <3>4 DEF Next, ExecutorStep, Provision,
         CompleteProvisioning, FinalPersist, NothingMerged, vars, executorVars
  <2>2. ASSUME NEW i \in DOMAIN Steps, Done(i)',
               Steps[i].action = "CreateOrganisation"
        PROVE  ctx'.orgId # None
    <3>1. i # pos \/ phase # "action" \/ phase' # "record"
      BY <1>2, <2>2 DEF TypeOK, Next, ExecutorStep, PersistStep, ReceiveSignal,
         Provision, CompleteProvisioning, RecordCompleted, FinalPersist,
         StarterStep, BeginRun, AnySignal, AnySubmit, Start, SubmitStep,
         SignalStep, StartIfAbsent, vars, executorVars, Step, ProvisionAction,
         Resources
    <3>2. Done(i)
      BY <2>2, <3>1, DoneGrows DEF None
    <3>. QED
      BY <1>2, <2>2, <3>2, DoneKeepsOrg DEF OrgInv
  <2>. QED  BY <2>1, <2>2 DEF OrgInv
<1>. QED  BY <1>1, <1>2

\* No step makes a second organisation, nor provisions one that is not the user's.
LEMMA NextOneOrganisation ==
  TypeOK /\ PhaseInv /\ OneOrganisation /\ OrgInv /\ [Next]_vars
    => OneOrganisation'
<1>. SUFFICES ASSUME TypeOK, PhaseInv, OneOrganisation, OrgInv, [Next]_vars
              PROVE  OneOrganisation'
  OBVIOUS
<1>1. CASE CreateOrganisation
  BY <1>1 DEF TypeOK, Journey, OneOrganisation, CreateOrganisation,
     ReuseOrganisation, CreateNewOrganisation, CreateOrganisationRejected,
     CanCreateOrg, SetOrgID
<1>2. CASE Provision
  <2>1. PICK r \in Resources : AlreadyProvisioned(ctx.orgId, r)
                                 \/ ProvisionNew(ctx.orgId, r)
    BY <1>2 DEF Provision
  <2>2. ctx.orgId \in orgs
    BY <1>2, ActionHasOrg DEF Provision, ProvisionAction, Resources
  <2>3. \A o \in OrgIds \cup {None} :
          /\ provisioned'[o] # {} => o \in orgs
          /\ records'[o].resources \subseteq provisioned'[o]
    BY <2>1, <2>2 DEF TypeOK, Record, OneOrganisation, AlreadyProvisioned,
       ProvisionNew, AtProvider, Recorded
  <2>. QED
    BY <1>2, <2>3 DEF OneOrganisation, Provision
<1>3. CASE CompleteProvisioning
  <2>1. ctx.orgId \in OrgIds \cup {None}
    BY DEF TypeOK, Context
  <2>2. \A o \in OrgIds \cup {None} :
          records'[o].resources = records[o].resources
    BY <1>3, <2>1, ClosedRecord DEF CompleteProvisioning
  <2>. QED
    BY <1>3, <2>2 DEF OneOrganisation, CompleteProvisioning, externalVars
<1>4. CASE ~CreateOrganisation /\ ~Provision /\ ~CompleteProvisioning
  <2>1. records' = records /\ provisioned' = provisioned
    BY <1>4 DEF Next, ExecutorStep, PersistStep, ReceiveSignal,
       RecordCompleted, FinalPersist, StarterStep, BeginRun, AnySignal,
       AnySubmit, StoresSame, vars, storeVars, externalVars
  <2>. QED
    BY <1>4, <2>1, OthersLeaveOrgs DEF OneOrganisation, OrgInv
<1>. QED  BY <1>1, <1>2, <1>3, <1>4

-----------------------------------------------------------------------------
\* Records gain resources and lose none, and only CompleteProvisioning closes
\* one: that of the run's organisation, whose resources it leaves alone.
LEMMA RecordsGrow ==
  ASSUME TypeOK, [Next]_vars, NEW o \in OrgIds \cup {None}
  PROVE  /\ records[o].resources \subseteq records'[o].resources
         /\ provisioned[o] \subseteq provisioned'[o]
         /\ records'[o].completed =>
              records[o].completed \/ (CompleteProvisioning /\ o = ctx.orgId)
<1>0. ctx.orgId \in OrgIds \cup {None}
  BY DEF TypeOK, Context
<1>1. CASE Provision
  <2>1. PICK r \in Resources : AlreadyProvisioned(ctx.orgId, r)
                                 \/ ProvisionNew(ctx.orgId, r)
    BY <1>1 DEF Provision
  <2>2. UNCHANGED records \/ Recorded(ctx.orgId, r)
    BY <2>1 DEF AlreadyProvisioned, ProvisionNew
  <2>3. provisioned[o] \subseteq provisioned'[o]
    BY <1>0, <2>1 DEF TypeOK, AlreadyProvisioned, ProvisionNew, AtProvider
  <2>. QED
    BY <1>0, <2>2, <2>3, AddedRecord
<1>2. CASE CompleteProvisioning
  <2>1. \/ records' = records
        \/ records' = [records EXCEPT ![ctx.orgId].completed = TRUE]
    BY <1>2 DEF CompleteProvisioning
  <2>. QED
    BY <1>0, <1>2, <2>1, ClosedRecord DEF CompleteProvisioning, externalVars
<1>3. CASE ~Provision /\ ~CompleteProvisioning
  BY <1>3 DEF Next, ExecutorStep, PersistStep, ReceiveSignal,
     CreateOrganisation, RecordCompleted, FinalPersist, StarterStep, BeginRun,
     AnySignal, AnySubmit, StoresSame, vars, storeVars, externalVars
<1>. QED  BY <1>1, <1>2, <1>3

\* The record lists what the provisioning steps done so far provisioned.
LEMMA NextListed ==
  ASSUME TypeOK, PhaseInv, OrgInv, RecordInv, [Next]_vars,
         NEW i \in DOMAIN Steps, NEW r \in Resources,
         Done(i)', Steps[i].action = ProvisionAction[r]
  PROVE  r \in records'[ctx'.orgId].resources
<1>0. /\ Steps[i].action # "CreateOrganisation"
      /\ Steps[i].action # "CompleteProvisioning"
      /\ Steps[i].action # None
      /\ \A q \in Resources : Steps[i].action = ProvisionAction[q] => q = r
  BY ActionFacts
<1>1. CASE Done(i) /\ ~CreateOrganisation
  <2>1. r \in records[ctx.orgId].resources
    BY <1>1 DEF RecordInv
  <2>2. ctx'.orgId = ctx.orgId
    BY <1>1, DoneKeepsOrg
  <2>. QED
    BY <2>1, <2>2, RecordsGrow DEF TypeOK, Context
<1>2. CASE Done(i) /\ CreateOrganisation
  <2>1. i \in 1..(pos - 1) /\ pos \in DOMAIN Steps
    BY <1>2, CatalogAssumption DEF Done, CreateOrganisation, TypeOK, PhaseInv
  <2>2. PICK j \in 1..(i - 1) : Steps[j].action = "CreateOrganisation"
    BY <1>0, ProvisioningOrderAssumption
  <2>3. j \in DOMAIN Steps /\ j # pos
    BY <2>1, <2>2, CatalogAssumption
  <2>. QED
    BY <1>2, <2>1, <2>2, <2>3, ProvisioningOrderAssumption
       DEF CreateOrganisation, Step
<1>3. CASE ~Done(i)
  <2>1. i = pos /\ phase = "action" /\ phase' = "record"
    BY <1>0, <1>3, DoneGrows
  <2>2. Provision
    BY <1>0, <2>1 DEF Next, ExecutorStep, PersistStep, ReceiveSignal,
       CreateOrganisation, CompleteProvisioning, RecordCompleted, FinalPersist,
       StarterStep, BeginRun, AnySignal, AnySubmit, Start, SubmitStep,
       SignalStep, StartIfAbsent, vars, executorVars, Step
  <2>3. AlreadyProvisioned(ctx.orgId, r) \/ ProvisionNew(ctx.orgId, r)
    BY <1>0, <2>1, <2>2 DEF Provision, Step
  <2>4. ctx' = ctx
    BY <2>2 DEF Provision, NothingMerged
  <2>5. ~AttemptFailed
    BY <2>1 DEF AttemptFailed, Close
  <2>. QED
    BY <2>3, <2>4, <2>5 DEF TypeOK, Record, Context, AlreadyProvisioned,
       ProvisionNew, Recorded
<1>. QED  BY <1>1, <1>2, <1>3

\* Every resource is listed when the record is closed.
LEMMA NextWhole ==
  ASSUME TypeOK, PhaseInv, OneOrganisation, OrgInv, RecordInv, [Next]_vars,
         OneOrganisation'
  PROVE  CompletedRecordsAreWhole'
<1>0. ASSUME NEW o \in OrgIds \cup {None},
             records[o].resources = Resources, provisioned[o] = Resources
      PROVE  records'[o].resources = Resources /\ provisioned'[o] = Resources
  <2>1. TypeOK'
    BY NextTypeOK
  <2>2. records'[o] \in Record /\ provisioned'[o] \in SUBSET Resources
    BY <2>1 DEF TypeOK
  <2>. QED
    BY <1>0, <2>2, RecordsGrow DEF Record
<1>1. CASE CompleteProvisioning
  <2>1. pos \in DOMAIN Steps /\ Steps[pos].action = "CompleteProvisioning"
    BY <1>1, CatalogAssumption DEF TypeOK, PhaseInv, CompleteProvisioning, Step
  <2>2. ASSUME NEW r \in Resources PROVE r \in records[ctx.orgId].resources
    <3>1. PICK j \in 1..(pos - 1) : Steps[j].action = ProvisionAction[r]
      BY <2>1, ProvisioningOrderAssumption
    <3>2. j \in DOMAIN Steps /\ Done(j)
      BY <2>1, <3>1, CatalogAssumption DEF Done
    <3>. QED  BY <3>1, <3>2 DEF RecordInv
  <2>3. ctx.orgId \in OrgIds \cup {None}
    BY DEF TypeOK, Context
  <2>4. records[ctx.orgId].resources = Resources
    BY <2>2, <2>3 DEF TypeOK, Record
  <2>5. provisioned[ctx.orgId] = Resources
    <3>1. provisioned[ctx.orgId] \in SUBSET Resources
      BY <2>3 DEF TypeOK
    <3>2. records[ctx.orgId].resources \subseteq provisioned[ctx.orgId]
      BY <2>3 DEF OneOrganisation
    <3>. QED  BY <2>4, <3>1, <3>2
  <2>6. ASSUME NEW o \in OrgIds \cup {None}, records'[o].completed
        PROVE  records[o].resources = Resources /\ provisioned[o] = Resources
    BY <2>4, <2>5, <2>6, RecordsGrow DEF RecordInv, CompletedRecordsAreWhole
  <2>. QED
    BY <1>0, <2>6 DEF CompletedRecordsAreWhole
<1>2. CASE ~CompleteProvisioning
  <2>1. ASSUME NEW o \in OrgIds \cup {None}, records'[o].completed
        PROVE  records[o].resources = Resources /\ provisioned[o] = Resources
    BY <1>2, <2>1, RecordsGrow DEF RecordInv, CompletedRecordsAreWhole
  <2>. QED
    BY <1>0, <2>1 DEF CompletedRecordsAreWhole
<1>. QED  BY <1>1, <1>2

-----------------------------------------------------------------------------
\* What has been done stays done while the run is open and its context is not
\* renewed.
LEMMA DoneStays ==
  ASSUME TypeOK, PhaseInv, [Next]_vars, ctx'.orgId # None,
         NEW i \in DOMAIN Steps, Done(i)
  PROVE  Done(i)' \/ CreateOrganisation
<1>. USE CatalogAssumption DEF Done, TypeOK, PhaseInv
<1>1. CASE PersistStep \/ ReceiveSignal
  BY <1>1 DEF PersistStep, ReceiveSignal, AttemptSucceeded, AttemptFailed,
              Close
<1>2. CASE Provision \/ CompleteProvisioning \/ FinalPersist
  BY <1>2 DEF Provision, CompleteProvisioning, FinalPersist
<1>3. CASE RecordCompleted
  BY <1>3 DEF RecordCompleted
<1>4. CASE StarterStep
  BY <1>4 DEF StarterStep, BeginRun, AnySignal, AnySubmit, Start, SubmitStep,
              SignalStep, StartIfAbsent, executorVars, NewContext
<1>5. CASE UNCHANGED vars
  BY <1>5 DEF vars, executorVars
<1>. QED
  BY <1>1, <1>2, <1>3, <1>4, <1>5 DEF Next, ExecutorStep

\* The context gets an organisation from the step that makes it only.
LEMMA NextOwnOrg ==
  TypeOK /\ PhaseInv /\ OwnOrgInv /\ [Next]_vars => OwnOrgInv'
<1>. SUFFICES ASSUME TypeOK, PhaseInv, OwnOrgInv, [Next]_vars,
                     ctx'.orgId # None
              PROVE  \E i \in DOMAIN Steps :
                       Done(i)' /\ Steps[i].action = "CreateOrganisation"
  BY DEF OwnOrgInv
<1>1. CASE CreateOrganisation
  <2>1. /\ pos \in DOMAIN Steps /\ pos' = pos
        /\ Steps[pos].action = "CreateOrganisation"
        /\ phase = "action"
    BY <1>1, CatalogAssumption DEF CreateOrganisation, TypeOK, PhaseInv, Step
  <2>2. CASE phase' = "record"
    BY <2>1, <2>2 DEF Done
  <2>3. CASE phase' # "record"
    <3>1. ctx' = ctx
      BY <1>1, <2>3 DEF CreateOrganisation, ReuseOrganisation,
         CreateNewOrganisation, CreateOrganisationRejected, NothingMerged,
         AttemptSucceeded
    <3>2. PICK i \in DOMAIN Steps :
            Done(i) /\ Steps[i].action = "CreateOrganisation"
      BY <3>1 DEF OwnOrgInv
    <3>3. i \in 1..(pos - 1)
      BY <2>1, <3>2 DEF Done
    <3>. QED  BY <2>1, <3>2, <3>3 DEF Done
  <2>. QED  BY <2>2, <2>3
<1>2. CASE ~CreateOrganisation
  <2>1. ctx.orgId # None
    BY <1>2, OthersLeaveOrgs DEF NewContext
  <2>2. PICK i \in DOMAIN Steps :
          Done(i) /\ Steps[i].action = "CreateOrganisation"
    BY <2>1 DEF OwnOrgInv
  <2>. QED  BY <1>2, <2>2, DoneStays
<1>. QED  BY <1>1, <1>2

-----------------------------------------------------------------------------
\* Prefixes of sequences of step names.
LEMMA PrefixFacts ==
  ASSUME NEW s \in Seq(Names), NEW t \in Seq(Names), NEW x \in Names,
         IsPrefix(s, t)
  PROVE  IsPrefix(s, Append(t, x)) /\ IsPrefix(t, t) /\ IsPrefix(<< >>, t)
BY DEF IsPrefix

\* The document stays behind the journey of a run that has published.
LEMMA NextForwardInv ==
  ASSUME TypeOK, PhaseInv, JourneyInv, ReadModelTracksRun, OrgInv, ForwardInv,
         [Next]_vars
  PROVE  ForwardInv'
<1>. DEFINE Published == phase # "idle" /\ ~(pos = 1 /\ phase = "persist")
<1>0. journey.steps \in Seq(Names) /\ doc.steps \in Seq(Names)
  BY DEF TypeOK, Journey
<1>1. \A s \in Seq(Names) : IsPrefix(s, s)
  BY DEF IsPrefix
<1>2. CASE PersistStep
  <2>1. /\ journey' = [journey EXCEPT !.currentStep = Step.name]
        /\ pos' = pos
        /\ doc' = journey' \/ doc' = doc
        /\ doc' # journey' => phase' \in {phase, "idle"}
    BY <1>2 DEF PersistStep, Upsert, AttemptSucceeded, AttemptFailed, Close
  <2>2. /\ journey'.steps = journey.steps
        /\ journey'.status = journey.status
        /\ journey'.orgId = journey.orgId
    BY <2>1 DEF TypeOK, Journey
  <2>3. CASE doc' = journey'
    BY <1>0, <1>1, <2>2, <2>3 DEF ForwardInv
  <2>4. CASE doc' = doc /\ doc' # journey'
    BY <1>2, <2>1, <2>2, <2>4 DEF ForwardInv, PersistStep
  <2>. QED  BY <2>1, <2>3, <2>4 DEF ForwardInv
<1>3. CASE ReceiveSignal
  <2>1. /\ journey'.steps = journey.steps
        /\ journey'.status = journey.status
        /\ journey'.orgId = journey.orgId
        /\ doc' = doc /\ pos' = pos /\ phase = "await"
    BY <1>3 DEF ReceiveSignal, TypeOK, Journey, storeVars
  <2>. QED  BY <2>1 DEF ForwardInv
<1>4. CASE CreateOrganisation
  <2>1. /\ phase = "action" /\ pos' = pos
        /\ Step.action = "CreateOrganisation" /\ Step' = Step
    BY <1>4 DEF CreateOrganisation, Step
  <2>2. /\ doc'.steps = doc.steps
        /\ doc'.status = doc.status
        /\ journey'.steps = journey.steps
        /\ journey'.status = journey.status
    <3>1. doc.status # "absent"
      BY <2>1 DEF ReadModelTracksRun, JourneyInv
    <3>. QED
      BY <1>4, <3>1 DEF TypeOK, Journey, CreateOrganisation,
         ReuseOrganisation, CreateNewOrganisation, CreateOrganisationRejected,
         SetOrgID, MergeOrg, NothingMerged
  <2>3. phase' = "action" \/ phase' = "idle" \/ journey'.orgId = doc'.orgId
    BY <1>4, <2>1 DEF TypeOK, Journey, CreateOrganisation, ReuseOrganisation,
       CreateNewOrganisation, CreateOrganisationRejected, MergeOrg, SetOrgID,
       AttemptFailed, Close
  <2>. QED  BY <2>1, <2>2, <2>3 DEF ForwardInv
<1>5. CASE Provision \/ CompleteProvisioning
  <2>1. UNCHANGED <<journey, doc, pos>> /\ phase = "action"
    BY <1>5 DEF Provision, CompleteProvisioning, NothingMerged
  <2>2. Step.action # "CreateOrganisation"
    BY <1>5, ActionFacts DEF Provision, CompleteProvisioning
  <2>. QED  BY <2>1, <2>2 DEF ForwardInv
<1>6. CASE RecordCompleted
  <2>1. /\ journey'.steps = Append(journey.steps, Step.name)
        /\ journey'.status \in {journey.status, "completed"}
        /\ journey'.orgId = journey.orgId
        /\ doc' = doc
        /\ phase = "record"
    BY <1>6 DEF RecordCompleted, TypeOK, Journey, storeVars
  <2>2. pos \in 1..Len(Steps)
    BY <2>1, CatalogAssumption DEF TypeOK, PhaseInv
  <2>3. Step.name \in Names
    BY <2>2, StepFacts DEF Step
  <2>. QED
    BY <1>0, <2>1, <2>3, PrefixFacts DEF ForwardInv
<1>7. CASE FinalPersist
  <2>1. /\ journey' = journey
        /\ doc' = journey \/ doc' = doc
        /\ phase' # "idle" => phase' = phase
        /\ pos' = pos /\ phase = "final"
    BY <1>7 DEF FinalPersist, Upsert, AttemptFailed, Close
  <2>. QED  BY <1>0, <1>1, <2>1 DEF ForwardInv
<1>8. CASE StarterStep
  <2>1. \/ UNCHANGED <<doc, executorVars>>
        \/ pos' = 1 /\ phase' = "persist"
    BY <1>8 DEF StarterStep, BeginRun, AnySignal, AnySubmit, Start,
       SubmitStep, SignalStep, StartIfAbsent, StoresSame, storeVars
  <2>. QED  BY <2>1 DEF ForwardInv, executorVars, Step
<1>9. CASE UNCHANGED vars
  BY <1>9 DEF ForwardInv, vars, executorVars, storeVars, Step
<1>. QED
  BY <1>2, <1>3, <1>4, <1>5, <1>6, <1>7, <1>8, <1>9 DEF Next, ExecutorStep

\* Every step keeps the inductive invariant.
LEMMA NextIInv == IInv /\ [Next]_vars => IInv'
<1>. SUFFICES ASSUME IInv, [Next]_vars PROVE IInv'
  OBVIOUS
<1>. USE DEF IInv
<1>1. TypeOK' /\ PhaseInv' /\ JourneyInv' /\ ReadModelTracksRun'
  BY NextTypeOK, NextPhaseInv, NextJourneyInv, NextReadModel
<1>2. OneOrganisation' /\ OrgInv'
  BY NextOneOrganisation, NextOrgInv
<1>3. RecordInv'
  BY <1>2, NextListed, NextWhole DEF RecordInv
<1>4. OwnOrgInv' /\ ForwardInv'
  BY NextOwnOrg, NextForwardInv
<1>. QED  BY <1>1, <1>2, <1>3, <1>4

\* The inductive invariant holds of every behaviour of the workflow: for every
\* catalog that start-up validation accepts, every retry limit and every order
\* of starts, signals, failures and lost answers.
THEOREM Invariant == Spec => []IInv
<1>1. Init => IInv
  <2>. SUFFICES ASSUME Init PROVE IInv
    OBVIOUS
  <2>1. TypeOK /\ PhaseInv /\ ReadModelTracksRun
    BY InitTypeOK, CatalogAssumption DEF Init, PhaseInv, ReadModelTracksRun
  <2>2. JourneyInv
    BY DEF Init, JourneyInv, NewJourney, NoDoc, MarkedComplete
  <2>3. OneOrganisation
    BY DEF Init, OneOrganisation, NoDoc, NewRecord
  <2>4. OrgInv /\ RecordInv
    BY DEF Init, OrgInv, RecordInv, Done, CompletedRecordsAreWhole, NewJourney,
           NoDoc, NewContext, NewRecord
  <2>5. OwnOrgInv /\ ForwardInv
    BY DEF Init, OwnOrgInv, ForwardInv, NewContext
  <2>. QED  BY <2>1, <2>2, <2>3, <2>4, <2>5 DEF IInv
<1>2. IInv /\ [Next]_vars => IInv'
  BY NextIInv
<1>. QED  BY <1>1, <1>2, PTL DEF Spec

-----------------------------------------------------------------------------
\* The read-model shows the step a run waits in or acts for
\* (onboarding_workflow.go:98-102).
THEOREM ReadModelCorrect == Spec => []ReadModelTracksRun
<1>1. IInv => ReadModelTracksRun
  BY DEF IInv
<1>. QED  BY <1>1, Invariant, PTL

\* Whatever runs behind the step that marks the journey completed runs when
\* the user can read that it is (onboarding_workflow.go:120-135).
THEOREM LateActionsCorrect == Spec => []LateActionsSeeCompleted
<1>1. IInv => LateActionsSeeCompleted
  BY DEF IInv, JourneyInv, ReadModelTracksRun, LateActionsSeeCompleted
<1>. QED  BY <1>1, Invariant, PTL

\* A record is closed only with its four resources (activities.go:150-160).
THEOREM RecordsCorrect == Spec => []CompletedRecordsAreWhole
<1>1. IInv => CompletedRecordsAreWhole
  BY DEF IInv, RecordInv
<1>. QED  BY <1>1, Invariant, PTL

\* The user has at most one organisation, however often its creation is
\* retried and the workflow restarted (activities.go:103-126).
THEOREM OrganisationCorrect == Spec => []OneOrganisation
<1>1. IInv => OneOrganisation
  BY DEF IInv
<1>. QED  BY <1>1, Invariant, PTL

-----------------------------------------------------------------------------
\* Once the run has published, no write of the document loses a step, the
\* completion or the organisation: a whole-document write brings what the
\* journey has, which is ahead, and the field write touches one empty field.
LEMMA NextForward ==
  ASSUME IInv, [Next]_vars,
         phase # "idle", ~(pos = 1 /\ phase = "persist")
  PROVE  /\ IsPrefix(doc.steps, doc'.steps)
         /\ doc.status = "completed" => doc'.status = "completed"
         /\ doc.orgId # None => doc'.orgId = doc.orgId
<1>0. /\ TypeOK /\ PhaseInv /\ JourneyInv /\ ReadModelTracksRun /\ ForwardInv
      /\ journey.steps \in Seq(Names) /\ doc.steps \in Seq(Names)
  BY DEF IInv, TypeOK, Journey
<1>1. IsPrefix(doc.steps, doc.steps)
  BY <1>0 DEF IsPrefix
<1>2. CASE PersistStep
  <2>1. /\ journey'.steps = journey.steps
        /\ journey'.status = journey.status
        /\ journey'.orgId = journey.orgId
        /\ phase = "persist"
    BY <1>0, <1>2 DEF PersistStep, TypeOK, Journey
  <2>2. doc' = journey' \/ doc' = doc
    BY <1>2 DEF PersistStep, Upsert
  <2>. QED  BY <1>0, <1>1, <2>1, <2>2 DEF ForwardInv
<1>3. CASE CreateOrganisation
  <2>1. doc.status # "absent"
    BY <1>0, <1>3 DEF CreateOrganisation, ReadModelTracksRun, JourneyInv
  <2>2. \/ doc' = doc
        \/ doc.orgId = None /\ \E o \in OrgIds : SetOrgID(o)
    BY <1>3 DEF CreateOrganisation, ReuseOrganisation, CreateNewOrganisation,
       CreateOrganisationRejected
  <2>3. doc'.steps = doc.steps /\ doc'.status = doc.status
    BY <1>0, <2>1, <2>2 DEF TypeOK, Journey, SetOrgID
  <2>. QED  BY <1>1, <2>2, <2>3
<1>4. CASE FinalPersist
  <2>1. (doc' = journey \/ doc' = doc) /\ phase = "final"
    BY <1>4 DEF FinalPersist, Upsert
  <2>. QED  BY <1>0, <1>1, <2>1 DEF ForwardInv
<1>5. CASE \/ ReceiveSignal \/ Provision \/ CompleteProvisioning
           \/ RecordCompleted \/ StarterStep \/ UNCHANGED vars
  <2>1. doc' = doc
    BY <1>5 DEF ReceiveSignal, Provision, CompleteProvisioning,
       RecordCompleted, StarterStep, BeginRun, AnySignal, AnySubmit,
       StoresSame, vars, storeVars
  <2>. QED  BY <1>1, <2>1
<1>. QED
  BY <1>2, <1>3, <1>4, <1>5 DEF Next, ExecutorStep

\* Within a run the read-model only moves forward
\* (onboarding_journey_repo.go:32-72).
THEOREM ForwardCorrect == Spec => ReadModelForward
<1>1. IInv /\ [Next]_vars =>
        [phase # "idle" /\ ~(pos = 1 /\ phase = "persist") =>
           /\ IsPrefix(doc.steps, doc'.steps)
           /\ doc.status = "completed" => doc'.status = "completed"
           /\ doc.orgId # None => doc'.orgId = doc.orgId]_doc
  BY NextForward
<1>. QED  BY <1>1, Invariant, PTL DEF Spec, ReadModelForward

-----------------------------------------------------------------------------
\* A locked-out user's step: no attempt finds an organisation or may make one.
LEMMA NextLockedOut ==
  ASSUME IInv, [Next]_vars, LockedOut
  PROVE  LockedOut'
<1>0. TypeOK /\ PhaseInv
  BY DEF IInv
<1>1. CASE CreateOrganisation
  <2>1. CreateOrganisationRejected
    BY <1>1 DEF LockedOut, CreateOrganisation, ReuseOrganisation,
       CreateNewOrganisation, CanCreateOrg
  <2>2. /\ UNCHANGED <<orgs, doc, journey>>
        /\ run' = "running" => run = "running"
    BY <1>0, <1>1, <2>1 DEF CreateOrganisationRejected, NothingMerged,
       AttemptFailed, Close, PhaseInv, CreateOrganisation
  <2>. QED  BY <2>2 DEF LockedOut
<1>2. CASE PersistStep \/ FinalPersist
  <2>1. /\ run = "running"
        /\ orgs' = orgs
        /\ journey'.orgId = journey.orgId
        /\ doc' = doc \/ doc' = journey'
    BY <1>0, <1>2 DEF PersistStep, FinalPersist, Upsert, externalVars,
       PhaseInv, TypeOK, Journey
  <2>. QED  BY <2>1 DEF LockedOut
<1>3. CASE \/ ReceiveSignal \/ Provision \/ CompleteProvisioning
           \/ RecordCompleted
  <2>1. /\ run = "running"
        /\ UNCHANGED <<orgs, doc>>
        /\ journey'.orgId = journey.orgId
    BY <1>0, <1>3 DEF ReceiveSignal, Provision, CompleteProvisioning,
       RecordCompleted, NothingMerged, storeVars, externalVars, PhaseInv,
       TypeOK, Journey
  <2>. QED  BY <2>1 DEF LockedOut
<1>4. CASE StarterStep \/ UNCHANGED vars
  <2>1. /\ UNCHANGED <<orgs, doc>>
        /\ UNCHANGED <<run, journey>> \/ journey' = NewJourney
    BY <1>4 DEF StarterStep, BeginRun, AnySignal, AnySubmit, Start,
       SubmitStep, SignalStep, StartIfAbsent, StoresSame, vars, temporalVars,
       executorVars, storeVars, externalVars
  <2>. QED  BY <2>1 DEF LockedOut, NewJourney, NoDoc
<1>. QED
  BY <1>1, <1>2, <1>3, <1>4 DEF Next, ExecutorStep

\* A run that does not know the organisation is not past its making.
LEMMA LockedOutIsBehind ==
  IInv /\ LockedOut => ~PastOrganisation
<1>. SUFFICES ASSUME IInv, LockedOut, PastOrganisation PROVE FALSE
  OBVIOUS
<1>1. PICK i \in 1..(pos - 1) : Steps[i].action = "CreateOrganisation"
  BY DEF PastOrganisation
<1>2. i \in DOMAIN Steps /\ Done(i)
  BY <1>1, CatalogAssumption DEF IInv, TypeOK, Done
<1>. QED
  BY <1>1, <1>2 DEF IInv, OrgInv, LockedOut, PastOrganisation

\* A user whose organisation neither the document nor the run knows of is never
\* let in again (activities.go:103-114, httporgcreator.go:119-126).
THEOREM LockedOutCorrect == Spec => LockedOutForGood
<1>1. IInv /\ IInv' /\ [Next]_vars =>
        [LockedOut => LockedOut' /\ ~PastOrganisation']_vars
  <2>1. (IInv /\ LockedOut => ~PastOrganisation)'
    BY LockedOutIsBehind, PTL
  <2>. QED  BY <2>1, NextLockedOut
<1>. QED  BY <1>1, Invariant, PTL DEF Spec, LockedOutForGood

\* The same said of states: once locked out, locked out for ever.
THEOREM LockOutIsForever ==
  Spec => [](LockedOut => [](LockedOut /\ ~PastOrganisation))
<1>1. IInv /\ [Next]_vars /\ LockedOut => LockedOut'
  BY NextLockedOut
<1>2. IInv /\ LockedOut => ~PastOrganisation
  BY LockedOutIsBehind
<1>. QED  BY <1>1, <1>2, Invariant, PTL DEF Spec

\* A new run's first persist takes the organisation out of the document of a
\* user who has one (starter.go:62-82, onboarding_workflow.go:73-102).
THEOREM RestartLocksOutCorrect == Spec => RestartLocksOut
<1>1. IInv /\ [Next]_vars /\ pos = 1 /\ phase = "persist" /\ orgs # {}
        /\ doc' = journey' => LockedOut'
  <2>. SUFFICES ASSUME IInv, [Next]_vars, pos = 1, phase = "persist",
                       orgs # {}, doc' = journey'
                PROVE  LockedOut'
    OBVIOUS
  <2>0. TypeOK /\ PhaseInv /\ OrgInv /\ OwnOrgInv
    BY DEF IInv
  <2>1. journey.orgId = None
    BY <2>0 DEF OrgInv, OwnOrgInv, Done
  <2>2. CASE PersistStep
    BY <2>0, <2>1, <2>2 DEF PersistStep, TypeOK, Journey, LockedOut,
                            externalVars
  <2>3. CASE StarterStep \/ UNCHANGED vars
    <3>1. /\ orgs' = orgs
          /\ journey' = journey \/ journey' = NewJourney
      BY <2>3 DEF StarterStep, BeginRun, AnySignal, AnySubmit, Start,
         SubmitStep, SignalStep, StartIfAbsent, StoresSame, vars,
         executorVars, externalVars
    <3>. QED  BY <2>1, <3>1 DEF LockedOut, NewJourney, NoDoc
  <2>. QED
    BY <2>2, <2>3 DEF Next, ExecutorStep, ReceiveSignal, CreateOrganisation,
       Provision, CompleteProvisioning, RecordCompleted, FinalPersist
<1>. QED  BY <1>1, Invariant, PTL DEF Spec, RestartLocksOut

-----------------------------------------------------------------------------
\* An attempt's end takes the executor on in its step, uses up an attempt or
\* closes the run.
LEMMA AttemptAdvances ==
  ASSUME TypeOK, NEW next \in Phases, Rank(next) > Rank(phase), pos' = pos,
         AttemptSucceeded(next) \/ AttemptFailed
  PROVE  \/ run' # "running"
         \/ pos' = pos /\ Rank(phase') > Rank(phase)
         \/ pos' = pos /\ phase' = phase /\ attempt' > attempt
BY BoundsAssumption DEF TypeOK, AttemptSucceeded, AttemptFailed, Close

\* Whatever the executor does, it goes on to another place or another attempt.
LEMMA NextAdvances ==
  ASSUME TypeOK, PhaseInv, Next, run = "running", run' = "running",
         ~UNCHANGED executorVars
  PROVE  \/ pos' > pos
         \/ pos' = pos /\ Rank(phase') > Rank(phase)
         \/ pos' = pos /\ phase' = phase /\ attempt' > attempt
<1>0. /\ "record" \in Phases
      /\ AfterPersist(Step) \in Phases
      /\ Rank(AfterPersist(Step)) > 0
      /\ Rank(AfterSignal(Step)) > 1
      /\ Rank("persist") = 0 /\ Rank("await") = 1 /\ Rank("action") = 2
      /\ Rank("record") = 3 /\ Rank("final") = 0
  BY DEF Phases, AfterPersist, AfterSignal, Rank
<1>1. CASE PersistStep
  BY <1>0, <1>1, AttemptAdvances DEF PersistStep
<1>2. CASE ReceiveSignal
  BY <1>0, <1>2 DEF ReceiveSignal
<1>3. CASE CreateOrganisation
  <2>1. AttemptSucceeded("record") \/ AttemptFailed
    BY <1>3 DEF CreateOrganisation, ReuseOrganisation,
       CreateNewOrganisation, CreateOrganisationRejected
  <2>. QED
    BY <1>0, <1>3, <2>1, AttemptAdvances DEF CreateOrganisation
<1>4. CASE Provision \/ CompleteProvisioning
  <2>1. AttemptSucceeded("record") \/ AttemptFailed
    BY <1>4 DEF Provision, AlreadyProvisioned, ProvisionNew,
       CompleteProvisioning
  <2>. QED
    BY <1>0, <1>4, <2>1, AttemptAdvances
       DEF Provision, CompleteProvisioning
<1>5. CASE RecordCompleted
  BY <1>5, CatalogAssumption DEF RecordCompleted, TypeOK
<1>6. CASE FinalPersist
  BY <1>6, BoundsAssumption
     DEF FinalPersist, AttemptFailed, Close, TypeOK
<1>7. CASE StarterStep
  BY <1>7 DEF StarterStep, BeginRun, AnySignal, AnySubmit, Start,
     SubmitStep, SignalStep, StartIfAbsent
<1>. QED
  BY <1>1, <1>2, <1>3, <1>4, <1>5, <1>6, <1>7 DEF Next, ExecutorStep

\* An open run never comes back to where it has been
\* (onboarding_workflow.go:96-165).
THEOREM RunAdvancesCorrect == Spec => RunAdvances
BY NextAdvances, TypeCorrect, PTL DEF Spec, RunAdvances

-----------------------------------------------------------------------------
\* How far the abstract journey is, and when it is completed, in terms of the
\* executor's position.
LEMMA ReachedIsPos ==
  ASSUME TypeOK, JourneyInv
  PROVE  /\ Len(journey.steps) = pos - 1
         /\ pos - 1 \in 0..Len(Steps)
         /\ journey.status = "completed" <=> MarkedComplete(Steps, pos - 1)
         /\ journey.status # "absent"
<1>1. pos - 1 \in Nat /\ pos - 1 \in 0..Len(Steps)
  BY CatalogAssumption DEF TypeOK
<1>2. Len([i \in 1..(pos - 1) |-> Steps[i].name]) = pos - 1
  BY <1>1
<1>. QED  BY <1>1, <1>2 DEF JourneyInv

\* A whole-document write publishes the position the executor has reached.
LEMMA UpsertPublishes ==
  ASSUME TypeOK, JourneyInv, pos' = pos,
         doc'.steps = journey.steps, doc'.status = journey.status
  PROVE  shown' = J!View(Len(journey.steps))
BY ReachedIsPos DEF shown, J!View

\* A step of an activity maps to a stutter, a publication or the end of the
\* run, by what becomes of the run and of what is shown.
LEMMA ActivityMaps ==
  ASSUME run = "running",
         run' \in {"running", "failed", "completed"},
         Len(journey'.steps) = Len(journey.steps),
         \/ shown' = shown
         \/ shown' = J!View(Len(journey.steps))
  PROVE  [J!Next]_(J!vars)
<1>1. CASE run' = "running"
  BY <1>1 DEF J!Next, J!vars, J!Publish
<1>2. CASE run' # "running"
  BY <1>2 DEF J!Next, J!End
<1>. QED  BY <1>1, <1>2

\* Every step of the workflow is a step of the journey, or a stutter.
LEMMA NextRefines ==
  ASSUME IInv, [Next]_vars
  PROVE  [J!Next]_(J!vars)
<1>0. /\ TypeOK /\ PhaseInv /\ JourneyInv /\ ReadModelTracksRun
      /\ journey.steps \in Seq(Names)
  BY DEF IInv, TypeOK, Journey
<1>1. phase # "idle" => run = "running"
  BY <1>0 DEF PhaseInv
<1>2. CASE PersistStep
  <2>1. /\ journey'.steps = journey.steps
        /\ journey'.status = journey.status
        /\ pos' = pos
        /\ phase = "persist"
        /\ run' \in {run, "failed"}
        /\ doc' = journey' \/ doc' = doc
    BY <1>0, <1>2 DEF PersistStep, TypeOK, Journey, Upsert, AttemptSucceeded,
       AttemptFailed, Close
  <2>2. shown' = shown \/ shown' = J!View(Len(journey.steps))
    <3>1. CASE doc' = doc
      BY <3>1 DEF shown
    <3>2. CASE doc' = journey'
      BY <1>0, <2>1, <3>2, UpsertPublishes
    <3>. QED  BY <2>1, <3>1, <3>2
  <2>. QED  BY <1>1, <2>1, <2>2, ActivityMaps
<1>3. CASE ReceiveSignal
  <2>1. /\ UNCHANGED <<run, doc>>
        /\ journey'.steps = journey.steps
        /\ phase = "await"
    BY <1>0, <1>3 DEF ReceiveSignal, storeVars, TypeOK, Journey
  <2>2. shown' = shown
    BY <2>1 DEF shown
  <2>. QED  BY <1>1, <2>1, <2>2, ActivityMaps
<1>4. CASE CreateOrganisation
  <2>1. phase = "action" /\ doc.status # "absent"
    BY <1>0, <1>4 DEF CreateOrganisation, ReadModelTracksRun, JourneyInv
  <2>2. /\ run' \in {run, "failed"}
        /\ journey'.steps = journey.steps
        /\ doc'.steps = doc.steps
        /\ doc'.status = doc.status
    BY <1>0, <1>4, <2>1 DEF TypeOK, Journey, CreateOrganisation,
       ReuseOrganisation, CreateNewOrganisation, CreateOrganisationRejected,
       SetOrgID, MergeOrg, NothingMerged, AttemptSucceeded, AttemptFailed, Close
  <2>3. shown' = shown
    BY <2>2 DEF shown
  <2>. QED  BY <1>1, <2>1, <2>2, <2>3, ActivityMaps
<1>5. CASE Provision \/ CompleteProvisioning
  <2>1. /\ phase = "action"
        /\ UNCHANGED <<doc, journey>>
        /\ run' \in {run, "failed"}
    BY <1>5 DEF Provision, CompleteProvisioning, AlreadyProvisioned,
       ProvisionNew, NothingMerged, AttemptSucceeded, AttemptFailed, Close
  <2>2. shown' = shown
    BY <2>1 DEF shown
  <2>. QED  BY <1>1, <2>1, <2>2, ActivityMaps
<1>6. CASE RecordCompleted
  <2>1. /\ phase = "record"
        /\ UNCHANGED <<run, doc>>
        /\ journey'.steps = Append(journey.steps, Step.name)
    BY <1>0, <1>6 DEF RecordCompleted, temporalVars, storeVars, TypeOK, Journey
  <2>2. Len(journey'.steps) = Len(journey.steps) + 1
    BY <1>0, <2>1
  <2>3. pos - 1 < Len(Steps)
    BY <1>0, <2>1, CatalogAssumption DEF PhaseInv, TypeOK
  <2>4. shown = J!View(Len(journey.steps))
    BY <1>0, <2>1, ReachedIsPos DEF ReadModelTracksRun, shown, J!View
  <2>5. shown' = shown
    BY <2>1 DEF shown
  <2>6. J!Complete
    BY <1>0, <1>1, <2>1, <2>2, <2>3, <2>4, <2>5, ReachedIsPos DEF J!Complete
  <2>. QED  BY <2>6 DEF J!Next
<1>7. CASE FinalPersist
  <2>1. /\ phase = "final"
        /\ UNCHANGED <<journey, pos>>
        /\ run' \in {run, "failed", "completed"}
        /\ doc' = journey \/ doc' = doc
    BY <1>7 DEF FinalPersist, Upsert, AttemptFailed, Close
  <2>2. shown' = shown \/ shown' = J!View(Len(journey.steps))
    <3>1. CASE doc' = doc
      BY <3>1 DEF shown
    <3>2. CASE doc' = journey
      BY <1>0, <2>1, <3>2, UpsertPublishes
    <3>. QED  BY <2>1, <3>1, <3>2
  <2>. QED  BY <1>1, <2>1, <2>2, ActivityMaps
<1>8. CASE StarterStep
  <2>1. /\ doc' = doc
        /\ \/ UNCHANGED <<run, journey>>
           \/ run # "running" /\ run' = "running" /\ journey' = NewJourney
    BY <1>8 DEF StarterStep, BeginRun, AnySignal, AnySubmit, Start,
       SubmitStep, SignalStep, StartIfAbsent, StoresSame, storeVars,
       executorVars
  <2>2. shown' = shown
    BY <2>1 DEF shown
  <2>3. CASE UNCHANGED <<run, journey>>
    BY <2>2, <2>3 DEF J!vars
  <2>4. CASE run # "running" /\ run' = "running" /\ journey' = NewJourney
    <3>1. Len(journey'.steps) = 0
      BY <2>4 DEF NewJourney, NoDoc
    <3>. QED  BY <2>2, <2>4, <3>1 DEF J!Next, J!Begin
  <2>. QED  BY <2>1, <2>3, <2>4
<1>9. CASE UNCHANGED vars
  BY <1>9 DEF vars, temporalVars, executorVars, storeVars, shown, J!vars
<1>. QED
  BY <1>2, <1>3, <1>4, <1>5, <1>6, <1>7, <1>8, <1>9 DEF Next, ExecutorStep

\* The executor with its activities, over retries, lost answers and restarts,
\* implements the abstract journey (onboarding_workflow.go:62-165): a step is
\* completed only after the read-model has shown the user standing at it.
THEOREM Refinement == Spec => ImplementsJourney
<1>1. Init => J!Init
  <2>. SUFFICES ASSUME Init PROVE J!Init
    OBVIOUS
  <2>1. Len(journey.steps) = 0
    BY DEF Init, NewJourney, NoDoc
  <2>2. shown = J!Unpublished
    BY DEF Init, J!Unpublished, shown, NoDoc
  <2>3. (run = "running") = FALSE
    BY DEF Init
  <2>. QED  BY <2>1, <2>2, <2>3 DEF J!Init
<1>2. IInv /\ [Next]_vars => [J!Next]_(J!vars)
  BY NextRefines
<1>. QED
  BY <1>1, <1>2, Invariant, PTL DEF Spec, ImplementsJourney, J!Spec
=============================================================================
