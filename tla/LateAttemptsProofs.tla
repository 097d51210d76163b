------------------------- MODULE LateAttemptsProofs -------------------------
(***************************************************************************)
(* Writes of timed-out attempts, for any number of them under way, any     *)
(* catalog and any bounds: the read-model never shows what was not, and a  *)
(* closed record stands for resources that exist.  The lemmas about the    *)
(* core's own steps are OnboardingWorkflowProofs'; those of its invariant  *)
(* that say where the documents are do not hold here.                      *)
(***************************************************************************)
EXTENDS LateAttempts, OnboardingWorkflowProofs

\* d shows a position of a walk.
WasTrue(d) ==
  LET n == Len(d.steps)
  IN  /\ d.steps = [i \in 1..n |-> Steps[i].name]
      /\ d.currentStep \in {Steps[i].name : i \in {n, n + 1} \cap DOMAIN Steps}
      /\ d.status = "completed" <=> MarkedComplete(Steps, n)

\* ... that the run has been at, with an organisation of the user's.
Shown(d) ==
  /\ d.status # "absent"
  /\ WasTrue(d)
  /\ runs = 1 => Len(d.steps) <= Len(journey.steps)
  /\ d.orgId \in orgs \cup {None}

\* What is true of a write when it gets under way and stays true.
Held(w) ==
  /\ w \in Write
  /\ w.to = "journey" => Shown(w.journey)
  /\ w.to = "orgId" => w.orgId \in orgs /\ doc.status # "absent"
  /\ w.to = "record" => /\ w.record.resources \subseteq provisioned[w.orgId]
                        /\ w.record.completed => provisioned[w.orgId] = Resources

\* The journey names the step it was persisted with.
CurrentInv ==
  /\ phase \in {"await", "action", "record"} => journey.currentStep = Step.name
  /\ phase = "final" => journey.currentStep = Steps[Len(Steps)].name

\* The providers have what the provisioning steps of the run have asked for.
ProvidedInv ==
  /\ \A i \in DOMAIN Steps, r \in Resources :
       Done(i) /\ Steps[i].action = ProvisionAction[r] =>
         r \in provisioned[ctx.orgId]
  /\ ClosedIsProvisioned

\* Once the run has published, there is a document.
PresentInv ==
  phase # "idle" /\ ~(pos = 1 /\ phase = "persist") => doc.status # "absent"

\* Before the first run there is nothing.
FirstInv ==
  runs = 0 => run = "none" /\ doc.status = "absent" /\ late = {}

CoreInv == TypeOK /\ PhaseInv /\ JourneyInv /\ OneOrganisation /\ OrgInv

LateInv ==
  /\ CoreInv
  /\ CurrentInv
  /\ ProvidedInv
  /\ PresentInv
  /\ FirstInv
  /\ doc.status = "absent" \/ Shown(doc)
  /\ \A w \in late : Held(w)

EmitInv == emit \in 0..MaxAttempts

-----------------------------------------------------------------------------
LEMMA CoreNext == CoreInv /\ [Next]_vars => CoreInv'
BY NextTypeOK, NextPhaseInv, NextJourneyInv, NextOrgInv, NextOneOrganisation
   DEF CoreInv

\* The step the journey names changes at a persist only.
LEMMA NextCurrent ==
  TypeOK /\ PhaseInv /\ CurrentInv /\ [Next]_vars => CurrentInv'
<1>. SUFFICES ASSUME TypeOK, PhaseInv, CurrentInv, [Next]_vars
              PROVE  CurrentInv'
  OBVIOUS
<1>0. Len(Steps) \in Nat /\ pos \in Nat /\ journey \in Journey
  BY CatalogAssumption DEF TypeOK
<1>. USE DEF CurrentInv, Step
<1>1. CASE PersistStep
  <2>1. journey'.currentStep = Step.name /\ pos' = pos
    BY <1>0, <1>1 DEF PersistStep, Journey
  <2>2. phase' # "final"
    BY <1>1 DEF PersistStep, AttemptSucceeded, AttemptFailed, AfterPersist, Close
  <2>. QED  BY <2>1, <2>2
<1>2. CASE ReceiveSignal
  <2>1. journey'.currentStep = journey.currentStep /\ pos' = pos
        /\ phase = "await" /\ phase' # "final"
    BY <1>0, <1>2 DEF ReceiveSignal, AfterSignal, Journey
  <2>. QED  BY <2>1
<1>3. CASE CreateOrganisation
  <2>1. journey'.currentStep = journey.currentStep
    BY <1>0, <1>3 DEF CreateOrganisation, ReuseOrganisation,
       CreateNewOrganisation, CreateOrganisationRejected, MergeOrg,
       NothingMerged, Journey
  <2>2. phase = "action" /\ pos' = pos /\ phase' # "final"
    BY <1>3 DEF CreateOrganisation, ReuseOrganisation, CreateNewOrganisation,
       CreateOrganisationRejected, AttemptSucceeded, AttemptFailed, Close
  <2>. QED  BY <2>1, <2>2
<1>4. CASE Provision \/ CompleteProvisioning
  <2>1. journey' = journey /\ phase = "action" /\ pos' = pos /\ phase' # "final"
    BY <1>4 DEF Provision, CompleteProvisioning, AlreadyProvisioned,
       ProvisionNew, NothingMerged, AttemptSucceeded, AttemptFailed, Close
  <2>. QED  BY <2>1
<1>5. CASE RecordCompleted
  <2>1. journey'.currentStep = journey.currentStep
    BY <1>0, <1>5 DEF RecordCompleted, Journey
  <2>. QED  BY <1>0, <1>5, <2>1 DEF RecordCompleted
<1>6. CASE FinalPersist
  BY <1>6 DEF FinalPersist, AttemptFailed, Close
<1>7. CASE StarterStep
  BY <1>7 DEF StarterStep, BeginRun, AnySignal, AnySubmit, Start, SubmitStep,
              SignalStep, StartIfAbsent, executorVars
<1>8. CASE UNCHANGED vars
  BY <1>8 DEF vars, executorVars
<1>. QED
  BY <1>1, <1>2, <1>3, <1>4, <1>5, <1>6, <1>7, <1>8 DEF Next, ExecutorStep

\* Within a run the journey keeps the steps it has; a new run is one more.
LEMMA StepsGrow ==
  ASSUME TypeOK, PhaseInv, [Next]_vars
  PROVE  \/ /\ runs' = runs
            /\ Len(journey.steps) <= Len(journey'.steps)
         \/ /\ StarterStep
            /\ runs' = runs + 1
            /\ doc' = doc
<1>0. journey \in Journey /\ Len(journey.steps) \in Nat
  BY DEF TypeOK, Journey
<1>1. CASE RecordCompleted
  <2>1. runs' = runs
    BY <1>1 DEF RecordCompleted, temporalVars
  <2>2. journey'.steps = Append(journey.steps, Step.name)
    BY <1>0, <1>1 DEF RecordCompleted, Journey
  <2>3. Step.name \in Names
    BY <1>1, StepFacts, CatalogAssumption DEF RecordCompleted, Step, PhaseInv, TypeOK
  <2>4. Len(journey'.steps) = Len(journey.steps) + 1
    BY <1>0, <2>2, <2>3 DEF Journey
  <2>. QED  BY <1>0, <2>1, <2>4
<1>2. CASE StarterStep
  BY <1>0, <1>2 DEF StarterStep, BeginRun, AnySignal, AnySubmit, Start,
     SubmitStep, SignalStep, StartIfAbsent, executorVars, StoresSame, storeVars
<1>3. CASE UNCHANGED vars
  BY <1>0, <1>3 DEF vars, temporalVars, executorVars
<1>4. CASE ExecutorStep /\ ~RecordCompleted
  <2>1. runs' = runs
    BY <1>4 DEF ExecutorStep, PersistStep, ReceiveSignal, CreateOrganisation,
       Provision, CompleteProvisioning, FinalPersist
  <2>2. journey'.steps = journey.steps
    BY <1>0, <1>4 DEF ExecutorStep, PersistStep, ReceiveSignal,
       CreateOrganisation, ReuseOrganisation, CreateNewOrganisation,
       CreateOrganisationRejected, MergeOrg, NothingMerged, Provision,
       CompleteProvisioning, FinalPersist, Journey
  <2>. QED  BY <1>0, <2>1, <2>2
<1>. QED  BY <1>1, <1>2, <1>3, <1>4 DEF Next

\* What a persist writes shows where the executor is.
LEMMA PublishShows ==
  ASSUME CoreInv, CurrentInv, PersistStep \/ FinalPersist
  PROVE  Shown(journey)'
<1>0. /\ TypeOK /\ PhaseInv /\ JourneyInv /\ journey \in Journey
      /\ Len(Steps) \in Nat \ {0} /\ pos \in 1..(Len(Steps) + 1)
      /\ DOMAIN Steps = 1..Len(Steps)
  BY CatalogAssumption DEF CoreInv, TypeOK
<1>1. /\ journey'.steps = journey.steps /\ journey'.status = journey.status
      /\ journey'.orgId = journey.orgId
      /\ runs' = runs /\ orgs' = orgs
  BY <1>0 DEF PersistStep, FinalPersist, externalVars, Journey
<1>2. /\ journey.steps = [i \in 1..(pos - 1) |-> Steps[i].name]
      /\ journey.status = IF MarkedComplete(Steps, pos - 1)
                          THEN "completed" ELSE "in_progress"
  BY <1>0 DEF JourneyInv
<1>3. Len(journey.steps) = pos - 1
  <2>1. pos - 1 \in Nat
    BY <1>0
  <2>. QED  BY <1>2, <2>1, <1>0 DEF Journey
<1>4. journey'.currentStep
        \in {Steps[i].name : i \in {pos - 1, pos} \cap DOMAIN Steps}
  <2>1. CASE PersistStep
    <3>1. journey'.currentStep = Steps[pos].name
      BY <1>0, <2>1 DEF PersistStep, Step, Journey
    <3>2. pos \in DOMAIN Steps
      BY <1>0, <2>1 DEF PersistStep, PhaseInv
    <3>. QED  BY <3>1, <3>2
  <2>2. CASE FinalPersist
    <3>1. pos = Len(Steps) + 1 /\ journey'.currentStep = Steps[Len(Steps)].name
      BY <1>0, <2>2 DEF FinalPersist, PhaseInv, CurrentInv
    <3>2. pos - 1 = Len(Steps) /\ pos - 1 \in DOMAIN Steps
      BY <1>0, <3>1
    <3>. QED  BY <3>1, <3>2
  <2>. QED  BY <2>1, <2>2
<1>5. pos - 1 + 1 = pos /\ pos - 1 \in Nat
  BY <1>0
<1>6. journey'.orgId \in orgs' \cup {None}
  BY <1>1 DEF CoreInv, OrgInv
<1>7. WasTrue(journey')
  BY <1>1, <1>2, <1>3, <1>4, <1>5 DEF WasTrue
<1>8. journey'.status # "absent"
  BY <1>1, <1>2
<1>9. Len(journey'.steps) <= Len(journey'.steps)
  BY <1>1, <1>3, <1>5
<1>. QED  BY <1>6, <1>7, <1>8, <1>9 DEF Shown

\* How a step of the core changes the document.
LEMMA NextDoc ==
  ASSUME CoreInv, [Next]_vars
  PROVE  \/ doc' = doc
         \/ (PersistStep \/ FinalPersist) /\ doc' = journey'
         \/ CreateOrganisation /\ \E o \in OrgIds : SetOrgID(o) /\ o \in orgs'
<1>1. CASE CreateOrganisation
  BY <1>1 DEF CreateOrganisation, ReuseOrganisation, CreateNewOrganisation,
              CreateOrganisationRejected
<1>2. CASE ~CreateOrganisation
  BY <1>2 DEF Next, ExecutorStep, PersistStep, ReceiveSignal, Provision,
     CompleteProvisioning, RecordCompleted, FinalPersist, StarterStep, BeginRun,
     AnySignal, AnySubmit, StoresSame, Upsert, storeVars, vars
<1>. QED  BY <1>1, <1>2

LEMMA OrgsGrow ==
  ASSUME CoreInv, [Next]_vars
  PROVE  orgs \subseteq orgs'
<1>1. CASE CreateOrganisation
  BY <1>1 DEF CreateOrganisation, ReuseOrganisation, CreateNewOrganisation,
              CreateOrganisationRejected
<1>2. CASE ~CreateOrganisation
  BY <1>2, OthersLeaveOrgs DEF CoreInv
<1>. QED  BY <1>1, <1>2

\* What has been shown has been shown.
LEMMA StaysShown ==
  ASSUME CoreInv, FirstInv, [Next]_vars, NEW d \in Journey, Shown(d), runs # 0
  PROVE  /\ d.status # "absent"
         /\ WasTrue(d)
         /\ runs' = 1 => Len(d.steps) <= Len(journey'.steps)
         /\ d.orgId \in orgs' \cup {None}
<1>1. d.orgId \in orgs' \cup {None}
  BY OrgsGrow DEF Shown
<1>2. ASSUME runs' = 1 PROVE Len(d.steps) <= Len(journey'.steps)
  <2>0. runs \in Nat /\ Len(d.steps) \in Nat /\ Len(journey.steps) \in Nat
        /\ Len(journey'.steps) \in Nat
    BY CoreNext DEF CoreInv, TypeOK, Journey
  <2>1. runs = 1 /\ Len(journey.steps) <= Len(journey'.steps)
    BY <1>2, <2>0, StepsGrow DEF CoreInv
  <2>. QED  BY <2>0, <2>1 DEF Shown
<1>. QED  BY <1>1, <1>2 DEF Shown

-----------------------------------------------------------------------------
\* A provisioning step that is done in a run has been done for the organisation
\* the run still has.
LEMMA NextProvided ==
  ASSUME CoreInv, ProvidedInv, [Next]_vars,
         NEW i \in DOMAIN Steps, NEW r \in Resources,
         Done(i)', Steps[i].action = ProvisionAction[r]
  PROVE  r \in provisioned'[ctx'.orgId]
<1>. USE DEF CoreInv
<1>0. /\ Steps[i].action # "CreateOrganisation"
      /\ Steps[i].action # "CompleteProvisioning"
      /\ Steps[i].action # None
      /\ \A q \in Resources : Steps[i].action = ProvisionAction[q] => q = r
  BY ActionFacts
<1>1. CASE Done(i) /\ ~CreateOrganisation
  <2>1. r \in provisioned[ctx.orgId]
    BY <1>1 DEF ProvidedInv
  <2>2. ctx'.orgId = ctx.orgId
    BY <1>1, DoneKeepsOrg
  <2>. QED
    BY <2>1, <2>2, RecordsGrow DEF TypeOK, Context
<1>2. CASE Done(i) /\ CreateOrganisation
  <2>1. i \in 1..(pos - 1) /\ pos \in DOMAIN Steps
    BY <1>2, CatalogAssumption DEF Done, CreateOrganisation, TypeOK, PhaseInv
  <2>2. PICK j \in 1..(i - 1) : Steps[j].action = "CreateOrganisation"
    BY <1>0, ProvisioningOrderAssumption
  <2>3. j \in DOMAIN Steps /\ j # pos
    BY <2>1, <2>2, CatalogAssumption
  <2>. QED
    BY <1>2, <2>1, <2>2, <2>3, ProvisioningOrderAssumption
       DEF CreateOrganisation, Step
<1>3. CASE ~Done(i)
  <2>1. i = pos /\ phase = "action" /\ phase' = "record"
    BY <1>0, <1>3, DoneGrows
  <2>2. Provision
    BY <1>0, <2>1 DEF Next, ExecutorStep, PersistStep, ReceiveSignal,
       CreateOrganisation, CompleteProvisioning, RecordCompleted, FinalPersist,
       StarterStep, BeginRun, AnySignal, AnySubmit, Start, SubmitStep,
       SignalStep, StartIfAbsent, vars, executorVars, Step
  <2>3. AlreadyProvisioned(ctx.orgId, r) \/ ProvisionNew(ctx.orgId, r)
    BY <1>0, <2>1, <2>2 DEF Provision, Step
  <2>4. ctx' = ctx /\ ctx.orgId \in OrgIds \cup {None}
    BY <2>2 DEF Provision, NothingMerged, TypeOK, Context
  <2>5. ~AttemptFailed
    BY <2>1 DEF AttemptFailed, Close
  <2>6. CASE AlreadyProvisioned(ctx.orgId, r)
    BY <2>4, <2>6 DEF AlreadyProvisioned, OneOrganisation
  <2>7. CASE ProvisionNew(ctx.orgId, r)
    BY <2>4, <2>5, <2>7 DEF TypeOK, ProvisionNew, AtProvider
  <2>. QED  BY <2>3, <2>6, <2>7
<1>. QED  BY <1>1, <1>2, <1>3

\* When the record is to be closed, the providers have all four.
LEMMA ClosingFacts ==
  ASSUME CoreInv, ProvidedInv, phase = "action",
         Step.action = "CompleteProvisioning"
  PROVE  provisioned[ctx.orgId] = Resources
<1>. USE DEF CoreInv
<1>1. pos \in DOMAIN Steps /\ Steps[pos].action = "CompleteProvisioning"
  BY CatalogAssumption DEF TypeOK, PhaseInv, Step
<1>2. ASSUME NEW r \in Resources PROVE r \in provisioned[ctx.orgId]
  <2>1. PICK j \in 1..(pos - 1) : Steps[j].action = ProvisionAction[r]
    BY <1>1, ProvisioningOrderAssumption
  <2>2. j \in DOMAIN Steps /\ Done(j)
    BY <1>1, <2>1, CatalogAssumption DEF Done
  <2>. QED  BY <2>1, <2>2 DEF ProvidedInv
<1>3. provisioned[ctx.orgId] \in SUBSET Resources
  BY DEF TypeOK, Context
<1>. QED  BY <1>2, <1>3

\* A provider that has all four keeps them.
LEMMA AllKept ==
  ASSUME CoreInv, [Next]_vars, NEW o \in OrgIds \cup {None},
         provisioned[o] = Resources
  PROVE  provisioned'[o] = Resources
<1>1. provisioned'[o] \in SUBSET Resources
  BY CoreNext DEF CoreInv, TypeOK
<1>2. provisioned[o] \subseteq provisioned'[o]
  BY RecordsGrow DEF CoreInv
<1>. QED  BY <1>1, <1>2

LEMMA NextProvidedInv == CoreInv /\ ProvidedInv /\ [Next]_vars => ProvidedInv'
<1>. SUFFICES ASSUME CoreInv, ProvidedInv, [Next]_vars PROVE ProvidedInv'
  OBVIOUS
<1>1. ASSUME NEW o \in OrgIds, records'[o].completed
      PROVE  provisioned'[o] = Resources
  <2>1. records[o].completed \/ (CompleteProvisioning /\ o = ctx.orgId)
    BY <1>1, RecordsGrow DEF CoreInv
  <2>2. CASE records[o].completed
    BY <2>2, AllKept DEF ProvidedInv, ClosedIsProvisioned
  <2>3. CASE CompleteProvisioning /\ o = ctx.orgId
    <3>1. provisioned[o] = Resources
      BY <2>3, ClosingFacts DEF CompleteProvisioning
    <3>. QED  BY <3>1, AllKept
  <2>. QED  BY <2>1, <2>2, <2>3
<1>. QED  BY <1>1, NextProvided DEF ProvidedInv, ClosedIsProvisioned

-----------------------------------------------------------------------------
\* A step of the core leaves a published document published, ...
LEMMA NextPresent ==
  ASSUME CoreInv, PresentInv, [Next]_vars
  PROVE  /\ PresentInv'
         /\ doc.status # "absent" => doc'.status # "absent"
<1>. USE DEF CoreInv
<1>0. doc \in Journey /\ journey \in Journey /\ JourneyInv' /\ JourneyInv
  BY CoreNext DEF TypeOK
<1>1. doc.status # "absent" => doc'.status # "absent"
  BY <1>0, NextDoc DEF JourneyInv, SetOrgID, Journey
<1>2. PresentInv'
  <2>1. CASE PersistStep
    <3>1. CASE doc' = journey'
      BY <1>0, <3>1 DEF JourneyInv, PresentInv
    <3>2. CASE doc' = doc /\ AttemptFailed
      BY <2>1, <3>2 DEF PersistStep, PresentInv, AttemptFailed, Close
    <3>. QED  BY <2>1, <3>1, <3>2 DEF PersistStep, Upsert
  <2>2. CASE StarterStep
    BY <2>2 DEF StarterStep, BeginRun, AnySignal, AnySubmit, Start, SubmitStep,
       SignalStep, StartIfAbsent, executorVars, StoresSame, storeVars, PresentInv
  <2>3. CASE UNCHANGED vars
    BY <2>3 DEF vars, executorVars, storeVars, PresentInv
  <2>4. CASE RecordCompleted
    BY <1>1, <2>4 DEF RecordCompleted, PresentInv
  <2>5. CASE ReceiveSignal
    BY <1>1, <2>5 DEF ReceiveSignal, PresentInv
  <2>6. CASE CreateOrganisation \/ Provision \/ CompleteProvisioning
    BY <1>1, <2>6 DEF CreateOrganisation, Provision, CompleteProvisioning,
       PresentInv
  <2>7. CASE FinalPersist
    BY <1>1, <2>7 DEF FinalPersist, PresentInv
  <2>. QED
    BY <2>1, <2>2, <2>3, <2>4, <2>5, <2>6, <2>7 DEF Next, ExecutorStep
<1>. QED  BY <1>1, <1>2

\* ... and shown.
LEMMA NextShown ==
  ASSUME CoreInv, CurrentInv, FirstInv, PresentInv,
         doc.status = "absent" \/ Shown(doc), [Next]_vars
  PROVE  doc'.status = "absent" \/ Shown(doc)'
<1>0. doc \in Journey /\ doc' \in Journey /\ TypeOK /\ PhaseInv
  BY CoreNext DEF CoreInv, TypeOK
<1>1. CASE doc' = doc
  <2>1. CASE doc.status = "absent"
    BY <1>1, <2>1
  <2>2. CASE Shown(doc)
    <3>1. runs # 0
      BY <2>2 DEF FirstInv, Shown
    <3>. QED  BY <1>0, <1>1, <2>2, <3>1, StaysShown DEF Shown
  <2>. QED  BY <2>1, <2>2
<1>2. CASE (PersistStep \/ FinalPersist) /\ doc' = journey'
  <2>1. Shown(journey)'
    BY <1>2, PublishShows
  <2>. QED  BY <1>2, <2>1 DEF Shown
<1>3. CASE CreateOrganisation /\ \E o \in OrgIds : SetOrgID(o) /\ o \in orgs'
  <2>1. PICK o \in OrgIds : SetOrgID(o) /\ o \in orgs'
    BY <1>3
  <2>2. phase = "action" /\ doc.status # "absent"
    BY <1>3 DEF CreateOrganisation, PresentInv
  <2>3. /\ doc'.status = doc.status /\ doc'.steps = doc.steps
        /\ doc'.currentStep = doc.currentStep /\ doc'.orgId = o
    BY <1>0, <2>1, <2>2 DEF SetOrgID, Journey
  <2>4. runs # 0 /\ Shown(doc)
    BY <2>2 DEF FirstInv
  <2>5. /\ WasTrue(doc)
        /\ runs' = 1 => Len(doc.steps) <= Len(journey'.steps)
    BY <1>0, <2>4, StaysShown
  <2>6. WasTrue(doc')
    BY <2>3, <2>5 DEF WasTrue
  <2>. QED  BY <2>1, <2>2, <2>3, <2>5, <2>6 DEF Shown
<1>. QED  BY <1>1, <1>2, <1>3, NextDoc

-----------------------------------------------------------------------------
\* A write under way stays what it was when the attempt began it.
LEMMA HeldStays ==
  ASSUME CoreInv, FirstInv, PresentInv, [Next]_vars, NEW w \in late, Held(w)
  PROVE  Held(w)'
<1>1. w \in Write /\ w.orgId \in OrgIds \cup {None} /\ w.journey \in Journey
  BY DEF Held, Write
<1>2. runs # 0
  BY DEF FirstInv
<1>3. w.to = "journey" => Shown(w.journey)'
  BY <1>1, <1>2, StaysShown DEF Held, Shown
<1>4. w.to = "orgId" => w.orgId \in orgs' /\ doc'.status # "absent"
  BY OrgsGrow, NextPresent DEF Held
<1>5. w.to = "record" =>
        /\ w.record.resources \subseteq provisioned'[w.orgId]
        /\ w.record.completed => provisioned'[w.orgId] = Resources
  BY <1>1, RecordsGrow, AllKept DEF Held, CoreInv
<1>. QED  BY <1>1, <1>3, <1>4, <1>5 DEF Held

\* What an attempt may have under way when it is given up.
LEMMA NewWrites ==
  ASSUME LateInv, ExecutorStep, WriteUnderWay, NEW w \in late' \ late
  PROVE  Held(w)'
<1>0. /\ CoreInv /\ CoreInv' /\ [Next]_vars /\ TypeOK /\ TypeOK'
      /\ CurrentInv /\ ProvidedInv /\ PresentInv /\ FirstInv
      /\ ctx.orgId \in OrgIds \cup {None} /\ orgs' \subseteq OrgIds
  BY CoreNext DEF LateInv, CoreInv, Next, TypeOK, Context
<1>1. /\ NewRecord \in Record /\ NoDoc \in Journey
      /\ NoWrite \in Write /\ NoWrite.to = "journey"
  BY DataFacts DEF NoWrite, Write
<1>6. records[ctx.orgId] \in Record
  BY <1>0 DEF TypeOK
<1>2. CASE /\ phase \in {"persist", "final"}
           /\ w = JourneyWrite(journey')
  <2>1. PersistStep \/ FinalPersist
    BY <1>2 DEF ExecutorStep, ReceiveSignal, CreateOrganisation, Provision,
                CompleteProvisioning, RecordCompleted
  <2>2. Shown(journey)'
    BY <1>0, <2>1, PublishShows
  <2>3. w \in Write /\ w.to = "journey" /\ w.journey = journey'
    BY <1>0, <1>1, <1>2 DEF JourneyWrite, NoWrite, Write, TypeOK
  <2>. QED  BY <2>2, <2>3 DEF Held, Shown
<1>3. ASSUME NEW o \in orgs' \ orgs, w = OrgIdWrite(o)
      PROVE  Held(w)'
  <2>1. w \in Write /\ w.to = "orgId" /\ w.orgId = o
    BY <1>0, <1>1, <1>3 DEF OrgIdWrite, NoWrite, Write
  <2>2. CreateOrganisation
    BY <1>0, <1>3, OthersLeaveOrgs
  <2>3. doc.status # "absent"
    BY <1>0, <2>2 DEF CreateOrganisation, PresentInv
  <2>4. doc'.status # "absent"
    BY <1>0, <2>3, NextPresent
  <2>. QED  BY <1>3, <2>1, <2>4 DEF Held
<1>4. ASSUME NEW r \in Resources, phase = "action",
             Step.action = ProvisionAction[r],
             r \in provisioned'[ctx.orgId] \ records[ctx.orgId].resources,
             w = RecordWrite(ctx.orgId,
                   [records[ctx.orgId] EXCEPT !.resources = @ \cup {r}])
      PROVE  Held(w)'
  <2>. DEFINE rec == [records[ctx.orgId] EXCEPT !.resources = @ \cup {r}]
  <2>1. /\ rec \in Record /\ rec.completed = records[ctx.orgId].completed
        /\ rec.resources = records[ctx.orgId].resources \cup {r}
    BY <1>6 DEF Record
  <2>. HIDE DEF rec
  <2>2. w \in Write /\ w.to = "record" /\ w.orgId = ctx.orgId /\ w.record = rec
    BY <1>0, <1>1, <1>4, <2>1 DEF RecordWrite, NoWrite, Write, rec
  <2>3. rec.resources \subseteq provisioned'[ctx.orgId]
    <3>1. records[ctx.orgId].resources \subseteq provisioned'[ctx.orgId]
      BY <1>0, RecordsGrow DEF CoreInv, OneOrganisation
    <3>. QED  BY <1>4, <2>1, <3>1
  <2>4. ASSUME rec.completed PROVE provisioned'[ctx.orgId] = Resources
    <3>1. ctx.orgId \in OrgIds
      BY <1>0, <1>4, ActionHasOrg, ActionFacts DEF CoreInv
    <3>2. provisioned[ctx.orgId] = Resources
      BY <1>0, <2>1, <2>4, <3>1 DEF ProvidedInv, ClosedIsProvisioned
    <3>. QED  BY <1>0, <3>2, AllKept
  <2>. QED  BY <2>2, <2>3, <2>4 DEF Held
<1>5. ASSUME phase = "action", Step.action = "CompleteProvisioning",
             w = RecordWrite(ctx.orgId,
                   [records[ctx.orgId] EXCEPT !.completed = TRUE])
      PROVE  Held(w)'
  <2>. DEFINE rec == [records[ctx.orgId] EXCEPT !.completed = TRUE]
  <2>1. rec \in Record /\ rec.resources = records[ctx.orgId].resources
    BY <1>6 DEF Record
  <2>. HIDE DEF rec
  <2>2. w \in Write /\ w.to = "record" /\ w.orgId = ctx.orgId /\ w.record = rec
    BY <1>0, <1>1, <1>5, <2>1 DEF RecordWrite, NoWrite, Write, rec
  <2>3. provisioned'[ctx.orgId] = Resources
    BY <1>0, <1>5, ClosingFacts, AllKept
  <2>4. rec.resources \subseteq Resources
    BY <2>1 DEF Record
  <2>. QED  BY <2>2, <2>3, <2>4 DEF Held
<1>. QED  BY <1>2, <1>3, <1>4, <1>5 DEF WriteUnderWay

\* A late write puts into a store what held when it was under way.
LEMMA AppliedKeeps ==
  ASSUME LateInv, NEW w \in late, Applied(w),
         UNCHANGED <<temporalVars, executorVars, externalVars>>,
         late' = late \ {w}
  PROVE  LateInv'
<1>. USE DEF temporalVars, executorVars, externalVars
<1>0. /\ CoreInv /\ TypeOK /\ Held(w) /\ w \in Write
      /\ w.orgId \in OrgIds \cup {None} /\ w.journey \in Journey
      /\ w.record \in Record
  BY DEF LateInv, CoreInv, Held, Write
<1>1. /\ doc' \in Journey
      /\ doc.status # "absent" => doc'.status # "absent"
      /\ doc'.status = "absent" \/ Shown(doc)'
      /\ doc'.orgId \in orgs \cup {None}
  <2>1. CASE w.to = "journey" /\ Upsert(w.journey)
    BY <1>0, <2>1 DEF Upsert, Held, Shown
  <2>2. CASE w.to = "orgId" /\ SetOrgID(w.orgId)
    <3>1. doc \in Journey /\ doc.status # "absent" /\ w.orgId \in orgs /\ Shown(doc)
      BY <1>0, <2>2 DEF Held, TypeOK, LateInv
    <3>2. /\ doc' \in Journey
          /\ doc'.status = doc.status /\ doc'.steps = doc.steps
          /\ doc'.currentStep = doc.currentStep /\ doc'.orgId = w.orgId
      BY <1>0, <2>2, <3>1 DEF SetOrgID, Journey
    <3>3. WasTrue(doc')
      BY <3>1, <3>2 DEF Shown, WasTrue
    <3>. QED  BY <3>1, <3>2, <3>3 DEF Shown
  <2>3. CASE UNCHANGED doc
    BY <1>0, <2>3 DEF TypeOK, Shown, LateInv, CoreInv, OneOrganisation
  <2>. QED  BY <2>1, <2>2, <2>3 DEF Applied
<1>2. /\ records' \in [OrgIds \cup {None} -> Record]
      /\ \A o \in OrgIds \cup {None} :
           records'[o].resources \subseteq provisioned[o]
      /\ \A o \in OrgIds : records'[o].completed => provisioned[o] = Resources
  <2>1. CASE UNCHANGED records
    BY <1>0, <2>1
       DEF TypeOK, LateInv, CoreInv, OneOrganisation, ProvidedInv,
           ClosedIsProvisioned
  <2>2. CASE /\ w.to = "record"
             /\ records' = [records EXCEPT ![w.orgId] = w.record]
    BY <1>0, <2>2
       DEF TypeOK, LateInv, CoreInv, OneOrganisation, ProvidedInv,
           ClosedIsProvisioned, Held
  <2>. QED  BY <2>1, <2>2 DEF Applied
<1>3. CoreInv'
  <2>1. TypeOK'
    BY <1>0, <1>1, <1>2 DEF TypeOK
  <2>2. PhaseInv' /\ JourneyInv' /\ OrgInv'
    BY <1>0 DEF CoreInv, PhaseInv, JourneyInv, OrgInv, Done, Step
  <2>3. OneOrganisation'
    BY <1>0, <1>1, <1>2 DEF CoreInv, OneOrganisation
  <2>. QED  BY <2>1, <2>2, <2>3 DEF CoreInv
<1>4. CurrentInv' /\ ProvidedInv'
  BY <1>2 DEF LateInv, CurrentInv, ProvidedInv, ClosedIsProvisioned, Done, Step
<1>5. PresentInv' /\ FirstInv'
  BY <1>1 DEF LateInv, PresentInv, FirstInv
<1>6. \A v \in late' : Held(v)'
  BY <1>1 DEF LateInv, Held, Shown
<1>. QED  BY <1>1, <1>3, <1>4, <1>5, <1>6 DEF LateInv

\* A step of the core, with or without a write that it leaves under way.
LEMMA CoreStepKeeps ==
  ASSUME LateInv, [Next]_vars,
         \/ UNCHANGED late
         \/ ExecutorStep /\ WriteUnderWay
  PROVE  LateInv'
<1>0. /\ CoreInv /\ CurrentInv /\ ProvidedInv /\ PresentInv /\ FirstInv
      /\ doc.status = "absent" \/ Shown(doc)
      /\ TypeOK /\ PhaseInv /\ \A w \in late : Held(w)
  BY DEF LateInv, CoreInv
<1>1. CoreInv' /\ CurrentInv' /\ ProvidedInv' /\ PresentInv'
      /\ (doc'.status = "absent" \/ Shown(doc)')
  BY <1>0, CoreNext, NextCurrent, NextProvidedInv, NextPresent, NextShown
<1>2. FirstInv'
  <2>1. ASSUME runs' = 0
        PROVE  run' = "none" /\ doc'.status = "absent" /\ late' = {}
    <3>1. runs' = runs
      BY <1>0, <2>1, StepsGrow DEF TypeOK
    <3>2. run = "none" /\ doc.status = "absent" /\ late = {}
      BY <1>0, <2>1, <3>1 DEF FirstInv
    <3>3. phase = "idle"
      BY <1>0, <3>2 DEF PhaseInv
    <3>4. ~ExecutorStep
      BY <3>3 DEF ExecutorStep, PersistStep, ReceiveSignal, CreateOrganisation,
         Provision, CompleteProvisioning, RecordCompleted, FinalPersist
    <3>5. run' = run /\ doc' = doc
      BY <2>1, <3>1, <3>2, <3>4 DEF Next, StarterStep, BeginRun, AnySignal,
         AnySubmit, Start, SubmitStep, SignalStep, StartIfAbsent, StoresSame,
         storeVars, vars, temporalVars, TypeOK
    <3>. QED  BY <3>2, <3>4, <3>5
  <2>. QED  BY <2>1 DEF FirstInv
<1>3. ASSUME NEW w \in late' PROVE Held(w)'
  <2>1. CASE w \in late
    BY <1>0, <2>1, HeldStays
  <2>2. CASE w \notin late
    BY <2>2, NewWrites
  <2>. QED  BY <2>1, <2>2
<1>. QED  BY <1>1, <1>2, <1>3 DEF LateInv

LEMMA LateNextInv == LateInv /\ [LateNext]_lateVars => LateInv'
<1>. SUFFICES ASSUME LateInv, [LateNext]_lateVars PROVE LateInv'
  OBVIOUS
<1>1. CASE Execute
  <2>1. ExecutorStep /\ (UNCHANGED late \/ WriteUnderWay)
    BY <1>1 DEF Execute
  <2>. QED  BY <2>1, CoreStepKeeps DEF Next
<1>2. CASE EmitStepEvent
  <2>1. UNCHANGED vars /\ UNCHANGED late
    BY <1>2 DEF EmitStepEvent
  <2>. QED  BY <2>1, CoreStepKeeps
<1>3. CASE LateWrite
  <2>1. PICK w \in late : Applied(w) /\ late' = late \ {w}
    BY <1>3 DEF LateWrite
  <2>2. UNCHANGED <<temporalVars, executorVars, externalVars>>
    BY <1>3 DEF LateWrite
  <2>. QED  BY <2>1, <2>2, AppliedKeeps
<1>4. CASE Starter
  BY <1>4, CoreStepKeeps DEF Starter, Next
<1>5. CASE UNCHANGED lateVars
  BY <1>5, CoreStepKeeps DEF lateVars
<1>. QED  BY <1>1, <1>2, <1>3, <1>4, <1>5 DEF LateNext

LEMMA LateInitInv == LateInit => LateInv
<1>. SUFFICES ASSUME LateInit PROVE LateInv
  OBVIOUS
<1>1. TypeOK
  BY InitTypeOK DEF LateInit
<1>2. PhaseInv
  BY CatalogAssumption DEF LateInit, Init, PhaseInv
<1>3. JourneyInv
  BY DEF LateInit, Init, JourneyInv, NewJourney, NoDoc, MarkedComplete
<1>4. OneOrganisation
  BY DEF LateInit, Init, OneOrganisation, NoDoc, NewRecord
<1>5. \A i \in DOMAIN Steps : ~Done(i)
  BY DEF LateInit, Init, Done
<1>6. OrgInv
  BY <1>5 DEF LateInit, Init, OrgInv, NewJourney, NoDoc, NewContext
<1>7. ProvidedInv
  BY <1>5 DEF LateInit, Init, ProvidedInv, ClosedIsProvisioned, NewRecord
<1>8. CurrentInv /\ PresentInv /\ FirstInv /\ doc.status = "absent"
  BY DEF LateInit, Init, CurrentInv, PresentInv, FirstInv, NoDoc
<1>. QED
  BY <1>1, <1>2, <1>3, <1>4, <1>6, <1>7, <1>8 DEF LateInv, CoreInv, LateInit

LEMMA LateInvariant == LateSpec => []LateInv
BY LateInitInv, LateNextInv, PTL DEF LateSpec

\* No more attempts of EmitStepEvent than it may have.
LEMMA EmitInvariant == LateSpec => []EmitInv
<1>. USE BoundsAssumption DEF EmitInv
<1>1. LateInit => EmitInv
  BY DEF LateInit
<1>2. EmitInv /\ [LateNext]_lateVars => EmitInv'
  BY DEF LateNext, Execute, EmitStepEvent, LateWrite, Starter, lateVars
<1>. QED  BY <1>1, <1>2, PTL DEF LateSpec

-----------------------------------------------------------------------------
\* The core with late writes and step events is type-correct, for any number of
\* writes under way.
THEOREM LateTypeCorrect == LateSpec => []LateTypeOK
<1>1. LateInv /\ EmitInv => LateTypeOK
  BY DEF LateInv, CoreInv, EmitInv, Held, LateTypeOK
<1>. QED  BY <1>1, LateInvariant, EmitInvariant, PTL

\* One organisation at most, and every resource and record its own, even when
\* what timed-out attempts wrote arrives after their retries or after the run
\* (activities.go:76-84, 103-216).
THEOREM LateOneOrganisation == LateSpec => []OneOrganisation
<1>1. LateInv => OneOrganisation
  BY DEF LateInv, CoreInv
<1>. QED  BY <1>1, LateInvariant, PTL

\* Late writes may take the read-model back, but never to what it could not
\* have shown, for the document is written as a whole or by its one field
\* (onboarding_journey_repo.go:28-69).
THEOREM ReadModelWasTrueCorrect == LateSpec => []ReadModelWasTrue
<1>1. LateInv => ReadModelWasTrue
  BY DEF LateInv, ReadModelWasTrue, Shown, WasTrue
<1>. QED  BY <1>1, LateInvariant, PTL

\* A record is closed, whenever the write arrives, for resources that exist
\* (activities.go:150-216).
THEOREM ClosedIsProvisionedCorrect == LateSpec => []ClosedIsProvisioned
<1>1. LateInv => ClosedIsProvisioned
  BY DEF LateInv, ProvidedInv
<1>. QED  BY <1>1, LateInvariant, PTL

\* Neither a late write nor an event that fails takes the executor back to a
\* place it has left (onboarding_workflow.go:96-165).
THEOREM LateRunAdvances == LateSpec => RunAdvances
<1>1. ASSUME LateInv, [LateNext]_lateVars, run = "running", run' = "running",
             ~UNCHANGED executorVars
      PROVE  \/ pos' > pos
             \/ pos' = pos /\ Rank(phase') > Rank(phase)
             \/ pos' = pos /\ phase' = phase /\ attempt' > attempt
  <2>1. CASE Execute \/ Starter
    BY <1>1, <2>1, NextAdvances DEF Execute, Starter, Next, LateInv, CoreInv
  <2>. QED
    BY <1>1, <2>1 DEF LateNext, EmitStepEvent, LateWrite, lateVars, vars
<1>. QED
  BY <1>1, LateInvariant, PTL DEF LateSpec, RunAdvances

\* The late writes are all that the core leaves out: as long as none is applied,
\* the workflow with events and with writes under way is the core, and what is
\* proved of it holds (activities.go:76-97).
THEOREM WithoutLateWrites == LateSpec /\ [][~LateWrite]_lateVars => Spec
<1>1. LateInit => Init
  BY DEF LateInit
<1>2. [LateNext]_lateVars /\ [~LateWrite]_lateVars => [Next]_vars
  BY DEF LateNext, Execute, EmitStepEvent, Starter, Next, lateVars
<1>. QED  BY <1>1, <1>2, PTL DEF LateSpec, Spec
=============================================================================
