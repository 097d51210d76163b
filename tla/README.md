# Onboarding service: models, checks and proofs

This directory holds the TLA+ specification of the onboarding service: what it
does with one user's journey, from the first `GET /v1/onboarding/state` to the
last provisioned resource, through retries, lost and late answers, crashes,
restarts, concurrent clients and roll-outs. The modules are checked by TLC on
small instances, and the safety of all of them is proved with TLAPS for every
value of their constants.

## 1. The system and its parts

| Part | State | Operations | Modelled in |
|---|---|---|---|
| Workflow executor (`internal/workflow/onboarding_workflow.go`) | the position in the catalog, the journey and the context it carries, all durable in Temporal's history | per step: persist, await the step's signal, run its action, record it; final persist | `OnboardingWorkflow` |
| Step catalog (`catalog.go`, `catalog_cache.go`) | versions, immutable | look-ups, start-up validation | `StepCatalog`; several versions in `Deployment` |
| Activities (`activities.go`) | none of their own | `PersistJourneyState`, `CreateOrganisation`, `Provision*`, `CompleteProvisioning`, `EmitStepEvent` | `OnboardingWorkflow`; call by call in `OrgCreation`, `Provisioning`; `EmitStepEvent` and late writes in `LateAttempts` |
| Starter (`starter.go`) | the workflow id (= user id) at Temporal | start if absent, signal, start and signal | `OnboardingWorkflow` |
| Journey read-model (`repo/`, `repo/mongo/onboarding_journey_repo.go`, `service/dto`) | one document per user | `Upsert` (whole document), `SetOrgID` (one field), `FindByUserID` | `OnboardingWorkflow` |
| Provisioning record (`repo/mongo/provisioning_record_repo.go`) | one document per organisation | read, replace | `OnboardingWorkflow`, `Provisioning` |
| Step endpoints (`internal/controller/onboarding.go`, `stepvalidator.go`, `service/impl`) | none between requests | `GetState`, `AdvanceStep` | `OnboardingService` |
| Internal endpoint (`internal_onboarding.go`) | none | `RecordStep` | `OnboardingService` |
| Auth0 organisation creator (`platform/auth0`) | organisations, members, roles (at Auth0); a cached token | create, add member, add role, delete, look-ups; `ensureToken` | `OrgCreation`, `ManagementToken`, both in `Auth0Client` |
| Provisioner (`platform/provisioning`) | objects at Kong, AWS, Svix and Lago | one method per resource, several calls each for AWS and Lago | `Provisioning` |
| Vertical cache (`internal/config/verticals.go`) | a snapshot swapped on hot reload | load, subscribe, reload, look-up | `VerticalCache`; a constant set in `OnboardingService` |
| Analytics events (`stepevents.go`, `instrument.go`) | three counters, which nothing in the service reads | `EmitStepEvent` | `LateAttempts`, without the counters |
| Wiring (`internal/app/wiring.go`, `cmd/server`) | what an instance has open, and the stage of its life | `Wire`, `Run`, `Close` | `Deployment` |
| Configuration, authentication, health, other metrics | none that the journey depends on | | not modelled |
| `/me` client (`platform/authsvc`) | | retired, nothing constructs it | not modelled |

How they interact: the handlers call the starter, which calls Temporal; Temporal
runs the executor on this service's worker; the executor calls activities,
which write the two Mongo documents and call Auth0 and the four providers; the
handlers read the journey document. Nothing is locked between any two of these
calls. A request may therefore read a document that is behind the run, signal a
run other than the one it read about, or find no run open; an activity may take
effect and be repeated because its answer was lost, or take effect after its
repetition; a run may fail and a new one begin over the documents of the old
one; and any instance, of whatever build, may take the next request or task.

What makes each part correct:

* **executor**: the read-model shows the step the run waits in; steps are
  completed in order, each after it was shown; completion is readable before the
  late provisioning; a run only stops for the user.
* **activities and stores**: one organisation per user; a recorded resource
  exists and is never asked for again; a record is closed only when whole; the
  two ways of writing the journey document do not undo each other.
* **vertical cache**: whatever is released while it reads, it ends up with the
  latest release that parses.
* **management token**: a token in hand outlives the attempt that holds it, and
  what happens to one attempt does not block the others beyond its deadline.
* **instances**: what works has open what it uses; a journey keeps to the
  version its run is pinned to, and keeps its completed steps, through
  deployments and roll-backs.
* **handlers**: a stale read lets nothing through early and locks nobody out;
  what reaches an action has been validated.

## 2. The modules

* `StepCatalog` — the catalog's entries, version 1 and the look-ups in it.
* `OnboardingJourney` — the abstract specification: a journey completes its
  steps one at a time, each only after the read-model has shown the user
  standing at it, and what is shown is completed exactly at the positions the
  catalog declares. A run may end at any point and another begin.
* `PinnedJourney` — a second abstract specification, of what instances of different
  builds promise together: a run is pinned to the version it begins with, walks its
  steps one at a time, each only after it was shown, and ends at the last one or
  without having completed any.
* `OnboardingWorkflow` — the core. State: Temporal's view of the user's id
  (`run`, `runs`, `signals`), the executor (`pos`, `phase`, `attempt`,
  `journey`, `ctx`), Mongo (`doc`, `records`), Auth0 (`orgs`) and the providers
  (`provisioned`). `phase` is the line of the loop the executor is at:
  `persist` (98-102), `await` (105-117), `action` (120-135), `record`
  (138-155), `final` (159-162). `attempt` counts the failed attempts of the
  activity being waited for. One action per operation: `PersistStep`,
  `ReceiveSignal`, `CreateOrganisation`, `Provision`, `CompleteProvisioning`,
  `RecordCompleted`, `FinalPersist`, and the starter's `Start`, `SubmitStep`,
  `SignalStep`. Every activity has the outcomes: done and answered, done with
  the answer lost, partly done, not done.
* `OnboardingService` — the handlers over the workflow. Each client has one
  request at a time (`req`); `GetState` is start, then signal, then read and
  answer, and `AdvanceStep` is read and judge, then signal, then read and
  answer, each a step of its own. `RecordStep` is one call.
* `OrgCreation` — one run of the `CreateOrganisation` activity, call by call.
* `ManagementToken` — `ensureToken` and its mutex, in one process, for any
  number of attempts. Time is what is left of a token and of an attempt, counted
  down by `Tick`.
* `Auth0Client` — the two composed: the attempt of `OrgCreation` is one of the
  callers of `ManagementToken`, next to attempts for other users. `TokenFails`,
  `TimeOut` and `WorkerCrash` are the ways the token or the process can fail it.
* `Provisioning` — the five provisioning activities of a run, call by call.
* `LateAttempts` — `OnboardingWorkflow` without the assumption that an attempt is
  over when Temporal gives it up: `late` holds the writes still under way, and
  `LateWrite` applies one at any later time. Between two steps it has
  `EmitStepEvent`, its attempts and their end.
* `VerticalCache` — one instance's cache of verticals: the first load, the
  subscription and the reloads, each of two reads and a swap, against releases
  of the configuration service.
* `Deployment` — the instances. An instance goes through `Wire` (`ConnectMongo`,
  `LoadCatalog`, `StartWorker`), `Run` (`Listen`, `Terminate`, `Drain`) and
  `Close`, and may crash anywhere; the operator deploys another build, or an
  older one again. A request is served by one instance, from its arrival to its
  call of Temporal. A run is the part of its history that matters (its version,
  how far it has walked, the signals received), and `Persist`, `WalkStep` and
  `Return` are what a worker appends to it, with the catalog of its own build.
* `<Module>Proofs` — the theorems about that module.
* `MC*` — values for the constants of the runs.

Definitions named in a comment `Mutant:` are altered forms of the definition
after them, each a plausible bug; no specification uses them. Each property has
one that violates it, which shows that the property says something.

### What is abstracted

* **Temporal** is external. Kept: one open run per id, channels per signal name
  that die with their run, activities attempted at least once and at most
  `MaxAttempts` times, replay that hides worker crashes between activities.
  Signals for a step that receives none are dropped, since nothing reads them.
  Attempts of one activity follow each other. What an attempt does at Auth0 and
  at the providers is done or not done when it ends; its write to Mongo may
  arrive later in `LateAttempts`, and not in the other modules.
  In `Deployment` a workflow task goes to any polling worker, which replays the
  history against its own code, and a task whose replay does not match is given
  to a worker again; signals of a run are a set there, and the attempts of
  activities are left out, being the core's.
* **Users** share no state (every document, workflow and organisation is keyed
  by the user or by their organisation), so one user is modelled.
* **Data**: timestamps, labels and request bodies are left out; the e-mail
  address is a flag; the terms flag is part of the display-name input.
* **The configuration client** (configlib) is external: its calls of the change
  handler follow each other, since nothing in the service would keep two
  reloads from swapping in the wrong order.
* **`EmitStepEvent`** touches no state of the core and its failure is ignored, so
  in `OnboardingWorkflow` `RecordCompleted` goes on to the next step. `LateAttempts`
  has its attempts; the counters are write-only and left out.
* **The vertical cache** is a constant set of names in `OnboardingService`: a
  submission is judged by the names at the time it comes, which is what its
  properties are about.
* **The worker's stop** ends what the instance works on: activities that go on
  after `Stop` has returned, while Mongo is being closed, are not modelled.
* **Failed runs**: in `Deployment` a run ends at its last step or for want of
  steps; that it fails when an activity's attempts are exhausted is in the core.
* **Readiness** is not modelled: in `Deployment` a request or a task may reach an
  instance as soon as it listens or polls.

## 3. The runs

| Run | Shows |
|---|---|
| `workflow_v1` | the shipped catalog under any starts, signals, failures and lost answers, with one restart and two attempts: `ReadModelTracksRun`, `LateActionsSeeCompleted`, `CompletedRecordsAreWhole`, `OneOrganisation`, `ReadModelForward`, `LockedOutForGood` (a user whose organisation neither the document nor an open run knows of any more never gets past it), the refinement `ImplementsJourney`, and, under `FairSpec`, `RunsUntilParked` and `CompletedRunsEnd` |
| `service` | two clients and the Auth Service: `AdvanceNeverEarly`, `AwaitedStepIsAdmitted`, `OrganisationIsNamed`, `SelectedIsFromCache`, and `ImplementsWorkflow`: the handlers are a use of the workflow that the core allows |
| `auth0_client` | `OneMembership`, `NotedOrgIsWhole`, `AnswerIsNoted`, `NoNeedlessFetch`, `CallsAreAuthorised`; `ImplementsActivity`: an attempt, wherever it stops, is one `CreateOrganisation` step of the core; and, under `ClientFairSpec`, `MutexIsFreed` (whoever fetches a token gives the mutex back, whether it is answered, fails or times out) and `ActivityEnds` |
| `provisioning` | `RecordedIsProvisioned`, `RecordedIsLeftAlone`, `SubscriptionsHavePlans`, `RepeatsAreBounded` (a subscription is made once per attempt at most, everything else once), and `ImplementsActivities`, the same for `Provision` and `CompleteProvisioning` |
| `vertical_cache` | `LatestIsServed`, `CatchesUp`: what releases do to the two keys while a reload reads them |
| `deployment` | `WorksWithOpen`, `PinnedIsRunnable`, `OneWalkOfOneVersion`, `WalkIsFinished`, `CompletedStepsStay`, the refinement `ImplementsPinnedJourney`, and, under `FairSpec`, `RolloutCompletes` |
| `late_attempts` | `OneOrganisation`, `ReadModelWasTrue`, `ClosedIsProvisioned`, and, under `LateFairSpec`, `LateRunsUntilParked` |

Bounds. Two attempts per activity are enough for every pair "failed, then
retried" and for exhaustion; two runs for every restart over the documents of
an earlier run; one buffered signal per channel in the core, where a second one
is never received within a run. Two organisation ids let a second organisation
appear if anything allowed it. The service has five requests, the fewest that
take a journey to its end (start, e-mail, organisation, vertical, completion),
from two clients, so that every handler interleaves with every other one and
with the executor; as many runs and buffered signals are allowed as there are
requests, so that these two bounds cut nothing off. Its bodies include one with
a vertical that is not in the cache. `auth0_client` has three attempts and as
many ids, one other attempt in the process, and a token that lives four times as
long as an attempt, so that it ages, expires in the cache and is taken in its
last moment; the proof covers every lifetime, buffer and deadline.
`provisioning` has three attempts and two of the three
Lago environments, which differ in nothing but their names. `vertical_cache` has
one name and three releases, enough for one during the first load, one that calls
the handler and one during the reload it causes. `deployment` has two instances
of three builds: one with version 1, one that adds version 2, one that adds a
version with an action nobody registered. (The repository has version 1 alone;
the builds are what its catalog is made for.) Two disruptions are enough for a
deployment and its roll-back, or for a crash or an eviction during a roll-out.
`late_attempts` has the steps of the shipped catalog with an action, or that mark
completion, and one write under way at a time; the proof covers any number.
Deadlock is not checked: a run parks until the user acts, an activity ends, and
the bounds stop the environment.

Fairness. `OnboardingWorkflow!FairSpec` has weak fairness of the executor: the
worker polls the task queue, Temporal redelivers what a dead worker held and every
call has a timeout. Nothing is assumed of the user (no signal need ever come) nor
of the outcome of an attempt. `LateFairSpec` is the same with `EmitStepEvent`; a
late write need never arrive. `ClientFairSpec`: the attempt goes on, the attempts
of others end by their deadline, and time passes; nothing is assumed of Auth0's
answers. `VerticalCache!FairSpec` assumes that the configuration client delivers
its calls; a reload makes no call that could hang. `Deployment!FairSpec`: an
instance that is up goes on and one of another build is replaced (the platform);
a handler goes on, its calls to Temporal having timeouts of ten seconds; tasks are
given to workers that keep coming back to poll; and the user comes back and posts
the step shown, whatever came of earlier requests. The last is strong and is what
`RolloutCompletes` is conditional on: nothing in the service completes a step for a
user who stays away.

### Where the code and its documents disagree

Each of these runs violates one property that quotes what a document or a
comment says; `PROJECT.json` quotes the lines.

| Run | What happens |
|---|---|
| `workflow_restart` | the conflict policy covers open runs only: after a run has closed, the next login starts another one, which takes a completed journey back to its first step. With its organisation at Auth0 and `orgId` gone from the document, that run fails at `CreateOrganisation` |
| `workflow_org_retry` | a crash between the organisation's creation and `SetOrgID` makes every later attempt fail |
| `provisioning_lago` | a retried Lago attempt duplicates subscriptions |
| `provisioning_aws` | a retried AWS attempt leaves the API key unattached, recorded as provisioned |
| `deployment_stranded` | while builds overlap, an instance of the newer one pins its version and a worker of the older one, for which that version has no steps, ends the run at once, with the journey in progress |

What the code does keep where one of these claims fails is stated as well, and
proved (section 4):

| Instead of | What holds |
|---|---|
| `CompletedForever` | `ReadModelForward` within a run, and `RestartLocksOut`: the first persist of a run begun for a user with an organisation takes `orgId` off the document |
| `RetryCanSucceed` | `LockedOutForGood`: what the crash (or the restart) has left stays as it is, whatever is retried, signalled or started; in `OrgCreation`, `RejectedForGood`: all later attempts are rejected, and `OrgsAreBounded`: each attempt leaves one organisation at most |
| `ProvisionedOnce` | `RepeatsAreBounded` |
| `KeyIsAttached` | `UnattachedForGood`: no retry attaches the key |
| `NotStranded` | `ImplementsPinnedJourney`: a run is stranded where it began or not at all |

`LockedOutForGood` is about the core: in `LateAttempts` the late `SetOrgID` of the
very attempt that timed out may still arrive and let the user in.

Smaller ones, which have no run of their own because a property would restate a
single step: a failed creation may leave a partial organisation behind, for its
clean-up is one call whose error is dropped (`orgcreator.go:24-27` says it leaves
none); `GET /state` may answer from a synthetic journey before the document exists
(`onboarding-lld.md:311`); any step's payload may set the vertical, past the
validator of `VERTICAL_SELECTED` (`api-contract.md:174`); and the funnel
and lifecycle counters are incremented by every attempt of `EmitStepEvent`, ahead of
the sink's call that may fail it, and by none when no attempt gets that far, neither
exactly once (`stepevents.go:11-14`) nor once per completed step
(`activities.go:82-85`).

## 4. What is proved

Every safety property that a passing run checks is a theorem of its
specification, for every value of the constants that satisfies the assumptions;
so are the five refinements. So is the type invariant of each module. It and the
inductive invariants are means to the proofs and no questions of their own: TLC
was asked of them on the instances of the runs, and no run lists them.

`OnboardingWorkflowProofs` proves, for every catalog that satisfies the
assumptions and for every value of the other constants, that `Spec` implies:

* `TypeCorrect`: `TypeOK` and `PhaseInv`;
* `Invariant`: the inductive invariant `IInv`, and from it `ReadModelCorrect`,
  `LateActionsCorrect`, `RecordsCorrect`, `OrganisationCorrect`;
* `ForwardCorrect`: the action property `ReadModelForward`;
* `Refinement`: `ImplementsJourney`;
* `LockedOutCorrect`: the action property `LockedOutForGood`, and
  `LockOutIsForever`, the same about the rest of a behaviour:
  `[](LockedOut => [](LockedOut /\ ~PastOrganisation))`;
* `RestartLocksOutCorrect`: `RestartLocksOut`. Together with the line before, a
  restart of a journey with an organisation never gets past the organisation step
  again once its first persist is applied;
* `RunAdvancesCorrect`: `RunAdvances`. An open run never comes back to a position,
  a phase of a step or an attempt it has left. This is the safety half of
  `RunsUntilParked`, which adds only that the executor goes on: its work is
  bounded by the steps and their attempts.

The assumptions. `CatalogAssumption`: names are distinct, a signal is named for
its step, every action is registered (the service refuses to start otherwise).
`ProvisioningOrderAssumption`: there is one organisation step and providers come
after it, and the record is closed after the four of them; the shipped catalog
satisfies it and nothing but the order of the catalog ensures it. The others
only type the constants.

Why the invariant is what it is. `ReadModelTracksRun` needs the executor's
journey to be what its position says (`JourneyInv`), or the write of a whole
document could go back. `OneOrganisation` needs the context's organisation to
be the user's and to be known after the organisation step (`OrgInv`), or a
provider could be called for none. `CompletedRecordsAreWhole` needs each
resource whose step is done to be recorded (`RecordInv`): the activity that
closes the record looks at none. `ReadModelForward` needs the document to be
behind the journey from the first persist of the run on (`ForwardInv`), the
organisation noted by an unanswered attempt excepted. `LockedOutForGood` needs
`OwnOrgInv`: a run has an organisation in its context only once its organisation
step is done. With `OrgInv`, that it has one from then on, an open run that knows
of none has not passed the step (`LockedOutIsBehind`), and all it ever writes to
the document names none.

`OnboardingServiceProofs` proves of `ServiceSpec`, for any number of clients and
any inputs:

* `Simulation`: `ImplementsWorkflow`. Every step of a handler is a start, a
  signal, both at once or no step of the workflow, so all of the above holds
  under the handlers;
* `ServiceImplementsJourney`: `ImplementsJourney`, `ReadModelForward` and
  `LockedOutForGood` under the handlers. It is the two refinements put together:
  the handlers use the workflow as the core allows, and the core implements the
  abstract journey;
* `ServiceTypeCorrect`: `ServiceTypeOK`;
* `NeverLockedOut`: `AwaitedStepIsAdmitted`, from `ReadModelTracksRun` and
  `JourneyInv`;
* `OrganisationNamed`: `OrganisationIsNamed`. Its inductive form, `NamedInv`,
  follows the validated name from the admitted request through the channel to
  the context;
* `NeverEarly`: `AdvanceNeverEarly`. Its inductive form, `EarlyInv`, says that in
  a first run the executor never goes back, and that whatever step the document
  or the journey shows has been reached.

`UserStepsAssumption` is what these rest on beside the assumptions of the core:
the organisation step waits for a signal that the Auth Service does not send
(`InternalSteps` is `EMAIL_VERIFIED`, the only step it records), and no step
waits for the user behind the one that marks the journey completed. The shipped
catalog satisfies it; were a later catalog to put a user-driven step there,
`AdvanceStep` would take every submission of it for a no-op
(`onboarding.go:144`) and the user would be locked out.

`ManagementTokenProofs` proves `TokenCorrect`: `TokenInv` is inductive. That a
token in hand outlives its attempt needs `TokenAges`: a token fetched has lost no
more time than the attempt that fetched it, and one in the cache expires there
before it does at Auth0, by the buffer less one attempt. `TokenAssumption` is what
this rests on: the buffer is at least twice an attempt's limit, once for the time
the answer took and once for the attempt that takes the token in its last moment
(1000 and 60 seconds in the code). That one attempt at a time fetches
(`NoNeedlessFetch`) needs `HolderFetches`: whoever holds the mutex is fetching.

`Auth0ClientProofs` proves `OrgTypeCorrect`, `OneMembershipCorrect`,
`NotedOrgCorrect`, `AnswerCorrect` of `ClientSpec`, and `AuthorisedCalls`, which
combines them with the token; `FetchesAreNeeded` is `NoNeedlessFetch` of the
composition. A step of the composition is a step of each
component or leaves it unchanged (`ClientStep`), so their invariants carry over.
Besides the properties themselves `OrgCallsInv` says, for each call the attempt
may be about to make, what the calls before it have done at Auth0. `NameInv`, that
an attempt past its first check has a valid name and that nothing is answered
before the end, is what `ActivityRefinement` (`ImplementsActivity`) adds to it.
`RejectedForGoodCorrect` says what retries are worth once an attempt has left a
membership that no document names: nothing. `OrgsBounded` is about what they leave
behind: by `OrgsInv` there are as many organisations as failed attempts at most,
and one more from the moment the attempt in progress has made its own. Both are
proved and no run lists them; TLC has checked them on the instance of
`auth0_client`.

`ProvisioningProofs` proves `CallsTypeCorrect`, `RecordedCorrect`,
`SubscriptionsCorrect` and `LeftAlone`, for any list of Lago environments and any
number of attempts. `CallsInv` adds that what the attempt has read of the record
is still so (`AttemptInv`), and that all its calls before the next one have been
made, by it or by an earlier attempt, the attachment of an API key excepted. The
lemmas before it say which object each position of a concatenation of calls is for.
`ActivitiesRefinement` (`ImplementsActivities`) needs `HadInv` as well: an attempt
has added to what the providers had when it began only a resource that its record
lacked, and only its own. `RepeatsBounded` (`RepeatsAreBounded`) needs, for each
object, how often it may have been made so far (`RepeatInv`, by `SubLimit`): a
subscription as often as its activity has failed, once more from the position of
its call on in the attempt in progress, and not at all before its activity's first
attempt. It rests on the environments being distinct, as the literal list in
`httpprovisioner.go:39-45` is. `UnattachedCorrect` is `UnattachedForGood`.

`VerticalCacheProofs` proves `CacheTypeCorrect` and `LatestServed`, for any names and
any number of releases. `FreshInv` extends `LatestIsServed` to a reload in progress:
unless a call for a change is outstanding, what it has read is what the keys
hold, because a release that changes either key owes at least one call
(`WatchedFacts`). `ServedWasReleased` is a rely-guarantee statement: for any set
of lists `Good`, as long as a key holds none but lists of `Good`, or something that
does not parse, the list served is in `Good`. It is what justifies that
`OnboardingService` takes the cache's names as a set: a vertical that is served was
released.

`DeploymentProofs` proves `DeploymentTypeCorrect`, `WorksWithOpenCorrect`,
`PinnedIsRunnableCorrect`, `OneWalkCorrect`, `WalkIsFinishedCorrect`,
`CompletedStepsStayCorrect` and `PinnedJourneyCorrect`, for any number of
instances and any builds that satisfy `DeploymentAssumption`: each has a latest version, each version marks the
journey completed at one of its steps, and a version has the same steps in all
builds that have it, which is what `catalog.go:7-10` demands of its editors. The
invariant has four parts: `LifeInv`, what an instance has open at each
stage of its life, that a request is at an instance that can have it, and that a
pinned version passed the validation; `WalkInv`, that an open run is somewhere on
the walk of its version and that the document is what the run has left there;
`DocInv`, that the document is what some walk leaves; and `FreshInv`, that a run
that has shown nothing follows one that completed nothing, or the whole journey.
The last is what `CompletedStepsStay` needs: a run that was ended at once by a
worker without its version may be followed by one of another version.
`PinnedJourneyCorrect` (`ImplementsPinnedJourney`) maps a start that begins a run
to `Begin`, a persist to `Publish`, a completed step to `Complete`, a return to
`End` and all else to a stutter. What a worker without the version persists, a
journey with no step done, is what one with the version shows at the first position
(the current step, which it cannot name, is not part of the abstract view), and
`LeftIsShown`, from `WalkInv`, gives `Complete` and `End` their guard.

`LateAttemptsProofs` proves `LateTypeCorrect`, `LateOneOrganisation`,
`ReadModelWasTrueCorrect`, `ClosedIsProvisionedCorrect` and
`LateRunAdvances` (`RunAdvances` with late writes and events), for any number of
writes under way. `WithoutLateWrites` relates the two models: a behaviour in which
no late write is applied is one of the core. The module reuses the core's lemmas:
the parts of `IInv` about the run, the organisation and the providers (`CoreInv`)
do not depend on what a late write changes. The parts about the stores are replaced by what does survive:
the document shows a position the executor has been at, and so does every write
under way (`Held`), which is stable because positions are only passed forward
within a run and completed resources stay at the providers (`ProvidedInv`).

Only model-checked: liveness (`RunsUntilParked`, `CompletedRunsEnd`, `MutexIsFreed`, `ActivityEnds`,
`CatchesUp`, `RolloutCompletes`, `LateRunsUntilParked`), which is out of this
prover's reach, as is ENABLED. Of the first and the last, `RunAdvancesCorrect` and
`LateRunAdvances` prove the part that is safety, and of `MutexIsFreed` it is
`HolderFetches`, in `TokenCorrect`: the mutex is held by an attempt that fetches.

## 5. Not modelled

* **Authentication** (`internal/auth`): stateless checks of a request's tokens in
  front of the handlers; the handlers are modelled behind them.
* **Health and readiness** (`internal/controller/health.go`): probes without
  state; what the platform does with their answers is not in the repository.
* **Configuration** (`internal/config/config.go`): read once, checked and
  constant from then on; of the wiring, the construction of clients without state.
* **Vertical look-ups** (`verticals.go`, `controller/verticals.go`): each reads the
  snapshot pointer once, so there is nothing to interleave; the cache counts as
  partly modelled for that.
* **Metrics and logging**, the counters of `EmitStepEvent` included: reporting.
* **The `/me` client** (`platform/authsvc`): retired, nothing constructs it.
* **The e-mail address** given to Lago is best-effort by the code's own comment;
  `ctx.email` is kept, with no property.
* **Temporal's limits** on a run's history and signals, which logins count
  against, and a management token that Auth0 revokes before its time: they lie
  outside the code, and nothing in it reacts to them.

What could follow: `OnboardingService` over `VerticalCache` instead of a constant
set, so that a vertical is retired between a request's validation and its run.
