----------------------------- MODULE Deployment -----------------------------
(***************************************************************************)
(* The instances of the service while builds with different catalogs are   *)
(* rolled out and back: how an instance comes up and goes down             *)
(* (app/wiring.go: Wire, loadCatalog, Run, Close), and what its catalog,   *)
(* fixed in the binary (catalog.go, catalog_cache.go), does to one user's  *)
(* run: any instance may pin the run's version, answer the user's requests *)
(* or take the next workflow task.                                         *)
(*                                                                         *)
(* Of Temporal the model keeps that a task goes to any polling worker,     *)
(* that a worker replays the run's history against its own code, and that  *)
(* a task whose replay does not match is given to a worker again.  The     *)
(* attempts of activities and the actions of steps are left out: they are  *)
(* OnboardingWorkflow's.                                                   *)
(***************************************************************************)
EXTENDS StepCatalog, FiniteSets

CONSTANTS
  Pods,           \* instances of the service
  Builds,         \* binaries that may be deployed
  Catalog,        \* the in-code catalog of each: a function from versions
  FirstBuild,     \* the build deployed to begin with
  MaxDisruptions  \* bound on the deployments, evictions and crashes

\* Each build has a latest version, every version marks the journey completed at one
\* of its steps, and it has the same steps in all builds that have it
\* (catalog.go:7-10).
ASSUME DeploymentAssumption ==
  /\ None \notin Builds
  /\ FirstBuild \in Builds
  /\ MaxDisruptions \in Nat
  /\ \A b \in Builds :
       /\ \E v \in DOMAIN Catalog[b] : \A w \in DOMAIN Catalog[b] : v >= w
       /\ \A v \in DOMAIN Catalog[b] :
            /\ v \in Nat \ {0}
            /\ Catalog[b][v] \in Seq(StepDef)
            /\ MarkedComplete(Catalog[b][v], Len(Catalog[b][v]))
  /\ \A b, c \in Builds : \A v \in DOMAIN Catalog[b] \cap DOMAIN Catalog[c] :
       Catalog[b][v] = Catalog[c][v]

VARIABLES
  target,       \* operator: the build being deployed
  disruptions,  \* ... how often it, or a failure, took an instance down
  pods,         \* the instances: build, stage of their life, what is open
  run,          \* Temporal: the newest run of the user's workflow id
  doc,          \* Mongo: the user's journey document
  request       \* the request the user has in progress, one at a time

operatorVars == <<target, disruptions>>
userVars     == <<run, doc, request>>
vars == <<operatorVars, pods, userVars>>

AllVersions == UNION {DOMAIN Catalog[b] : b \in Builds}
AllNames    == UNION {UNION {StepNames(Catalog[b][v]) :
                               v \in DOMAIN Catalog[b]} : b \in Builds}

Peripherals == {"mongo", "catalog", "temporal", "worker"}

Pod == [build : Builds \cup {None},
        at    : {"down", "wiring", "serving", "draining", "closing", "forced"},
        open  : SUBSET Peripherals]

NoProcess == [build |-> None, at |-> "down", open |-> {}]

\* pos and phase say how much of the run is in its history: the steps before
\* pos are completed, and in phase "walk" the persist at pos is, too.
Run == [open    : BOOLEAN,
        version : AllVersions \cup {0},
        pos     : Nat \ {0},
        phase   : {"persist", "walk"},
        signals : SUBSET AllNames]

NoRun == [open |-> FALSE, version |-> 0, pos |-> 1, phase |-> "persist",
          signals |-> {}]

Doc == [status  : {"absent", "in_progress", "completed"},
        version : AllVersions \cup {0},
        current : AllNames \cup {None},
        steps   : Seq(AllNames)]

NoDoc == [status |-> "absent", version |-> 0, current |-> None, steps |-> << >>]

Request == [at : {"login", "admitted"}, pod : Pods,
            step : AllNames \cup {None}]

NoRequest == [at |-> "none"]

TypeOK ==
  /\ target \in Builds
  /\ disruptions \in 0..MaxDisruptions
  /\ pods \in [Pods -> Pod]
  /\ run \in Run
  /\ doc \in Doc
  /\ request \in Request \cup {NoRequest}

Init ==
  /\ target = FirstBuild
  /\ disruptions = 0
  /\ pods = [p \in Pods |-> NoProcess]
  /\ run = NoRun
  /\ doc = NoDoc
  /\ request = NoRequest

-----------------------------------------------------------------------------
(***************************************************************************)
(* The life of an instance.                                                *)
(***************************************************************************)

Disrupts == disruptions < MaxDisruptions /\ disruptions' = disruptions + 1

\* A new build, or an old one again, becomes the one to run.
Deploy(b) ==
  /\ b # target
  /\ Disrupts
  /\ target' = b
  /\ UNCHANGED <<pods, userVars>>

\* main calls Wire.
Boot(p) ==
  /\ pods[p].at = "down"
  /\ pods' = [pods EXCEPT ![p] = [build |-> target, at |-> "wiring",
                                  open |-> {}]]
  /\ UNCHANGED <<operatorVars, userVars>>

Opens(p, what) == pods' = [pods EXCEPT ![p].open = @ \cup what]

\* The process ends, and whatever request it was handling with it.
Exits(p) ==
  /\ pods' = [pods EXCEPT ![p] = NoProcess]
  /\ request' = IF request # NoRequest /\ request.pod = p THEN NoRequest
                ELSE request

Wiring(p, done) == pods[p].at = "wiring" /\ pods[p].open = done

ConnectMongo(p) ==
  /\ Wiring(p, {})
  /\ Opens(p, {"mongo"})
  /\ UNCHANGED <<operatorVars, userVars>>

CatalogRunnable(b) == \A v \in DOMAIN Catalog[b] : ValidateActions(Catalog[b][v])

\* Mutant: the catalog is installed without validation.
LoadCatalogUnchecked(p) ==
  /\ Wiring(p, {"mongo"})
  /\ Opens(p, {"catalog"})
  /\ UNCHANGED <<operatorVars, userVars>>

\* loadCatalog: a build with a step it has no handler for does not start.
LoadCatalog(p) ==
  /\ Wiring(p, {"mongo"})
  /\ \/ CatalogRunnable(pods[p].build) /\ Opens(p, {"catalog"})
        /\ UNCHANGED request
     \/ ~CatalogRunnable(pods[p].build) /\ Exits(p)
  /\ UNCHANGED <<operatorVars, run, doc>>

\* The client and the worker: it polls from here on, ready or not.
StartWorker(p) ==
  /\ Wiring(p, {"mongo", "catalog"})
  /\ Opens(p, {"temporal", "worker"})
  /\ UNCHANGED <<operatorVars, userVars>>

\* Run: the server listens.
Listen(p) ==
  /\ Wiring(p, Peripherals)
  /\ pods' = [pods EXCEPT ![p].at = "serving"]
  /\ UNCHANGED <<operatorVars, userVars>>

\* SIGTERM.  Nobody listens for it until Run does, so it ends Wire at once.
Terminate(p) ==
  /\ \/ /\ pods[p].at = "serving"
        /\ pods' = [pods EXCEPT ![p].at = "draining"]
        /\ UNCHANGED request
     \/ pods[p].at = "wiring" /\ Exits(p)
  /\ UNCHANGED <<run, doc>>

\* The operator takes down the instances of other builds, ...
Replace(p) ==
  /\ pods[p].build # target
  /\ Terminate(p)
  /\ UNCHANGED operatorVars

\* ... the platform any of them, and any of them may die.
Evict(p) == Disrupts /\ Terminate(p) /\ UNCHANGED target

Crash(p) ==
  /\ pods[p].at # "down"
  /\ Disrupts
  /\ Exits(p)
  /\ UNCHANGED <<target, run, doc>>

Handling(p) == request # NoRequest /\ request.pod = p

\* srv.Shutdown: the listener is closed; the request in progress is waited for
\* until shutdownTimeout.
Drain(p) ==
  /\ pods[p].at = "draining"
  /\ \E next \in {"closing", "forced"} :
       /\ next = "closing" <=> ~Handling(p)
       /\ pods' = [pods EXCEPT ![p].at = next]
  /\ UNCHANGED <<operatorVars, userVars>>

\* Mutant: torn down in the order of wiring.
CloseInWiringOrder == <<"mongo", "temporal", "worker">>

\* Container.Close, in reverse order of wiring.  The catalog is memory.
CloseOrder == <<"worker", "temporal", "mongo">>

Close(p) ==
  /\ pods[p].at \in {"closing", "forced"}
  /\ \/ \E i \in DOMAIN CloseOrder :
          /\ CloseOrder[i] \in pods[p].open
          /\ \A j \in 1..(i - 1) : CloseOrder[j] \notin pods[p].open
          /\ pods' = [pods EXCEPT ![p].open = @ \ {CloseOrder[i]}]
          /\ UNCHANGED request
     \/ /\ \A i \in DOMAIN CloseOrder : CloseOrder[i] \notin pods[p].open
        /\ Exits(p)
  /\ UNCHANGED <<operatorVars, run, doc>>

PodStep(p) ==
  \/ Boot(p)
  \/ ConnectMongo(p)
  \/ LoadCatalog(p)
  \/ StartWorker(p)
  \/ Listen(p)
  \/ Replace(p)
  \/ Drain(p)
  \/ Close(p)

-----------------------------------------------------------------------------
(***************************************************************************)
(* The user's requests, each served by one instance.                       *)
(***************************************************************************)

LatestVersion(b) == CHOOSE v \in DOMAIN Catalog[b] :
                      \A w \in DOMAIN Catalog[b] : v >= w

\* Mutant: a version the build does not have is walked as its latest one.
StepsOrLatest(b, v) == IF v \in DOMAIN Catalog[b] THEN Catalog[b][v]
                       ELSE Catalog[b][LatestVersion(b)]

\* The steps of a version; nil if the build does not have it.
CatalogSteps(b, v) == IF v \in DOMAIN Catalog[b] THEN Catalog[b][v] ELSE << >>

\* A user whose journey reads as completed is done.  (What a login does then
\* is OnboardingWorkflow's.)
Onboarding == request = NoRequest /\ doc.status # "completed"

\* GET /state arrives at an instance that listens.
Login(p) ==
  /\ Onboarding
  /\ pods[p].at = "serving"
  /\ request' = [at |-> "login", pod |-> p, step |-> None]
  /\ UNCHANGED <<operatorVars, pods, run, doc>>

\* Mutant: the conflict policy ends the open run.
StartTerminating(b) ==
  run' = [NoRun EXCEPT !.open = TRUE, !.version = LatestVersion(b)]

\* Starter.Start with USE_EXISTING; the input pins the instance's latest
\* version and counts only if a run is begun.
Start(b) ==
  IF run.open THEN UNCHANGED run
  ELSE run' = [NoRun EXCEPT !.open = TRUE, !.version = LatestVersion(b)]

\* Temporal is called and the document read for the answer; a closed client
\* makes it a 500.
StartRun ==
  /\ request.at = "login"
  /\ IF "temporal" \in pods[request.pod].open
     THEN Start(pods[request.pod].build)
     ELSE UNCHANGED run
  /\ request' = NoRequest
  /\ UNCHANGED <<operatorVars, pods, doc>>

\* POST /steps/{name} arrives, with the document read.  A step that is not of
\* the pinned version, as this instance knows it, or not current is a 409; it
\* changes nothing and is left out.
PostStep(p) ==
  /\ Onboarding
  /\ pods[p].at = "serving"
  /\ StepInCatalog(CatalogSteps(pods[p].build, doc.version), doc.current)
  /\ request' = [at |-> "admitted", pod |-> p, step |-> doc.current]
  /\ UNCHANGED <<operatorVars, pods, run, doc>>

\* SignalStep to the open run, or a 500.
SignalRun ==
  /\ request.at = "admitted"
  /\ IF "temporal" \in pods[request.pod].open /\ run.open
     THEN run' = [run EXCEPT !.signals = @ \cup {request.step}]
     ELSE UNCHANGED run
  /\ request' = NoRequest
  /\ UNCHANGED <<operatorVars, pods, doc>>

HandlerStep == StartRun \/ SignalRun

-----------------------------------------------------------------------------
(***************************************************************************)
(* Workflow tasks.  The worker that takes one replays the history against  *)
(* the steps its own catalog has for the run's version.  A walk of n steps *)
(* persists and completes each of them and persists once more: a history   *)
(* that goes beyond that does not match, and nothing comes of the task.    *)
(***************************************************************************)

StepsOn(p) == CatalogSteps(pods[p].build, run.version)

TakesTask(p) == run.open /\ {"worker", "mongo"} \subseteq pods[p].open

\* The journey the executor carries where the run is.
JourneyAt(steps, pos) ==
  [status  |-> IF MarkedComplete(steps, pos - 1) THEN "completed"
               ELSE "in_progress",
   version |-> run.version,
   current |-> IF steps = << >> THEN None
               ELSE IF pos <= Len(steps) THEN steps[pos].name
               ELSE steps[Len(steps)].name,
   steps   |-> [i \in 1..(pos - 1) |-> steps[i].name]]

\* The persist of the step at pos, or after the last step the final one.
Persist(p) ==
  /\ TakesTask(p)
  /\ run.phase = "persist"
  /\ run.pos <= Len(StepsOn(p)) + 1
  /\ doc' = JourneyAt(StepsOn(p), run.pos)
  /\ run' = [run EXCEPT !.phase = "walk"]
  /\ UNCHANGED <<operatorVars, pods, request>>

\* Mutant: nothing is persisted after the last step.
WalkWithoutLastPersist(p) ==
  /\ TakesTask(p)
  /\ run.phase = "walk"
  /\ run.pos <= Len(StepsOn(p))
  /\ LET s == StepsOn(p)[run.pos]
     IN  /\ s.signal # None => s.signal \in run.signals
         /\ run' = [run EXCEPT !.pos = @ + 1, !.signals = @ \ {s.signal},
                               !.phase = IF run.pos < Len(StepsOn(p))
                                         THEN "persist" ELSE "walk"]
  /\ UNCHANGED <<operatorVars, pods, doc, request>>

\* The step's signal is received and the step completed.
WalkStep(p) ==
  /\ TakesTask(p)
  /\ run.phase = "walk"
  /\ run.pos <= Len(StepsOn(p))
  /\ LET s == StepsOn(p)[run.pos]
     IN  /\ s.signal # None => s.signal \in run.signals
         /\ run' = [run EXCEPT !.pos = @ + 1, !.phase = "persist",
                               !.signals = @ \ {s.signal}]
  /\ UNCHANGED <<operatorVars, pods, doc, request>>

\* Mutant: the loop ends a step early.
ReturnOneEarly(p) ==
  /\ TakesTask(p)
  /\ run.phase = "walk"
  /\ run.pos = Len(StepsOn(p))
  /\ run' = [run EXCEPT !.open = FALSE]
  /\ UNCHANGED <<operatorVars, pods, doc, request>>

\* The walk is over: the run completes.
Return(p) ==
  /\ TakesTask(p)
  /\ run.phase = "walk"
  /\ run.pos = Len(StepsOn(p)) + 1
  /\ run' = [run EXCEPT !.open = FALSE]
  /\ UNCHANGED <<operatorVars, pods, doc, request>>

TaskStep(p) == Persist(p) \/ WalkStep(p) \/ Return(p)

Next ==
  \/ \E b \in Builds : Deploy(b)
  \/ \E p \in Pods : PodStep(p) \/ Evict(p) \/ Crash(p)
  \/ \E p \in Pods : Login(p) \/ PostStep(p)
  \/ HandlerStep
  \/ \E p \in Pods : TaskStep(p)

Spec == Init /\ [][Next]_vars

\* An instance that is up goes on, and one of another build is replaced; what
\* a handler calls answers; a worker that polls is given the tasks; and the
\* user comes back and posts the step shown, whatever came of it before.
FairSpec ==
  /\ Spec
  /\ \A p \in Pods : WF_vars(PodStep(p))
  /\ WF_vars(HandlerStep)
  /\ SF_vars(\E p \in Pods : TaskStep(p))
  /\ SF_vars(\E p \in Pods : Login(p))
  /\ SF_vars(\E p \in Pods : PostStep(p))

-----------------------------------------------------------------------------
(***************************************************************************)
(* Properties.                                                             *)
(***************************************************************************)

\* Every version that an instance may pin is in the catalog of b, which starts.
HasAllVersions(b) ==
  /\ CatalogRunnable(b)
  /\ \A c \in Builds :
       CatalogRunnable(c) => DOMAIN Catalog[c] \subseteq DOMAIN Catalog[b]

IsPrefixOf(s, t) == Len(s) <= Len(t) /\ \A i \in DOMAIN s : s[i] = t[i]

\* Nothing works with what is not open: a worker polls only between the
\* loading of the catalog and the closing of Mongo, and a request in progress
\* loses Mongo and Temporal only if the drain has timed out on it
\* (wiring.go:107-199, 261-273, 335-344).
WorksWithOpen ==
  \A p \in Pods :
    /\ "worker" \in pods[p].open => {"mongo", "catalog"} \subseteq pods[p].open
    /\ Handling(p) /\ pods[p].at # "forced" =>
         {"mongo", "temporal"} \subseteq pods[p].open

\* No run is ever pinned to a version with a step its build cannot execute, as
\* long as it was pinned by an instance that has it (wiring.go:128-133,
\* catalog_cache.go:47-64).
PinnedIsRunnable ==
  run.open => \A b \in Builds :
    run.version \in DOMAIN Catalog[b] => ValidateActions(Catalog[b][run.version])

\* Whichever instances persist it, the document tells of one walk of one
\* version: its completed steps are the first of the version it names, and its
\* current step is the next (catalog.go:7-10, 106-108).
OneWalkOfOneVersion ==
  doc.status # "absent" =>
    \A b \in Builds : doc.version \in DOMAIN Catalog[b] =>
      LET steps == Catalog[b][doc.version]
      IN  \/ doc = [JourneyAt(steps, Len(doc.steps) + 1) EXCEPT
                      !.version = doc.version]
          \/ doc.current = None /\ doc.steps = << >>

\* A run with a step completed is not ended by an instance that lacks its
\* version, nor by a later start: it closes at the end of its walk, the journey
\* reading as completed (onboarding_workflow.go:96-163, starter.go:34-50).
WalkIsFinished ==
  [][run.open /\ run.pos > 1 /\ (~run'.open \/ run'.pos < run.pos) =>
       doc.status = "completed"]_vars

\* Through deployments, roll-backs and runs that end at once, a document in
\* progress never loses a completed step.
CompletedStepsStay ==
  [][doc.status = "in_progress" => IsPrefixOf(doc.steps, doc'.steps)]_vars

\* The steps of a version, in whatever build has it.
StepsOf(v) == Catalog[CHOOSE b \in Builds : v \in DOMAIN Catalog[b]][v]

\* How many steps each version has, and at which counts its journey reads as
\* completed.
StepCount   == [v \in AllVersions |-> Len(StepsOf(v))]
CompletedAt == [v \in AllVersions |->
                  {n \in 0..Len(StepsOf(v)) : MarkedComplete(StepsOf(v), n)}]

P == INSTANCE PinnedJourney WITH
       Versions    <- AllVersions,
       N           <- StepCount,
       CompletedAt <- CompletedAt,
       active      <- run.open,
       version     <- run.version,
       reached     <- run.pos - 1,
       visible     <- [version   |-> doc.version,
                       steps     |-> IF doc.status = "absent" THEN -1
                                     ELSE Len(doc.steps),
                       completed |-> doc.status = "completed"]

\* The instances of all builds together implement the pinned journey: a run
\* walks the version it was begun with, step by step and each shown first, and
\* ends at its end or where it began (onboarding_workflow.go:96-163,
\* starter.go:34-50, catalog.go:106-108).
ImplementsPinnedJourney == P!Spec

\* When the deployments end with a build that has every version that can run,
\* the user who keeps coming back gets through (onboarding-lld.md:213-219).
RolloutCompletes ==
  <>[]HasAllVersions(target) => <>(doc.status = "completed")

\* A journey is not stranded: its run ends with the journey completed
\* (wiring.go:131-132, 297-302).
NotStranded == ~run.open /\ run.version # 0 => doc.status = "completed"
=============================================================================
