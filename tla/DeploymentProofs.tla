-------------------------- MODULE DeploymentProofs --------------------------
(***************************************************************************)
(* Deployments of any builds over any number of instances: nothing works   *)
(* with what is not open, and a run's walk is of one version, can be       *)
(* executed and is finished.                                               *)
(***************************************************************************)
EXTENDS Deployment, SequenceTheorems, TLAPS

LEMMA VersionFacts ==
  ASSUME NEW b \in Builds, NEW v \in DOMAIN Catalog[b]
  PROVE  /\ v \in AllVersions
         /\ Catalog[b][v] = StepsOf(v)
         /\ CatalogSteps(b, v) = StepsOf(v)
BY DeploymentAssumption DEF StepsOf, AllVersions, CatalogSteps

LEMMA StepsFacts ==
  ASSUME NEW v \in AllVersions
  PROVE  /\ v \in Nat \ {0}
         /\ StepsOf(v) \in Seq(StepDef)
         /\ Len(StepsOf(v)) \in Nat \ {0}
         /\ MarkedComplete(StepsOf(v), Len(StepsOf(v)))
         /\ \A i \in 1..Len(StepsOf(v)) : StepsOf(v)[i].name \in AllNames
<1>1. PICK b \in Builds : v \in DOMAIN Catalog[b]
  BY DEF AllVersions
<1>2. StepsOf(v) = Catalog[b][v]
  BY <1>1, VersionFacts
<1>3. /\ v \in Nat \ {0} /\ StepsOf(v) \in Seq(StepDef)
      /\ MarkedComplete(StepsOf(v), Len(StepsOf(v)))
  BY <1>1, <1>2, DeploymentAssumption
<1>4. Len(StepsOf(v)) \in Nat \ {0}
  BY <1>3 DEF MarkedComplete
<1>5. \A i \in 1..Len(StepsOf(v)) : StepsOf(v)[i].name \in StepNames(StepsOf(v))
  BY <1>3 DEF StepNames
<1>6. StepNames(StepsOf(v)) \subseteq AllNames
  BY <1>1, <1>2 DEF AllNames
<1>. QED  BY <1>3, <1>4, <1>5, <1>6

LEMMA LatestFacts ==
  ASSUME NEW b \in Builds
  PROVE  LatestVersion(b) \in DOMAIN Catalog[b]
<1>1. \E v \in DOMAIN Catalog[b] : \A w \in DOMAIN Catalog[b] : v >= w
  BY DeploymentAssumption
<1>. QED  BY <1>1 DEF LatestVersion

\* A version some build has that starts.
Runnable(v) == \E b \in Builds : v \in DOMAIN Catalog[b] /\ CatalogRunnable(b)

-----------------------------------------------------------------------------
\* What is open at each stage of an instance's life.
PodOK(x) ==
  /\ x.at = "down" => x.open = {}
  /\ x.at # "down" => x.build \in Builds
  /\ x.at = "wiring" =>
       x.open \in {{}, {"mongo"}, {"mongo", "catalog"}, Peripherals}
  /\ x.at \in {"serving", "draining"} => x.open = Peripherals
  /\ "catalog" \in x.open => CatalogRunnable(x.build)
  /\ "worker" \in x.open => "temporal" \in x.open
  /\ "temporal" \in x.open => {"mongo", "catalog"} \subseteq x.open

PodInv == \A p \in Pods : PodOK(pods[p])

\* An instance that closes has a request left only if it was forced to.
RequestInv ==
  /\ request # NoRequest =>
       pods[request.pod].at \in {"serving", "draining", "forced"}
  /\ request.at = "admitted" => request.step \in AllNames

\* A version is pinned by an instance that has loaded it.
PinInv == run.open => run.version \in AllVersions /\ Runnable(run.version)

LifeInv == TypeOK /\ PodInv /\ RequestInv /\ PinInv

LEMMA InitLife == Init => LifeInv
<1>. SUFFICES ASSUME Init PROVE LifeInv
  OBVIOUS
<1>1. NoProcess \in Pod /\ PodOK(NoProcess)
  BY DEF NoProcess, Pod, PodOK
<1>2. NoRun \in Run /\ ~NoRun.open
  BY DEF NoRun, Run
<1>3. NoDoc \in Doc
  BY DEF NoDoc, Doc
<1>4. NoRequest.at # "admitted"
  BY DEF NoRequest
<1>5. TypeOK
  BY <1>1, <1>2, <1>3, DeploymentAssumption DEF Init, TypeOK
<1>6. PodInv
  BY <1>1 DEF Init, PodInv
<1>. QED  BY <1>2, <1>4, <1>5, <1>6 DEF Init, LifeInv, RequestInv, PinInv

\* One instance changes.
LEMMA OnePod ==
  ASSUME LifeInv, NEW p \in Pods, NEW x \in Pod, PodOK(x),
         pods' = [pods EXCEPT ![p] = x]
  PROVE  /\ pods' \in [Pods -> Pod]
         /\ PodInv'
         /\ pods'[p] = x
         /\ \A q \in Pods \ {p} : pods'[q] = pods[q]
BY DEF LifeInv, TypeOK, PodInv

LEMMA PodChanges ==
  ASSUME LifeInv, NEW p \in Pods, NEW x \in Pod, PodOK(x),
         pods' = [pods EXCEPT ![p] = x],
         Handling(p) => x.at \in {"serving", "draining", "forced"},
         target' \in Builds, disruptions' \in 0..MaxDisruptions,
         UNCHANGED userVars
  PROVE  LifeInv'
<1>1. /\ pods' \in [Pods -> Pod] /\ PodInv'
      /\ pods'[p] = x
      /\ \A q \in Pods \ {p} : pods'[q] = pods[q]
  BY OnePod
<1>2. TypeOK'
  BY <1>1 DEF LifeInv, TypeOK, userVars
<1>3. RequestInv'
  <2>1. request # NoRequest => request.pod \in Pods
    BY DEF LifeInv, TypeOK, Request
  <2>. QED  BY <1>1, <2>1 DEF LifeInv, RequestInv, Handling, userVars
<1>4. PinInv'
  BY DEF LifeInv, PinInv, userVars, Runnable, CatalogRunnable
<1>. QED  BY <1>1, <1>2, <1>3, <1>4 DEF LifeInv

LEMMA PodExits ==
  ASSUME LifeInv, NEW p \in Pods, Exits(p),
         target' = target, disruptions' \in 0..MaxDisruptions,
         UNCHANGED <<run, doc>>
  PROVE  LifeInv'
<1>1. NoProcess \in Pod /\ PodOK(NoProcess)
  BY DEF NoProcess, Pod, PodOK
<1>2. /\ pods' \in [Pods -> Pod] /\ PodInv'
      /\ \A q \in Pods \ {p} : pods'[q] = pods[q]
  BY <1>1, OnePod DEF Exits
<1>3. request' \in Request \cup {NoRequest}
  BY DEF Exits, LifeInv, TypeOK
<1>4. TypeOK'
  BY <1>2, <1>3 DEF LifeInv, TypeOK
<1>5. RequestInv'
  <2>1. CASE request' = NoRequest
    BY <2>1 DEF RequestInv, NoRequest
  <2>2. CASE request' = request /\ request # NoRequest /\ request.pod # p
    <3>1. request.pod \in Pods
      BY <2>2 DEF LifeInv, TypeOK, Request
    <3>. QED  BY <1>2, <2>2, <3>1 DEF LifeInv, RequestInv
  <2>. QED  BY <2>1, <2>2 DEF Exits
<1>6. PinInv'
  BY DEF LifeInv, PinInv, Runnable, CatalogRunnable
<1>. QED  BY <1>2, <1>4, <1>5, <1>6 DEF LifeInv

\* Facts about an instance that are used in each of its steps.
LEMMA PodFacts ==
  ASSUME LifeInv, NEW p \in Pods
  PROVE  /\ pods[p] \in Pod /\ PodOK(pods[p])
         /\ Handling(p) => pods[p].at \in {"serving", "draining", "forced"}
         /\ target \in Builds /\ disruptions \in 0..MaxDisruptions
         /\ Disrupts => disruptions' \in 0..MaxDisruptions
BY DeploymentAssumption
   DEF LifeInv, TypeOK, PodInv, RequestInv, Handling, Disrupts

LEMMA TerminateLife ==
  ASSUME LifeInv, NEW p \in Pods, Terminate(p),
         target' = target, disruptions' \in 0..MaxDisruptions
  PROVE  LifeInv'
<1>1. CASE /\ pods[p].at = "serving"
           /\ pods' = [pods EXCEPT ![p].at = "draining"]
           /\ UNCHANGED request
  <2>. DEFINE x == [pods[p] EXCEPT !.at = "draining"]
  <2>1. x \in Pod /\ PodOK(x) /\ x.at = "draining"
    BY <1>1, PodFacts DEF Pod, PodOK
  <2>2. pods' = [pods EXCEPT ![p] = x]
    BY <1>1 DEF LifeInv, TypeOK
  <2>3. UNCHANGED userVars
    BY <1>1 DEF Terminate, userVars
  <2>. QED  BY <2>1, <2>2, <2>3, PodChanges, PodFacts
<1>2. CASE pods[p].at = "wiring" /\ Exits(p)
  BY <1>2, PodExits DEF Terminate
<1>. QED  BY <1>1, <1>2 DEF Terminate

LEMMA PodLife ==
  ASSUME LifeInv, NEW p \in Pods, PodStep(p) \/ Evict(p) \/ Crash(p)
  PROVE  LifeInv'
<1>. DEFINE Opened(what) == [pods[p] EXCEPT !.open = @ \cup what]
            Staged(at) == [pods[p] EXCEPT !.at = at]
<1>0. /\ pods[p] \in Pod /\ PodOK(pods[p])
      /\ pods \in [Pods -> Pod]
      /\ Handling(p) => pods[p].at \in {"serving", "draining", "forced"}
      /\ target \in Builds /\ disruptions \in 0..MaxDisruptions
  BY PodFacts DEF LifeInv, TypeOK
<1>1. CASE Boot(p)
  <2>. DEFINE x == [build |-> target, at |-> "wiring", open |-> {}]
  <2>1. x \in Pod /\ PodOK(x)
    BY <1>0 DEF Pod, PodOK
  <2>2. ~Handling(p) /\ pods' = [pods EXCEPT ![p] = x]
    BY <1>0, <1>1 DEF Boot
  <2>. QED  BY <1>0, <1>1, <2>1, <2>2, PodChanges DEF Boot, operatorVars
<1>2. CASE ConnectMongo(p)
  <2>1. Opened({"mongo"}) \in Pod /\ PodOK(Opened({"mongo"}))
    BY <1>0, <1>2 DEF ConnectMongo, Wiring, Pod, PodOK, Peripherals
  <2>2. ~Handling(p) /\ pods' = [pods EXCEPT ![p] = Opened({"mongo"})]
    BY <1>0, <1>2 DEF ConnectMongo, Wiring, Opens
  <2>. QED  BY <1>0, <1>2, <2>1, <2>2, PodChanges DEF ConnectMongo, operatorVars
<1>3. CASE LoadCatalog(p)
  <2>1. CASE /\ CatalogRunnable(pods[p].build) /\ Opens(p, {"catalog"})
             /\ UNCHANGED request
    <3>1. Opened({"catalog"}) \in Pod /\ PodOK(Opened({"catalog"}))
      <4>1. pods[p].open \cup {"catalog"} = {"mongo", "catalog"}
        BY <1>3 DEF LoadCatalog, Wiring
      <4>. QED  BY <1>0, <1>3, <2>1, <4>1
                DEF LoadCatalog, Wiring, Pod, PodOK, Peripherals
    <3>2. ~Handling(p) /\ pods' = [pods EXCEPT ![p] = Opened({"catalog"})]
      BY <1>0, <1>3, <2>1 DEF LoadCatalog, Wiring, Opens
    <3>. QED  BY <1>0, <1>3, <2>1, <3>1, <3>2, PodChanges
              DEF LoadCatalog, operatorVars, userVars
  <2>2. CASE Exits(p)
    BY <1>0, <1>3, <2>2, PodExits DEF LoadCatalog, operatorVars
  <2>. QED  BY <1>3, <2>1, <2>2 DEF LoadCatalog
<1>4. CASE StartWorker(p)
  <2>. DEFINE what == {"temporal", "worker"}
  <2>1. Opened(what) \in Pod /\ PodOK(Opened(what))
    <3>1. pods[p].open \cup what = Peripherals
      BY <1>4 DEF StartWorker, Wiring, Peripherals
    <3>. QED  BY <1>0, <1>4, <3>1 DEF StartWorker, Wiring, Pod, PodOK, Peripherals
  <2>2. ~Handling(p) /\ pods' = [pods EXCEPT ![p] = Opened(what)]
    BY <1>0, <1>4 DEF StartWorker, Wiring, Opens
  <2>. QED  BY <1>0, <1>4, <2>1, <2>2, PodChanges DEF StartWorker, operatorVars
<1>5. CASE Listen(p)
  <2>1. Staged("serving") \in Pod /\ PodOK(Staged("serving"))
    BY <1>0, <1>5 DEF Listen, Wiring, Pod, PodOK
  <2>2. ~Handling(p) /\ pods' = [pods EXCEPT ![p] = Staged("serving")]
    BY <1>0, <1>5 DEF Listen, Wiring
  <2>. QED  BY <1>0, <1>5, <2>1, <2>2, PodChanges DEF Listen, operatorVars
<1>6. CASE Replace(p)
  BY <1>0, <1>6, TerminateLife DEF Replace, operatorVars
<1>7. CASE Drain(p)
  <2>1. PICK next \in {"closing", "forced"} :
          (next = "closing" <=> ~Handling(p))
          /\ pods' = [pods EXCEPT ![p] = Staged(next)]
    BY <1>0, <1>7 DEF Drain
  <2>2. Staged(next) \in Pod /\ PodOK(Staged(next)) /\ Staged(next).at = next
    BY <1>0, <1>7, <2>1 DEF Drain, Pod, PodOK, Peripherals
  <2>. QED  BY <1>0, <1>7, <2>1, <2>2, PodChanges DEF Drain, operatorVars
<1>8. CASE Close(p)
  <2>1. ASSUME NEW i \in DOMAIN CloseOrder,
               CloseOrder[i] \in pods[p].open,
               \A j \in 1..(i - 1) : CloseOrder[j] \notin pods[p].open,
               pods' = [pods EXCEPT ![p].open = @ \ {CloseOrder[i]}],
               UNCHANGED request
        PROVE  LifeInv'
    <3>. DEFINE x == [pods[p] EXCEPT !.open = @ \ {CloseOrder[i]}]
    <3>1. x \in Pod /\ x.at = pods[p].at /\ x.build = pods[p].build
          /\ x.open = pods[p].open \ {CloseOrder[i]}
      BY <1>0 DEF Pod
    <3>2. \/ CloseOrder[i] = "worker"
          \/ CloseOrder[i] = "temporal" /\ "worker" \notin pods[p].open
          \/ /\ CloseOrder[i] = "mongo" /\ "worker" \notin pods[p].open
             /\ "temporal" \notin pods[p].open
      BY <2>1 DEF CloseOrder
    <3>3. PodOK(x)
      BY <1>0, <1>8, <3>1, <3>2 DEF Close, PodOK
    <3>. QED  BY <1>0, <1>8, <2>1, <3>1, <3>3, PodChanges
              DEF Close, operatorVars, userVars
  <2>2. CASE Exits(p)
    BY <1>0, <1>8, <2>2, PodExits DEF Close, operatorVars
  <2>. QED  BY <1>8, <2>1, <2>2 DEF Close
<1>9. CASE Evict(p)
  BY <1>0, <1>9, TerminateLife, PodFacts DEF Evict
<1>10. CASE Crash(p)
  BY <1>0, <1>10, PodExits, PodFacts DEF Crash
<1>. QED
  BY <1>1, <1>2, <1>3, <1>4, <1>5, <1>6, <1>7, <1>8, <1>9, <1>10 DEF PodStep

-----------------------------------------------------------------------------
\* What an executor at pos of v shows.
Shows(v, pos) ==
  [status  |-> IF MarkedComplete(StepsOf(v), pos - 1) THEN "completed"
               ELSE "in_progress",
   version |-> v,
   current |-> IF pos <= Len(StepsOf(v)) THEN StepsOf(v)[pos].name
               ELSE StepsOf(v)[Len(StepsOf(v))].name,
   steps   |-> [i \in 1..(pos - 1) |-> StepsOf(v)[i].name]]

\* What one shows that lacks v, at the first position.
ShowsNothing(v) == [status |-> "in_progress", version |-> v, current |-> None,
                    steps |-> << >>]

LEMMA ShowsFacts ==
  ASSUME NEW v \in AllVersions, NEW pos \in 1..(Len(StepsOf(v)) + 1)
  PROVE  /\ Shows(v, pos) \in Doc
         /\ Len(Shows(v, pos).steps) = pos - 1
         /\ DOMAIN Shows(v, pos).steps = 1..(pos - 1)
         /\ \A i \in 1..(pos - 1) :
              Shows(v, pos).steps[i] = StepsOf(v)[i].name
<1>. DEFINE names == [i \in 1..(pos - 1) |-> StepsOf(v)[i].name]
<1>1. /\ \A i \in 1..Len(StepsOf(v)) : StepsOf(v)[i].name \in AllNames
      /\ Len(StepsOf(v)) \in Nat \ {0} /\ pos - 1 \in Nat
  BY StepsFacts
<1>2. names \in Seq(AllNames) /\ Len(names) = pos - 1
  BY <1>1
<1>3. (IF pos <= Len(StepsOf(v)) THEN StepsOf(v)[pos].name
       ELSE StepsOf(v)[Len(StepsOf(v))].name) \in AllNames
  BY <1>1
<1>. QED  BY <1>2, <1>3 DEF Shows, Doc

LEMMA NothingFacts ==
  ASSUME NEW v \in AllVersions
  PROVE  ShowsNothing(v) \in Doc /\ Len(ShowsNothing(v).steps) = 0
BY DEF ShowsNothing, Doc

\* What an instance persists: the position if its build has the version, and
\* nothing of the journey if not.
LEMMA PersistFacts ==
  ASSUME LifeInv, NEW p \in Pods, TakesTask(p),
         run.pos <= Len(StepsOn(p)) + 1
  PROVE  /\ run.version \in AllVersions
         /\ \/ /\ StepsOn(p) = StepsOf(run.version)
               /\ JourneyAt(StepsOn(p), run.pos) = Shows(run.version, run.pos)
            \/ /\ Len(StepsOn(p)) = 0 /\ run.pos = 1
               /\ JourneyAt(StepsOn(p), run.pos) = ShowsNothing(run.version)
<1>1. run.version \in AllVersions /\ run.pos \in Nat \ {0}
  BY DEF LifeInv, PinInv, TakesTask, TypeOK, Run
<1>2. pods[p].build \in Builds
  BY PodFacts DEF TakesTask, PodOK
<1>3. CASE run.version \in DOMAIN Catalog[pods[p].build]
  <2>1. StepsOn(p) = StepsOf(run.version)
    BY <1>2, <1>3, VersionFacts DEF StepsOn
  <2>2. StepsOf(run.version) # << >>
    BY <1>1, StepsFacts
  <2>3. JourneyAt(StepsOn(p), run.pos) = Shows(run.version, run.pos)
    BY <2>1, <2>2 DEF JourneyAt, Shows
  <2>. QED  BY <1>1, <2>1, <2>3
<1>4. CASE run.version \notin DOMAIN Catalog[pods[p].build]
  <2>1. StepsOn(p) = << >>
    BY <1>4 DEF StepsOn, CatalogSteps
  <2>2. Len(StepsOn(p)) = 0 /\ run.pos = 1
    BY <1>1, <2>1
  <2>3. [i \in 1..0 |-> StepsOn(p)[i].name] = << >>
    OBVIOUS
  <2>4. ~MarkedComplete(StepsOn(p), 0)
    BY DEF MarkedComplete
  <2>5. JourneyAt(StepsOn(p), 1) = ShowsNothing(run.version)
    BY <2>1, <2>3, <2>4 DEF JourneyAt, ShowsNothing
  <2>. QED  BY <1>1, <2>2, <2>5
<1>. QED  BY <1>3, <1>4

\* The document is what a persist at pos of v has left.
LeftAt(v, pos) ==
  doc = Shows(v, pos) \/ (pos = 1 /\ doc = ShowsNothing(v))

\* Of an open run, what its last persist showed is what the document tells.
WalkInv ==
  run.open =>
    /\ run.pos \in 1..(Len(StepsOf(run.version)) + 1)
    /\ run.phase = "walk" => LeftAt(run.version, run.pos)
    /\ run.phase = "persist" /\ run.pos > 1 => LeftAt(run.version, run.pos - 1)

DocInv ==
  doc = NoDoc \/ \E v \in AllVersions :
                   \E pos \in 1..(Len(StepsOf(v)) + 1) : LeftAt(v, pos)

\* A walk that has shown nothing yet has nothing to take back.
FreshInv ==
  (run.open => run.pos = 1 /\ run.phase = "persist") =>
    (doc.status = "in_progress" => Len(doc.steps) = 0)

WholeInv == LifeInv /\ WalkInv /\ DocInv /\ FreshInv

LEMMA InitWhole == Init => WholeInv
<1>1. Init => LifeInv
  BY InitLife
<1>2. ASSUME Init
      PROVE  WalkInv /\ DocInv /\ FreshInv
  BY <1>2 DEF Init, WalkInv, DocInv, FreshInv, NoRun, NoDoc
<1>. QED  BY <1>1, <1>2 DEF WholeInv

LEMMA SameJourney ==
  ASSUME WholeInv, UNCHANGED <<run, doc>>, LifeInv'
  PROVE  WholeInv'
BY DEF WholeInv, WalkInv, DocInv, FreshInv, LeftAt, Shows

LEMMA RequestLife ==
  ASSUME LifeInv, UNCHANGED <<operatorVars, pods, doc>>,
         run' \in Run, PinInv',
         request' \in Request \cup {NoRequest}, RequestInv'
  PROVE  LifeInv'
BY DEF LifeInv, TypeOK, PodInv, PodOK, operatorVars, CatalogRunnable

\* The user's requests.
LEMMA UserWhole ==
  ASSUME WholeInv,
         (\E p \in Pods : Login(p) \/ PostStep(p)) \/ HandlerStep
  PROVE  WholeInv'
<1>0. /\ LifeInv /\ TypeOK /\ run \in Run /\ doc \in Doc
      /\ PodInv /\ RequestInv /\ PinInv
  BY DEF WholeInv, LifeInv, TypeOK
<1>1. ASSUME NEW p \in Pods, Login(p)
      PROVE  WholeInv'
  <2>1. request' \in Request /\ RequestInv'
    BY <1>1 DEF Login, Request, RequestInv
  <2>2. LifeInv'
    BY <1>0, <1>1, <2>1, RequestLife DEF Login, PinInv
  <2>. QED  BY <1>1, <2>2, SameJourney DEF Login
<1>2. ASSUME NEW p \in Pods, PostStep(p)
      PROVE  WholeInv'
  <2>1. pods[p].build \in Builds /\ pods[p].at = "serving"
    BY <1>0, <1>2, PodFacts DEF PostStep, PodOK
  <2>2. doc.current \in AllNames
    <3>1. CASE doc.version \in DOMAIN Catalog[pods[p].build]
      <4>1. CatalogSteps(pods[p].build, doc.version)
              = Catalog[pods[p].build][doc.version]
        BY <3>1 DEF CatalogSteps
      <4>2. StepNames(CatalogSteps(pods[p].build, doc.version))
              \subseteq AllNames
        BY <2>1, <3>1, <4>1 DEF AllNames
      <4>. QED  BY <1>2, <4>2 DEF PostStep, StepInCatalog
    <3>2. CASE doc.version \notin DOMAIN Catalog[pods[p].build]
      <4>1. CatalogSteps(pods[p].build, doc.version) = << >>
        BY <3>2 DEF CatalogSteps
      <4>. QED  BY <1>2, <4>1 DEF PostStep, StepInCatalog, StepNames
    <3>. QED  BY <3>1, <3>2
  <2>3. request' \in Request /\ RequestInv'
    BY <1>2, <2>1, <2>2 DEF PostStep, Request, RequestInv
  <2>4. LifeInv'
    BY <1>0, <1>2, <2>3, RequestLife DEF PostStep, PinInv
  <2>. QED  BY <1>2, <2>4, SameJourney DEF PostStep
<1>3. NoRequest \in Request \cup {NoRequest}
      /\ (request' = NoRequest => RequestInv')
  BY DEF RequestInv, NoRequest
<1>4. CASE StartRun
  <2>1. CASE UNCHANGED run
    <3>1. LifeInv'
      BY <1>0, <1>3, <1>4, <2>1, RequestLife DEF StartRun, PinInv
    <3>. QED  BY <1>4, <2>1, <3>1, SameJourney DEF StartRun
  <2>2. CASE /\ "temporal" \in pods[request.pod].open /\ ~run.open
             /\ run' = [NoRun EXCEPT !.open = TRUE,
                          !.version = LatestVersion(pods[request.pod].build)]
    <3>. DEFINE b == pods[request.pod].build
    <3>1. request.pod \in Pods /\ request # NoRequest
      BY <1>0, <1>4 DEF StartRun, TypeOK, Request, NoRequest
    <3>2. b \in Builds /\ CatalogRunnable(b)
      BY <1>0, <2>2, <3>1, PodFacts DEF PodOK, RequestInv
    <3>3. LatestVersion(b) \in DOMAIN Catalog[b]
          /\ LatestVersion(b) \in AllVersions
      BY <3>2, LatestFacts, VersionFacts
    <3>4. /\ run' \in Run /\ run'.open /\ run'.version = LatestVersion(b)
          /\ run'.pos = 1 /\ run'.phase = "persist"
      <4>1. run' = [open |-> TRUE, version |-> LatestVersion(b), pos |-> 1,
                    phase |-> "persist", signals |-> {}]
        BY <2>2 DEF NoRun
      <4>. QED  BY <3>3, <4>1 DEF Run
    <3>5. PinInv'
      BY <3>2, <3>3, <3>4 DEF PinInv, Runnable, CatalogRunnable
    <3>6. LifeInv'
      BY <1>0, <1>3, <1>4, <3>4, <3>5, RequestLife DEF StartRun
    <3>7. 1 \in 1..(Len(StepsOf(run'.version)) + 1)
      BY <3>3, <3>4, StepsFacts
    <3>8. doc' = doc
      BY <1>4 DEF StartRun
    <3>9. WalkInv'
      BY <3>4, <3>7 DEF WalkInv
    <3>10. DocInv'
      BY <3>8 DEF WholeInv, DocInv, LeftAt
    <3>11. FreshInv'
      BY <2>2, <3>8 DEF WholeInv, FreshInv
    <3>. QED  BY <3>6, <3>9, <3>10, <3>11 DEF WholeInv
  <2>. QED  BY <1>4, <2>1, <2>2 DEF StartRun, Start
<1>5. CASE SignalRun
  <2>1. CASE UNCHANGED run
    <3>1. LifeInv'
      BY <1>0, <1>3, <1>5, <2>1, RequestLife DEF SignalRun, PinInv
    <3>. QED  BY <1>5, <2>1, <3>1, SameJourney DEF SignalRun
  <2>2. CASE run.open /\
             run' = [run EXCEPT !.signals = @ \cup {request.step}]
    <3>1. /\ run' \in Run /\ run'.open = run.open
          /\ run'.version = run.version /\ run'.pos = run.pos
          /\ run'.phase = run.phase
      BY <1>0, <1>5, <2>2 DEF SignalRun, RequestInv, Run
    <3>2. PinInv'
      BY <1>0, <3>1 DEF PinInv
    <3>3. LifeInv'
      BY <1>0, <1>3, <1>5, <3>1, <3>2, RequestLife DEF SignalRun
    <3>4. doc' = doc
      BY <1>5 DEF SignalRun
    <3>5. WalkInv' /\ DocInv' /\ FreshInv'
      BY <3>1, <3>4 DEF WholeInv, WalkInv, DocInv, FreshInv, LeftAt, Shows
    <3>. QED  BY <3>3, <3>5 DEF WholeInv
  <2>. QED  BY <1>5, <2>1, <2>2 DEF SignalRun
<1>. QED  BY <1>1, <1>2, <1>4, <1>5 DEF HandlerStep

\* A task of the workflow, whichever instance takes it.
LEMMA TaskLife ==
  ASSUME LifeInv, UNCHANGED <<operatorVars, pods, request>>,
         run' \in Run, doc' \in Doc,
         run'.open => run.open /\ run'.version = run.version
  PROVE  LifeInv'
<1>1. TypeOK'
  BY DEF LifeInv, TypeOK, operatorVars
<1>2. PodInv' /\ RequestInv' /\ PinInv'
  BY DEF LifeInv, PodInv, PodOK, RequestInv, PinInv, Runnable, CatalogRunnable
<1>. QED  BY <1>1, <1>2 DEF LifeInv

LEMMA PersistWhole ==
  ASSUME WholeInv, NEW p \in Pods, Persist(p)
  PROVE  WholeInv'
<1>0. LifeInv /\ run \in Run /\ run.open
  BY DEF WholeInv, LifeInv, TypeOK, Persist, TakesTask
<1>1. /\ run.version \in AllVersions
      /\ \/ doc' = Shows(run.version, run.pos)
         \/ run.pos = 1 /\ doc' = ShowsNothing(run.version)
  BY <1>0, PersistFacts DEF Persist
<1>2. run.pos \in 1..(Len(StepsOf(run.version)) + 1)
  BY <1>0 DEF WholeInv, WalkInv
<1>3. LeftAt(run.version, run.pos)'
  BY <1>1, <1>2 DEF LeftAt, Persist, Run
<1>4. /\ run' \in Run /\ run'.open /\ run'.version = run.version
      /\ run'.pos = run.pos /\ run'.phase = "walk"
  BY <1>0 DEF Persist, Run
<1>5. doc' \in Doc
  BY <1>1, <1>2, ShowsFacts, NothingFacts
<1>6. LifeInv'
  BY <1>0, <1>4, <1>5, TaskLife DEF Persist
<1>7. WalkInv'
  <2>1. (LeftAt(run.version, run.pos))' <=> LeftAt(run.version, run.pos)'
    OBVIOUS
  <2>. QED  BY <1>1, <1>2, <1>4 DEF WalkInv, LeftAt
<1>8. DocInv'
  BY <1>1, <1>2 DEF DocInv, LeftAt
<1>9. FreshInv'
  BY <1>4 DEF FreshInv
<1>. QED  BY <1>6, <1>7, <1>8, <1>9 DEF WholeInv

LEMMA WalkStepWhole ==
  ASSUME WholeInv, NEW p \in Pods, WalkStep(p)
  PROVE  WholeInv'
<1>0. /\ LifeInv /\ run \in Run /\ doc \in Doc /\ run.open
      /\ run.pos \in Nat \ {0} /\ run.phase = "walk"
  BY DEF WholeInv, LifeInv, TypeOK, WalkStep, TakesTask, Run
<1>1. /\ run.version \in AllVersions
      /\ StepsOn(p) = StepsOf(run.version)
  BY <1>0, PersistFacts DEF WalkStep
<1>2. run.pos \in 1..Len(StepsOf(run.version))
  BY <1>0, <1>1, StepsFacts DEF WalkStep
<1>3. /\ run' \in Run /\ run'.open /\ run'.version = run.version
      /\ run'.pos = run.pos + 1 /\ run'.phase = "persist"
  <2>1. PICK taken : run' = [run EXCEPT !.pos = @ + 1, !.phase = "persist",
                                        !.signals = @ \ taken]
    BY DEF WalkStep
  <2>2. run.pos + 1 \in Nat \ {0}
    BY <1>0
  <2>. QED  BY <1>0, <2>1, <2>2 DEF Run
<1>4. doc' = doc
  BY DEF WalkStep
<1>5. LifeInv'
  BY <1>0, <1>3, <1>4, TaskLife DEF WalkStep
<1>6. LeftAt(run.version, run.pos)
  BY <1>0 DEF WholeInv, WalkInv
<1>7. WalkInv'
  <2>1. run'.pos \in 1..(Len(StepsOf(run.version)) + 1)
        /\ run'.pos - 1 = run.pos
    <3>1. Len(StepsOf(run.version)) \in Nat
      BY <1>1, StepsFacts
    <3>2. run.pos \in 1..Len(StepsOf(run.version)) /\ run'.pos = run.pos + 1
      BY <1>2, <1>3
    <3>. QED  BY <1>0, <3>1, <3>2
  <2>. QED  BY <1>3, <1>4, <1>6, <2>1 DEF WalkInv, LeftAt
<1>8. DocInv'
  BY <1>4 DEF WholeInv, DocInv, LeftAt
<1>9. FreshInv'
  BY <1>0, <1>3 DEF FreshInv
<1>. QED  BY <1>5, <1>7, <1>8, <1>9 DEF WholeInv

\* A run returns with its journey completed, or before it has walked a step.
LEMMA ReturnFacts ==
  ASSUME WholeInv, NEW p \in Pods, Return(p)
  PROVE  \/ doc.status = "completed"
         \/ /\ run.pos = 1 /\ doc.status = "in_progress"
            /\ Len(doc.steps) = 0
<1>0. LifeInv /\ run.open /\ run.pos \in Nat \ {0} /\ TakesTask(p)
  BY DEF WholeInv, LifeInv, TypeOK, Return, TakesTask, Run
<1>1. /\ run.version \in AllVersions
      /\ \/ StepsOn(p) = StepsOf(run.version)
         \/ Len(StepsOn(p)) = 0 /\ run.pos = 1
  BY <1>0, PersistFacts DEF Return
<1>2. LeftAt(run.version, run.pos)
  BY <1>0 DEF WholeInv, WalkInv, Return
<1>3. Len(StepsOf(run.version)) \in Nat \ {0}
  BY <1>1, StepsFacts
<1>4. CASE run.pos = 1
  <2>1. 1 \in 1..(Len(StepsOf(run.version)) + 1)
    BY <1>3
  <2>2. /\ Len(Shows(run.version, 1).steps) = 0
        /\ Shows(run.version, 1).status = "in_progress"
    <3>1. ~MarkedComplete(StepsOf(run.version), 0)
      BY DEF MarkedComplete
    <3>. QED  BY <1>1, <2>1, <3>1, ShowsFacts DEF Shows
  <2>3. ShowsNothing(run.version).status = "in_progress"
        /\ Len(ShowsNothing(run.version).steps) = 0
    BY <1>1, NothingFacts DEF ShowsNothing
  <2>4. doc = Shows(run.version, 1) \/ doc = ShowsNothing(run.version)
    BY <1>2, <1>4 DEF LeftAt
  <2>. QED  BY <1>4, <2>2, <2>3, <2>4
<1>5. CASE run.pos # 1
  <2>1. run.pos = Len(StepsOf(run.version)) + 1
    BY <1>1, <1>5 DEF Return
  <2>2. MarkedComplete(StepsOf(run.version), run.pos - 1)
    BY <1>1, <1>3, <2>1, StepsFacts
  <2>. QED  BY <1>2, <1>5, <2>2 DEF LeftAt, Shows
<1>. QED  BY <1>4, <1>5

LEMMA ReturnWhole ==
  ASSUME WholeInv, NEW p \in Pods, Return(p)
  PROVE  WholeInv'
<1>0. LifeInv /\ run \in Run /\ doc \in Doc
  BY DEF WholeInv, LifeInv, TypeOK
<1>1. run' \in Run /\ ~run'.open /\ doc' = doc
  BY <1>0 DEF Return, Run
<1>2. LifeInv'
  BY <1>0, <1>1, TaskLife DEF Return
<1>3. WalkInv'
  BY <1>1 DEF WalkInv
<1>4. DocInv'
  BY <1>1 DEF WholeInv, DocInv, LeftAt
<1>5. FreshInv'
  BY <1>1, ReturnFacts DEF FreshInv
<1>. QED  BY <1>2, <1>3, <1>4, <1>5 DEF WholeInv

-----------------------------------------------------------------------------
LEMMA DeployLife ==
  ASSUME LifeInv, NEW b \in Builds, Deploy(b)
  PROVE  LifeInv'
<1>1. target' \in Builds /\ disruptions' \in 0..MaxDisruptions
  BY DeploymentAssumption DEF LifeInv, TypeOK, Deploy, Disrupts
<1>2. TypeOK'
  BY <1>1 DEF LifeInv, TypeOK, Deploy, userVars
<1>3. PodInv' /\ RequestInv' /\ PinInv'
  BY DEF LifeInv, PodInv, PodOK, RequestInv, PinInv, Runnable, CatalogRunnable,
         Deploy, userVars
<1>. QED  BY <1>2, <1>3 DEF LifeInv

LEMMA StutterLife ==
  ASSUME LifeInv, UNCHANGED vars
  PROVE  LifeInv'
BY DEF LifeInv, TypeOK, PodInv, PodOK, RequestInv, PinInv, Runnable,
       CatalogRunnable, vars, operatorVars, userVars

\* What the life of the instances changes is neither run nor document.
LEMMA PodsApart ==
  ASSUME NEW p \in Pods, PodStep(p) \/ Evict(p) \/ Crash(p)
  PROVE  UNCHANGED <<run, doc>>
BY DEF PodStep, Boot, ConnectMongo, LoadCatalog, StartWorker, Listen, Replace,
       Drain, Close, Evict, Crash, Terminate, userVars

LEMMA NextWhole == WholeInv /\ [Next]_vars => WholeInv'
<1>. SUFFICES ASSUME WholeInv, [Next]_vars PROVE WholeInv'
  OBVIOUS
<1>1. LifeInv
  BY DEF WholeInv
<1>2. CASE UNCHANGED vars
  BY <1>1, <1>2, StutterLife, SameJourney DEF vars, userVars
<1>3. ASSUME NEW b \in Builds, Deploy(b) PROVE WholeInv'
  <2>1. LifeInv'
    BY <1>1, <1>3, DeployLife
  <2>. QED  BY <1>3, <2>1, SameJourney DEF Deploy, userVars
<1>4. ASSUME NEW p \in Pods, PodStep(p) \/ Evict(p) \/ Crash(p) PROVE WholeInv'
  <2>1. LifeInv'
    BY <1>1, <1>4, PodLife
  <2>2. UNCHANGED <<run, doc>>
    BY <1>4, PodsApart
  <2>. QED  BY <2>1, <2>2, SameJourney
<1>5. CASE (\E p \in Pods : Login(p) \/ PostStep(p)) \/ HandlerStep
  BY <1>5, UserWhole
<1>6. ASSUME NEW p \in Pods, TaskStep(p) PROVE WholeInv'
  BY <1>6, PersistWhole, WalkStepWhole, ReturnWhole DEF TaskStep
<1>. QED  BY <1>2, <1>3, <1>4, <1>5, <1>6 DEF Next

LEMMA WholeInvariant == Spec => []WholeInv
BY InitWhole, NextWhole, PTL DEF Spec

-----------------------------------------------------------------------------
\* Instances, run, document and request keep their types through any boots,
\* drains and crashes (wiring.go).
THEOREM DeploymentTypeCorrect == Spec => []TypeOK
<1>1. WholeInv => TypeOK
  BY DEF WholeInv, LifeInv
<1>. QED  BY <1>1, WholeInvariant, PTL

\* A worker polls only with catalog and Mongo there, and a request in progress
\* keeps Mongo and Temporal unless the drain timed out on it, however many
\* instances boot, drain and crash (wiring.go:107-199, 261-273, 335-344).
THEOREM WorksWithOpenCorrect == Spec => []WorksWithOpen
<1>1. ASSUME WholeInv PROVE WorksWithOpen
  <2>. SUFFICES ASSUME NEW p \in Pods
                PROVE  /\ "worker" \in pods[p].open =>
                            {"mongo", "catalog"} \subseteq pods[p].open
                       /\ Handling(p) /\ pods[p].at # "forced" =>
                            {"mongo", "temporal"} \subseteq pods[p].open
    BY DEF WorksWithOpen
  <2>1. PodOK(pods[p])
        /\ (Handling(p) => pods[p].at \in {"serving", "draining", "forced"})
    BY <1>1, PodFacts DEF WholeInv
  <2>. QED  BY <2>1 DEF PodOK, Peripherals
<1>. QED  BY <1>1, WholeInvariant, PTL

\* Whatever builds are deployed, in any order, no run is pinned to a version
\* with a step nothing executes: a build that has one does not get past
\* loadCatalog, and a version is the same in all builds (wiring.go:128-133,
\* catalog.go:7-10).
THEOREM PinnedIsRunnableCorrect == Spec => []PinnedIsRunnable
<1>1. ASSUME WholeInv PROVE PinnedIsRunnable
  <2>. SUFFICES ASSUME run.open, NEW b \in Builds,
                       run.version \in DOMAIN Catalog[b]
                PROVE  ValidateActions(Catalog[b][run.version])
    BY DEF PinnedIsRunnable
  <2>1. PICK c \in Builds : run.version \in DOMAIN Catalog[c] /\ CatalogRunnable(c)
    BY <1>1 DEF WholeInv, LifeInv, PinInv, Runnable
  <2>2. Catalog[b][run.version] = Catalog[c][run.version]
    BY <2>1, DeploymentAssumption
  <2>. QED  BY <2>1, <2>2 DEF CatalogRunnable
<1>. QED  BY <1>1, WholeInvariant, PTL

\* What a persist shows is a journey of the version it names.
LEMMA ShowsJourney ==
  ASSUME NEW v \in AllVersions, NEW pos \in 1..(Len(StepsOf(v)) + 1),
         NEW b \in Builds, v \in DOMAIN Catalog[b]
  PROVE  Shows(v, pos)
           = [JourneyAt(Catalog[b][v], Len(Shows(v, pos).steps) + 1)
                EXCEPT !.version = v]
<1>1. Catalog[b][v] = StepsOf(v)
  BY VersionFacts
<1>2. Len(Shows(v, pos).steps) + 1 = pos
  <2>1. Len(Shows(v, pos).steps) = pos - 1 /\ Len(StepsOf(v)) \in Nat
    BY ShowsFacts, StepsFacts
  <2>. QED  BY <2>1
<1>3. StepsOf(v) # << >>
  BY StepsFacts
<1>4. Shows(v, pos) = [JourneyAt(StepsOf(v), pos) EXCEPT !.version = v]
  <2>. DEFINE st == IF MarkedComplete(StepsOf(v), pos - 1) THEN "completed"
                    ELSE "in_progress"
              cur == IF pos <= Len(StepsOf(v)) THEN StepsOf(v)[pos].name
                     ELSE StepsOf(v)[Len(StepsOf(v))].name
              done == [i \in 1..(pos - 1) |-> StepsOf(v)[i].name]
  <2>1. JourneyAt(StepsOf(v), pos) = [status |-> st, version |-> run.version,
                                      current |-> cur, steps |-> done]
    BY <1>3, Zenon DEF JourneyAt
  <2>2. Shows(v, pos) = [status |-> st, version |-> v, current |-> cur,
                         steps |-> done]
    BY Zenon DEF Shows
  <2>. HIDE DEF st, cur, done
  <2>. QED  BY <2>1, <2>2
<1>. QED  BY <1>1, <1>2, <1>4

\* Instances of different builds may persist one journey in turn: what the
\* document tells stays one walk of one version (catalog.go:106-108).
THEOREM OneWalkCorrect == Spec => []OneWalkOfOneVersion
<1>1. ASSUME WholeInv PROVE OneWalkOfOneVersion
  <2>. SUFFICES ASSUME doc.status # "absent", NEW b \in Builds,
                       doc.version \in DOMAIN Catalog[b]
                PROVE  \/ doc = [JourneyAt(Catalog[b][doc.version],
                                           Len(doc.steps) + 1)
                                   EXCEPT !.version = doc.version]
                       \/ doc.current = None /\ doc.steps = << >>
    BY DEF OneWalkOfOneVersion
  <2>1. doc # NoDoc
    BY DEF NoDoc
  <2>2. PICK v \in AllVersions : \E pos \in 1..(Len(StepsOf(v)) + 1) :
                                   LeftAt(v, pos)
    BY <1>1, <2>1 DEF WholeInv, DocInv
  <2>3. PICK pos \in 1..(Len(StepsOf(v)) + 1) : LeftAt(v, pos)
    BY <2>2
  <2>4. CASE doc = Shows(v, pos)
    <3>1. doc.version = v
      BY <2>4 DEF Shows
    <3>. QED  BY <2>4, <3>1, ShowsJourney
  <2>5. CASE doc = ShowsNothing(v)
    BY <2>5 DEF ShowsNothing
  <2>. QED  BY <2>3, <2>4, <2>5 DEF LeftAt
<1>. QED  BY <1>1, WholeInvariant, PTL

\* Only Return ends a run, and no step takes it back, so neither an instance
\* without the version nor a second start cuts a walk short
\* (onboarding_workflow.go:96-163, starter.go:34-50).
THEOREM WalkIsFinishedCorrect == Spec => WalkIsFinished
<1>1. ASSUME WholeInv, [Next]_vars, run.open, run.pos > 1,
             ~run'.open \/ run'.pos < run.pos
      PROVE  doc.status = "completed"
  <2>0. run \in Run /\ run.pos \in Nat
    BY <1>1 DEF WholeInv, LifeInv, TypeOK, Run
  <2>1. ASSUME run'.open = run.open, run'.pos = run.pos PROVE FALSE
    BY <1>1, <2>0, <2>1
  <2>2. run' # run
    BY <2>1
  <2>3. ~(UNCHANGED vars)
    BY <2>2 DEF vars, userVars
  <2>4. \A b \in Builds : ~Deploy(b)
    BY <2>2 DEF Deploy, userVars
  <2>5. \A p \in Pods : ~(PodStep(p) \/ Evict(p) \/ Crash(p))
    BY <2>2, PodsApart
  <2>6. \A p \in Pods : ~(Login(p) \/ PostStep(p))
    BY <2>2 DEF Login, PostStep
  <2>7. ~HandlerStep
    <3>1. ~StartRun
      BY <1>1, <2>2 DEF StartRun, Start
    <3>2. ~SignalRun
      <4>1. ASSUME run' = [run EXCEPT !.signals = @ \cup {request.step}]
            PROVE  FALSE
        BY <2>0, <2>1, <4>1 DEF Run
      <4>. QED  BY <2>2, <4>1 DEF SignalRun
    <3>. QED  BY <3>1, <3>2 DEF HandlerStep
  <2>8. PICK p \in Pods : TaskStep(p)
    BY <1>1, <2>3, <2>4, <2>5, <2>6, <2>7 DEF Next
  <2>9. ~Persist(p)
    BY <2>0, <2>1 DEF Persist, Run
  <2>10. ~WalkStep(p)
    <3>1. ASSUME WalkStep(p) PROVE FALSE
      <4>1. PICK taken : run' = [run EXCEPT !.pos = @ + 1, !.phase = "persist",
                                            !.signals = @ \ taken]
        BY <3>1 DEF WalkStep
      <4>2. run'.open /\ run'.pos = run.pos + 1
        BY <1>1, <2>0, <4>1 DEF Run
      <4>. QED  BY <1>1, <2>0, <4>2
    <3>. QED  BY <3>1
  <2>11. Return(p)
    BY <2>8, <2>9, <2>10 DEF TaskStep
  <2>. QED  BY <1>1, <2>0, <2>11, ReturnFacts
<1>. QED  BY <1>1, WholeInvariant, PTL DEF Spec, WalkIsFinished

\* Only a persist changes the document, and whichever instance makes it, it
\* repeats the completed steps that are there; a new run's first finds none,
\* because a run ends in progress only where it began
\* (onboarding_workflow.go:96-163).
THEOREM CompletedStepsStayCorrect == Spec => CompletedStepsStay
<1>1. ASSUME WholeInv, [Next]_vars, doc.status = "in_progress"
      PROVE  IsPrefixOf(doc.steps, doc'.steps)
  <2>0. LifeInv /\ run \in Run /\ doc \in Doc
    BY <1>1 DEF WholeInv, LifeInv, TypeOK
  <2>1. CASE doc' = doc
    BY <2>0, <2>1 DEF IsPrefixOf, Doc
  <2>2. CASE doc' # doc
    <3>1. PICK p \in Pods : Persist(p)
      <4>1. ~(UNCHANGED vars)
        BY <2>2 DEF vars, userVars
      <4>2. \A b \in Builds : ~Deploy(b)
        BY <2>2 DEF Deploy, userVars
      <4>3. \A p \in Pods : ~(PodStep(p) \/ Evict(p) \/ Crash(p))
        BY <2>2, PodsApart
      <4>4. \A p \in Pods : ~(Login(p) \/ PostStep(p))
        BY <2>2 DEF Login, PostStep
      <4>5. ~HandlerStep
        BY <2>2 DEF HandlerStep, StartRun, SignalRun
      <4>6. \A p \in Pods : ~(WalkStep(p) \/ Return(p))
        BY <2>2 DEF WalkStep, Return
      <4>. QED  BY <1>1, <4>1, <4>2, <4>3, <4>4, <4>5, <4>6 DEF Next, TaskStep
    <3>2. /\ run.open /\ run.phase = "persist" /\ TakesTask(p)
          /\ run.pos \in Nat \ {0}
      BY <2>0, <3>1 DEF Persist, TakesTask, Run
    <3>3. CASE run.pos = 1
      <4>1. Len(doc.steps) = 0
        BY <1>1, <3>2, <3>3 DEF WholeInv, FreshInv
      <4>2. doc'.steps \in Seq(AllNames)
        <5>1. doc' \in Doc
          BY <1>1, <3>1, PersistWhole DEF WholeInv, LifeInv, TypeOK
        <5>. QED  BY <5>1 DEF Doc
      <4>. QED  BY <2>0, <4>1, <4>2 DEF IsPrefixOf, Doc
    <3>4. CASE run.pos # 1
      <4>. DEFINE v == run.version
                  pos == run.pos
      <4>1. v \in AllVersions /\ doc' = Shows(v, pos)
        BY <2>0, <3>1, <3>2, <3>4, PersistFacts DEF Persist
      <4>2. pos \in 1..(Len(StepsOf(v)) + 1) /\ LeftAt(v, pos - 1)
        BY <1>1, <3>2, <3>4 DEF WholeInv, WalkInv
      <4>3. pos - 1 \in 1..(Len(StepsOf(v)) + 1)
        <5>1. Len(StepsOf(v)) \in Nat
          BY <4>1, StepsFacts
        <5>. QED  BY <3>2, <3>4, <4>2, <5>1
      <4>4. /\ Len(doc'.steps) = pos - 1
            /\ \A i \in 1..(pos - 1) : doc'.steps[i] = StepsOf(v)[i].name
        BY <4>1, <4>2, ShowsFacts
      <4>5. CASE doc = Shows(v, pos - 1)
        <5>1. /\ Len(doc.steps) = pos - 2 /\ DOMAIN doc.steps = 1..(pos - 2)
              /\ \A i \in 1..(pos - 2) : doc.steps[i] = StepsOf(v)[i].name
          BY <3>2, <4>1, <4>3, <4>5, ShowsFacts
        <5>2. Len(doc.steps) <= Len(doc'.steps)
          BY <3>2, <4>4, <5>1
        <5>3. ASSUME NEW i \in DOMAIN doc.steps
              PROVE  doc.steps[i] = doc'.steps[i]
          <6>1. i \in 1..(pos - 2) /\ i \in 1..(pos - 1)
            BY <3>2, <5>1
          <6>. QED  BY <4>4, <5>1, <6>1
        <5>. QED  BY <5>2, <5>3 DEF IsPrefixOf
      <4>6. CASE doc = ShowsNothing(v)
        <5>1. Len(doc.steps) = 0 /\ DOMAIN doc.steps = {}
          BY <4>6 DEF ShowsNothing
        <5>. QED  BY <3>2, <4>4, <5>1 DEF IsPrefixOf
      <4>. QED  BY <4>2, <4>5, <4>6 DEF LeftAt
    <3>. QED  BY <3>3, <3>4
  <2>. QED  BY <2>1, <2>2
<1>. QED  BY <1>1, WholeInvariant, PTL DEF Spec, CompletedStepsStay
-----------------------------------------------------------------------------
\* What a reader of a document is shown of it.
Reading(d) == [version   |-> d.version,
               steps     |-> IF d.status = "absent" THEN -1 ELSE Len(d.steps),
               completed |-> d.status = "completed"]

\* A persist shows the position it is made at, by whatever instance.
LEMMA ReadingFacts ==
  ASSUME NEW v \in AllVersions, NEW pos \in 1..(Len(StepsOf(v)) + 1),
         NEW d, d = Shows(v, pos) \/ (pos = 1 /\ d = ShowsNothing(v))
  PROVE  Reading(d) = P!View(v, pos - 1)
<1>1. Len(StepsOf(v)) \in Nat \ {0}
  BY StepsFacts
<1>2. pos - 1 \in 0..Len(StepsOf(v))
  BY <1>1
<1>3. pos - 1 \in CompletedAt[v] <=> MarkedComplete(StepsOf(v), pos - 1)
  BY <1>2 DEF CompletedAt
<1>4. CASE d = Shows(v, pos)
  <2>1. d.version = v /\ Len(d.steps) = pos - 1
    BY <1>4, ShowsFacts DEF Shows
  <2>2. /\ d.status # "absent"
        /\ d.status = "completed" <=> MarkedComplete(StepsOf(v), pos - 1)
    BY <1>4 DEF Shows
  <2>. QED  BY <1>3, <2>1, <2>2 DEF Reading, P!View
<1>5. CASE pos = 1 /\ d = ShowsNothing(v)
  <2>1. ~MarkedComplete(StepsOf(v), pos - 1)
    BY <1>5 DEF MarkedComplete
  <2>2. d.version = v /\ Len(d.steps) = pos - 1 /\ d.status = "in_progress"
    BY <1>5 DEF ShowsNothing
  <2>. QED  BY <1>3, <2>1, <2>2 DEF Reading, P!View
<1>. QED  BY <1>4, <1>5

\* Where the document is the one left at a position, that position is shown.
LEMMA LeftIsShown ==
  ASSUME WholeInv, run.open, LeftAt(run.version, run.pos),
         run.pos \in 1..(Len(StepsOf(run.version)) + 1)
  PROVE  P!Shown
<1>1. run.version \in AllVersions
  BY DEF WholeInv, LifeInv, PinInv
<1>2. Reading(doc) = P!View(run.version, run.pos - 1)
  BY <1>1, ReadingFacts DEF LeftAt
<1>. QED  BY <1>2 DEF P!Shown, Reading

\* A step that leaves run and document, or only adds a signal, is a stutter.
LEMMA PinnedStutter ==
  ASSUME doc' = doc, run'.open = run.open, run'.version = run.version,
         run'.pos = run.pos
  PROVE  UNCHANGED P!vars
BY DEF P!vars

LEMMA NextPinned ==
  ASSUME WholeInv, [Next]_vars
  PROVE  [P!Next]_P!vars
<1>0. /\ LifeInv /\ run \in Run /\ doc \in Doc
      /\ run.pos \in Nat \ {0}
  BY DEF WholeInv, LifeInv, TypeOK, Run
<1>1. CASE UNCHANGED <<run, doc>>
  BY <1>1, PinnedStutter
<1>2. CASE UNCHANGED vars
  BY <1>1, <1>2 DEF vars, userVars
<1>3. ASSUME NEW b \in Builds, Deploy(b) PROVE [P!Next]_P!vars
  BY <1>1, <1>3 DEF Deploy, userVars
<1>4. ASSUME NEW p \in Pods, PodStep(p) \/ Evict(p) \/ Crash(p)
      PROVE  [P!Next]_P!vars
  BY <1>1, <1>4, PodsApart
<1>5. ASSUME NEW p \in Pods, Login(p) \/ PostStep(p) PROVE [P!Next]_P!vars
  BY <1>1, <1>5 DEF Login, PostStep
<1>6. CASE StartRun
  <2>1. CASE UNCHANGED run
    BY <1>1, <1>6, <2>1 DEF StartRun
  <2>2. CASE /\ ~run.open
             /\ run' = [NoRun EXCEPT !.open = TRUE,
                          !.version = LatestVersion(pods[request.pod].build)]
             /\ request.at = "login" /\ "temporal" \in pods[request.pod].open
    <3>. DEFINE b == pods[request.pod].build
    <3>1. request.pod \in Pods /\ request # NoRequest
      BY <1>0, <2>2 DEF LifeInv, TypeOK, Request, NoRequest
    <3>2. b \in Builds
      BY <1>0, <2>2, <3>1, PodFacts DEF PodOK
    <3>3. LatestVersion(b) \in AllVersions
      BY <3>2, LatestFacts, VersionFacts
    <3>4. run' = [open |-> TRUE, version |-> LatestVersion(b), pos |-> 1,
                  phase |-> "persist", signals |-> {}]
      BY <2>2 DEF NoRun
    <3>5. doc' = doc
      BY <1>6 DEF StartRun
    <3>6. run'.open /\ run'.version = LatestVersion(b) /\ run'.pos - 1 = 0
      BY <3>4
    <3>7. P!Begin(LatestVersion(b))
      BY <2>2, <3>5, <3>6 DEF P!Begin
    <3>. QED  BY <3>3, <3>7 DEF P!Next
  <2>. QED  BY <1>6, <2>1, <2>2 DEF StartRun, Start
<1>7. CASE SignalRun
  <2>1. CASE UNCHANGED run
    BY <1>1, <1>7, <2>1 DEF SignalRun
  <2>2. CASE run' = [run EXCEPT !.signals = @ \cup {request.step}]
    <3>1. /\ run'.open = run.open /\ run'.version = run.version
          /\ run'.pos = run.pos /\ doc' = doc
      BY <1>0, <1>7, <2>2 DEF SignalRun, Run
    <3>. QED  BY <3>1, PinnedStutter
  <2>. QED  BY <1>7, <2>1, <2>2 DEF SignalRun
<1>8. ASSUME NEW p \in Pods, Persist(p) PROVE [P!Next]_P!vars
  <2>1. /\ run.open /\ run.version \in AllVersions
        /\ \/ doc' = Shows(run.version, run.pos)
           \/ run.pos = 1 /\ doc' = ShowsNothing(run.version)
    BY <1>0, <1>8, PersistFacts DEF Persist, TakesTask
  <2>2. run.pos \in 1..(Len(StepsOf(run.version)) + 1)
    BY <2>1 DEF WholeInv, WalkInv
  <2>3. Reading(doc') = P!View(run.version, run.pos - 1)
    BY <2>1, <2>2, ReadingFacts
  <2>4. /\ run'.open = run.open /\ run'.version = run.version
        /\ run'.pos = run.pos
    BY <1>0, <1>8 DEF Persist, Run
  <2>5. P!Publish
    BY <2>1, <2>3, <2>4 DEF P!Publish, Reading
  <2>. QED  BY <2>5 DEF P!Next
<1>9. ASSUME NEW p \in Pods, WalkStep(p) PROVE [P!Next]_P!vars
  <2>1. /\ run.open /\ run.phase = "walk" /\ doc' = doc
        /\ run.pos <= Len(StepsOn(p)) /\ TakesTask(p)
    BY <1>9 DEF WalkStep, TakesTask
  <2>2. run.version \in AllVersions /\ StepsOn(p) = StepsOf(run.version)
    BY <1>0, <2>1, PersistFacts
  <2>3. Len(StepsOf(run.version)) \in Nat \ {0}
    BY <2>2, StepsFacts
  <2>4. /\ run.pos \in 1..(Len(StepsOf(run.version)) + 1)
        /\ LeftAt(run.version, run.pos)
    BY <2>1 DEF WholeInv, WalkInv
  <2>5. P!Shown
    BY <2>1, <2>4, LeftIsShown
  <2>6. run.pos - 1 < StepCount[run.version]
    BY <1>0, <2>1, <2>2, <2>3 DEF StepCount
  <2>7. /\ run'.open = run.open /\ run'.version = run.version
        /\ run'.pos - 1 = (run.pos - 1) + 1
    <3>1. PICK taken : run' = [run EXCEPT !.pos = @ + 1, !.phase = "persist",
                                          !.signals = @ \ taken]
      BY <1>9 DEF WalkStep
    <3>. QED  BY <1>0, <3>1 DEF Run
  <2>8. P!Complete
    BY <2>1, <2>5, <2>6, <2>7 DEF P!Complete
  <2>. QED  BY <2>8 DEF P!Next
<1>10. ASSUME NEW p \in Pods, Return(p) PROVE [P!Next]_P!vars
  <2>1. /\ run.open /\ run.phase = "walk" /\ doc' = doc /\ TakesTask(p)
        /\ run.pos = Len(StepsOn(p)) + 1
    BY <1>10 DEF Return, TakesTask
  <2>2. /\ run.version \in AllVersions
        /\ \/ StepsOn(p) = StepsOf(run.version)
           \/ run.pos = 1
    BY <1>0, <2>1, PersistFacts
  <2>3. Len(StepsOf(run.version)) \in Nat \ {0}
    BY <2>2, StepsFacts
  <2>4. /\ run.pos \in 1..(Len(StepsOf(run.version)) + 1)
        /\ LeftAt(run.version, run.pos)
    BY <2>1 DEF WholeInv, WalkInv
  <2>5. P!Shown
    BY <2>1, <2>4, LeftIsShown
  <2>6. run.pos - 1 \in {0, StepCount[run.version]}
    BY <2>1, <2>2, <2>3 DEF StepCount
  <2>7. /\ ~run'.open /\ run'.version = run.version /\ run'.pos = run.pos
    BY <1>0, <1>10 DEF Return, Run
  <2>8. P!End
    BY <2>1, <2>5, <2>6, <2>7 DEF P!End
  <2>. QED  BY <2>8 DEF P!Next
<1>. QED
  BY <1>2, <1>3, <1>4, <1>5, <1>6, <1>7, <1>8, <1>9, <1>10
     DEF Next, HandlerStep, TaskStep

\* Instances of any builds, deployed and taken down in any order, walk every
\* run along the one version it was begun with: each step is completed after
\* it was shown, and a run ends at its last step or where it began
\* (onboarding_workflow.go:96-163, starter.go:34-50, catalog.go:106-108).
THEOREM PinnedJourneyCorrect == Spec => ImplementsPinnedJourney
<1>1. ASSUME Init PROVE P!Init
  <2>1. /\ run.open = FALSE /\ run.version = 0 /\ run.pos - 1 = 0
        /\ doc.status = "absent" /\ doc.version = 0 /\ doc.steps = << >>
    BY <1>1 DEF Init, NoRun, NoDoc
  <2>. QED  BY <2>1 DEF P!Init, P!Unpublished
<1>2. WholeInv /\ [Next]_vars => [P!Next]_P!vars
  BY NextPinned
<1>. QED  BY <1>1, <1>2, WholeInvariant, PTL
          DEF Spec, ImplementsPinnedJourney, P!Spec
=============================================================================
