---------------------------- MODULE Provisioning ----------------------------
(***************************************************************************)
(* The provisioning activities call by call: the record they read and      *)
(* replace (activities.go:129-216, provisioning_record_repo.go) and the    *)
(* calls made to Kong, AWS, Svix and Lago (platform/provisioning).  The    *)
(* activities run one after another, as the catalog orders them, in the    *)
(* run that made the organisation.  Every call may take effect and answer, *)
(* take effect and lose the answer, or fail, and the worker may crash      *)
(* between any two calls.                                                  *)
(***************************************************************************)
EXTENDS StepCatalog, SequencesExt

CONSTANTS
  Environments,   \* lagoEnvironments, a plan and a subscription for each
  MaxAttempts     \* RetryPolicy.MaximumAttempts

ASSUME ProvisioningAssumption ==
  /\ Environments \in Seq(STRING) \ {<< >>}
  /\ \A i, j \in DOMAIN Environments :
       Environments[i] = Environments[j] => i = j
  /\ MaxAttempts \in Nat \ {0}

\* The activities, in the order of the catalog.
Activities ==
  << System("PROVISION_KONG", "ProvisionKong"),
     System("PROVISION_AWS", "ProvisionAWS"),
     System("PROVISION_SVIX", "ProvisionSvix"),
     System("PROVISION_LAGO", "ProvisionLago"),
     System("RESOURCES_PROVISIONED", "CompleteProvisioning") >>

ForEach(kind) == [i \in DOMAIN Environments |-> <<kind, Environments[i]>>]

\* Mutant: a subscription is asked for ahead of the plans.
LagoSubscriptionsFirst ==
  << <<"customer", None>> >> \o ForEach("subscription") \o ForEach("plan")

\* HTTPProvisioner.Lago: what it creates, in order.
Lago == << <<"customer", None>> >> \o ForEach("plan") \o ForEach("subscription")

\* What each provider is asked to create, in order.
CallsFor ==
  [kong |-> << <<"consumer", None>> >>,
   aws  |-> << <<"key", None>>, <<"attachment", None>> >>,
   svix |-> << <<"app", None>> >>,
   lago |-> Lago]

Objects == UNION {ToSet(CallsFor[r]) : r \in Resources}

\* A subscription is sent under a new id each time, so no call conflicts with
\* an earlier one; everything else is keyed by the organisation.
Keyed(obj) == obj[1] # "subscription"

VARIABLES
  activity,   \* the activity the executor waits for, by its index
  at,         \* where in it the attempt is, or how the activity ended
  next,       \* the provider call the attempt makes next
  attempt,    \* failed attempts so far
  rec,        \* the attempt's copy of the record
  record,     \* Mongo: the organisation's provisioning record
  count,      \* providers: how many of each object they hold
  had         \* history: the resources the providers had when it began

position == <<activity, at, next, attempt>>
vars == <<position, rec, record, count, had>>

Record == [completed : BOOLEAN, resources : SUBSET Resources]
NewRecord == [completed |-> FALSE, resources |-> {}]

TypeOK ==
  /\ activity \in DOMAIN Activities
  /\ at \in {"read", "call", "write", "answered", "failed"}
  /\ next \in 1..(Len(Lago) + 1)
  /\ attempt \in 0..(MaxAttempts - 1)
  /\ rec \in Record
  /\ record \in Record
  /\ count \in [Objects -> Nat]
  /\ had \in SUBSET Resources

Init ==
  /\ activity = 1
  /\ at = "read"
  /\ next = 1
  /\ attempt = 0
  /\ rec = NewRecord
  /\ record = NewRecord
  /\ count = [obj \in Objects |-> 0]
  /\ had = {}

-----------------------------------------------------------------------------
Action == Activities[activity].action

\* The resource that the activity is for, if it is for one.
IsFor(r) == Action = ProvisionAction[r]

\* The provider counts as having r for the code: AWS as soon as the key exists.
Provisioned(r) ==
  \A obj \in ToSet(CallsFor[r]) \ {<<"attachment", None>>} : count[obj] > 0

Answers == at' = "answered" /\ UNCHANGED <<next, attempt, rec>> /\ UNCHANGED activity

\* Mutant: one attempt too many.
OneAttemptTooMany ==
  /\ next' = 1
  /\ rec' = NewRecord
  /\ UNCHANGED activity
  /\ \/ attempt < MaxAttempts /\ attempt' = attempt + 1 /\ at' = "read"
     \/ attempt >= MaxAttempts /\ attempt' = 0 /\ at' = "failed"

\* The attempt returns an error, dies or times out.
AttemptFails ==
  /\ next' = 1
  /\ rec' = NewRecord
  /\ UNCHANGED activity
  /\ \/ attempt + 1 < MaxAttempts /\ attempt' = attempt + 1 /\ at' = "read"
     \/ attempt + 1 >= MaxAttempts /\ attempt' = 0 /\ at' = "failed"

\* Mutant: the record is not consulted.
ReadIgnored ==
  /\ at = "read"
  /\ had' = {r \in Resources : Provisioned(r)}
  /\ rec' = record
  /\ at' = IF \E r \in Resources : IsFor(r) THEN "call" ELSE "write"
  /\ UNCHANGED <<next, attempt, record, count>>
  /\ UNCHANGED activity

\* GetByOrgID: a resource that the record has is not asked for again.
ReadRecord ==
  /\ at = "read"
  /\ had' = {r \in Resources : Provisioned(r)}
  /\ \/ (\E r \in record.resources : IsFor(r)) /\ Answers
     \/ /\ ~\E r \in record.resources : IsFor(r)
        /\ rec' = record
        /\ at' = IF \E r \in Resources : IsFor(r) THEN "call" ELSE "write"
        /\ UNCHANGED <<next, attempt>>
        /\ UNCHANGED activity
     \/ AttemptFails
  /\ UNCHANGED <<record, count>>

\* Mutant: the first call that is answered is taken for all of them.
FirstCallSuffices(r, n) ==
  /\ next' = n + 1
  /\ at' = "write"
  /\ UNCHANGED <<attempt, rec>>
  /\ UNCHANGED activity

\* The next call to the provider, or the record when that was the last one.
CallMade(r, n) ==
  /\ next' = n + 1
  /\ at' = IF n = Len(CallsFor[r]) THEN "write" ELSE "call"
  /\ UNCHANGED <<attempt, rec>>
  /\ UNCHANGED activity

Created(obj) == count' = [count EXCEPT ![obj] = @ + 1]

\* The provider has the object under its key: a conflict is a success.  A key
\* that AWS has already is taken for the whole resource.
Conflict(r) ==
  LET obj == CallsFor[r][next]
  IN  /\ Keyed(obj)
      /\ count[obj] > 0
      /\ CallMade(r, IF obj = <<"key", None>> THEN Len(CallsFor[r]) ELSE next)
      /\ UNCHANGED count

\* The provider has no such object: it is created and answered, or created
\* without an answer.
Creation(r) ==
  LET obj == CallsFor[r][next]
  IN  /\ Keyed(obj) => count[obj] = 0
      /\ Created(obj)
      /\ CallMade(r, next) \/ AttemptFails

CallProvider ==
  /\ at = "call"
  /\ \E r \in Resources :
       /\ IsFor(r)
       /\ Conflict(r) \/ Creation(r)
  /\ UNCHANGED <<record, had>>

CallFails ==
  /\ at = "call"
  /\ AttemptFails
  /\ UNCHANGED <<record, count, had>>

\* Mutant: the activity's own resource and nothing else is written.
WrittenAlone ==
  [completed |-> rec.completed \/ Action = "CompleteProvisioning",
   resources |-> {r \in Resources : IsFor(r)}]

\* What is written: the copy with the resource, or with the status, set.
Written ==
  [completed |-> rec.completed \/ Action = "CompleteProvisioning",
   resources |-> rec.resources \cup {r \in Resources : IsFor(r)}]

\* ProvisioningRecordRepo.Upsert replaces the record by the attempt's copy.
WriteRecord ==
  /\ at = "write"
  /\ \/ record' = Written /\ Answers
     \/ record' \in {Written, record} /\ AttemptFails
  /\ UNCHANGED <<count, had>>

\* The worker crashes or the minute is over.
Crash ==
  /\ at \in {"read", "call", "write"}
  /\ AttemptFails
  /\ had' = IF at = "read" THEN {r \in Resources : Provisioned(r)} ELSE had
  /\ UNCHANGED <<record, count>>

\* The executor records the step and comes to the next activity.
NextActivity ==
  /\ at = "answered"
  /\ activity < Len(Activities)
  /\ activity' = activity + 1
  /\ at' = "read"
  /\ next' = 1
  /\ attempt' = 0
  /\ rec' = NewRecord
  /\ UNCHANGED <<record, count, had>>

Next ==
  \/ ReadRecord
  \/ CallProvider
  \/ CallFails
  \/ WriteRecord
  \/ Crash
  \/ NextActivity

Spec == Init /\ [][Next]_vars

-----------------------------------------------------------------------------
(***************************************************************************)
(* Properties.                                                             *)
(***************************************************************************)

\* A resource is recorded after every one of the provider calls behind it has
\* been made, in this attempt or an earlier one; the attachment of an AWS key
\* is the exception (activities.go:196-215).
RecordedIsProvisioned == \A r \in record.resources : Provisioned(r)

\* Once recorded, a resource is left alone by every later attempt
\* (activities.go:190-192), whatever was lost or repeated before.
RecordedIsLeftAlone ==
  [][\A r \in record.resources :
       \A obj \in ToSet(CallsFor[r]) : count'[obj] = count[obj]]_<<count, record>>

\* Wherever an attempt stops, Lago never holds a subscription without the
\* customer and the plan it refers to (httpprovisioner.go:138-191).
SubscriptionsHavePlans ==
  \A i \in DOMAIN Environments :
    count[<<"subscription", Environments[i]>>] > 0 =>
      /\ count[<<"customer", None>>] > 0
      /\ count[<<"plan", Environments[i]>>] > 0

InAttempt == at \in {"call", "write"}

W == INSTANCE OnboardingWorkflow WITH
       Steps <- Activities,
       DisplayNames <- {}, AcceptedNames <- {}, VerticalNames <- {},
       OrgIds <- {"org"},
       MaxBuffered <- 0, MaxRuns <- 1, runs <- 1,
       run <- IF at = "failed" THEN "failed" ELSE "running",
       signals <- [n \in {} |-> << >>],
       pos <- activity,
       phase <- CASE at = "answered" -> "record"
                  [] at = "failed"   -> "idle"
                  [] OTHER           -> "action",
       attempt <- IF at = "answered" THEN 0 ELSE attempt,
       journey <- [status |-> "completed", orgId |-> "org",
                   currentStep |-> None, verticalName |-> None,
                   steps |-> << >>],
       ctx <- [orgId |-> "org", displayName |-> None, email |-> FALSE],
       doc <- [status |-> "completed", orgId |-> "org",
               currentStep |-> None, verticalName |-> None,
               steps |-> << >>],
       orgs <- {"org"},
       records <- [o \in {"org", None} |->
                     IF o = "org" THEN record ELSE NewRecord],
       provisioned <- [o \in {"org", None} |->
                         IF o = None THEN {}
                         ELSE IF InAttempt THEN had
                         ELSE {r \in Resources : Provisioned(r)}]

\* The calls of an attempt, wherever it stops, amount to one Provision or one
\* CompleteProvisioning step of the workflow's model (activities.go:129-216).
ImplementsActivities ==
  [][\/ W!Provision
     \/ W!CompleteProvisioning
     \/ NextActivity]_(W!vars)

\* Retries never double-provision (provisioner.go:17-19): each call is
\* idempotent (httpprovisioner.go:135-137).
ProvisionedOnce == \A obj \in Objects : count[obj] <= 1

\* What holds in its place: what the provider keys by the organisation is there
\* once at most, and a subscription no more often than ProvisionLago may be
\* attempted; no other activity, lost answer or crash adds one
\* (httpprovisioner.go:178-190, onboarding_workflow.go:63-71).
RepeatsAreBounded ==
  \A obj \in Objects : count[obj] <= IF Keyed(obj) THEN 1 ELSE MaxAttempts

\* A provisioned organisation's API key is attached to the basic usage plan
\* (aws.go:39-41).
KeyIsAttached ==
  "aws" \in record.resources => count[<<"attachment", None>>] > 0

\* The key exists without its attachment, and no attempt is about to make it.
Unattached ==
  /\ count[<<"key", None>>] > 0
  /\ count[<<"attachment", None>>] = 0
  /\ ~(IsFor("aws") /\ at = "call" /\ next = 2)

\* Where KeyIsAttached fails it fails for good: once the attempt that made the
\* key is over, no retry attaches it, for each takes the conflict for the whole
\* resource (aws.go:49-54).
UnattachedForGood == [][Unattached => Unattached']_vars
=============================================================================
