---------------------------- MODULE OrgCreation ----------------------------
(***************************************************************************)
(* The CreateOrganisation activity call by call: the journey document it   *)
(* reads and writes (activities.go:103-126) and the calls that             *)
(* HTTPOrgCreator makes to the Auth0 Management API                        *)
(* (platform/auth0/httporgcreator.go).  Every call may take effect and     *)
(* answer, take effect and lose the answer, or fail; the worker may crash, *)
(* or the attempt time out, between any two calls.  OnboardingWorkflow has *)
(* an attempt as one step; ImplementsActivity says that it covers what the *)
(* calls do.                                                               *)
(***************************************************************************)
EXTENDS StepCatalog, FiniteSets

CONSTANTS
  DisplayNames,    \* organisation names the step's signal may have carried
  AcceptedNames,   \* those matched by displayNameRe
  OrgIds,          \* ids Auth0 may give a new organisation
  MaxAttempts      \* RetryPolicy.MaximumAttempts

ASSUME OrgCreationAssumption ==
  /\ DisplayNames \subseteq STRING \ {None}
  /\ AcceptedNames \subseteq DisplayNames
  /\ OrgIds \subseteq STRING \ {None}
  /\ MaxAttempts \in Nat \ {0}

VARIABLES
  at,         \* the call the attempt makes next, or how the activity ended
  attempt,    \* failed attempts so far
  name,       \* ActionInput.DisplayName
  created,    \* the attempt's own organisation, once it knows its id
  answer,     \* ActionResult of the attempt that succeeded
  exists,     \* Auth0: the organisations created and not deleted
  members,    \* ... those the user is a member of
  owners,     \* ... those in which the user has the owner role
  docOrg      \* Mongo: orgId of the journey document

auth0Vars == <<exists, members, owners>>
vars == <<at, attempt, name, created, answer, auth0Vars, docOrg>>

Calls == {"read", "owns", "create", "member", "role", "delete", "note", "email"}
Ended == {"answered", "failed"}

Answer == [orgId : OrgIds \cup {None}, email : BOOLEAN]
NoAnswer == [orgId |-> None, email |-> FALSE]

TypeOK ==
  /\ at \in Calls \cup Ended
  /\ attempt \in 0..(MaxAttempts - 1)
  /\ name \in DisplayNames
  /\ created \in OrgIds \cup {None}
  /\ answer \in Answer
  /\ exists \in SUBSET OrgIds
  /\ members \in SUBSET OrgIds
  /\ owners \in SUBSET OrgIds
  /\ docOrg \in OrgIds \cup {None}

\* The activity runs for a user who has no organisation yet.
Init ==
  /\ at = "read"
  /\ attempt = 0
  /\ name \in DisplayNames
  /\ created = None
  /\ answer = NoAnswer
  /\ exists = {}
  /\ members = {}
  /\ owners = {}
  /\ docOrg = None

-----------------------------------------------------------------------------
Goes(call) == at' = call /\ UNCHANGED <<attempt, created, answer>>

\* Mutant: attempts are not counted.
AttemptsUnlimited ==
  /\ at' = "read"
  /\ created' = None
  /\ UNCHANGED <<attempt, answer>>

\* The attempt returns an error, dies or times out.  Nothing local is left.
AttemptFails ==
  /\ created' = None
  /\ UNCHANGED answer
  /\ \/ attempt + 1 < MaxAttempts /\ attempt' = attempt + 1 /\ at' = "read"
     \/ attempt + 1 >= MaxAttempts /\ at' = "failed" /\ UNCHANGED attempt

Answers(o, emailFound) ==
  /\ at' = "answered"
  /\ answer' = [orgId |-> o, email |-> emailFound]
  /\ UNCHANGED <<attempt, created>>

\* The name matches displayNameRe.
validDisplayName == name \in AcceptedNames

\* FindByUserID: the document's organisation is the answer.  If it has none,
\* HTTPOrgCreator checks the name first.
ReadJourney ==
  /\ at = "read"
  /\ \/ docOrg # None /\ Answers(docOrg, FALSE)
     \/ docOrg = None /\ validDisplayName /\ Goes("owns")
     \/ docOrg = None /\ ~validDisplayName /\ AttemptFails
     \/ AttemptFails
  /\ UNCHANGED <<name, auth0Vars, docOrg>>

\* Mutant: an organisation the user has does not stop the creation.
OwnsIgnored ==
  /\ at = "owns"
  /\ Goes("create") \/ AttemptFails
  /\ UNCHANGED <<name, auth0Vars, docOrg>>

userOwnsOrg == members # {}

\* The token all calls need is had, and a user with an organisation rejected.
UserOwnsOrg ==
  /\ at = "owns"
  /\ \/ ~userOwnsOrg /\ Goes("create")
     \/ AttemptFails
  /\ UNCHANGED <<name, auth0Vars, docOrg>>

\* POST organizations: the name sent is random, so every call makes a new one.
CreateOrg ==
  /\ at = "create"
  /\ \/ \E o \in OrgIds \ exists :
          /\ exists' = exists \cup {o}
          /\ \/ at' = "member" /\ created' = o /\ UNCHANGED <<attempt, answer>>
             \/ AttemptFails
     \/ UNCHANGED exists /\ AttemptFails
  /\ UNCHANGED <<name, members, owners, docOrg>>

\* addUserToOrg, first call.  An error leads to the clean-up.
AddMember ==
  /\ at = "member"
  /\ \/ members' = members \cup {created} /\ Goes("role")
     \/ members' \in {members, members \cup {created}} /\ Goes("delete")
  /\ UNCHANGED <<name, exists, owners, docOrg>>

\* addUserToOrg, second call.
AddRole ==
  /\ at = "role"
  /\ \/ owners' = owners \cup {created} /\ Goes("note")
     \/ owners' \in {owners, owners \cup {created}} /\ Goes("delete")
  /\ UNCHANGED <<name, exists, members, docOrg>>

\* At Auth0 a deleted organisation takes its members with it.
Deleted(o) ==
  /\ exists' = exists \ {o}
  /\ members' = members \ {o}
  /\ owners' = owners \ {o}

\* deleteOrg, best-effort: its own error is dropped.
deleteOrg == Deleted(created) \/ UNCHANGED auth0Vars

\* The clean-up; the error that led to it is returned.
DeleteOrg ==
  /\ at = "delete"
  /\ deleteOrg
  /\ AttemptFails
  /\ UNCHANGED <<name, docOrg>>

\* Mutant: the organisation is noted before its owner is made.
NoteBeforeRole ==
  /\ at \in {"role", "note"}
  /\ \/ docOrg' = created /\ Goes("email")
     \/ docOrg' \in {docOrg, created} /\ AttemptFails
  /\ UNCHANGED <<name, auth0Vars>>

\* Mutant: the error of the note is ignored.
NoteBestEffort ==
  /\ at = "note"
  /\ docOrg' \in {docOrg, created}
  /\ Goes("email")
  /\ UNCHANGED <<name, auth0Vars>>

\* SetOrgID.
NoteOrg ==
  /\ at = "note"
  /\ \/ docOrg' = created /\ Goes("email")
     \/ docOrg' \in {docOrg, created} /\ AttemptFails
  /\ UNCHANGED <<name, auth0Vars>>

\* Mutant: the failure of the look-up fails the activity for good.
EmailRequired ==
  /\ at = "email"
  /\ \/ Answers(created, TRUE)
     \/ /\ at' = "failed"
        /\ created' = None
        /\ UNCHANGED <<attempt, answer>>
  /\ UNCHANGED <<name, auth0Vars, docOrg>>

\* Is an address found?  Both an error and an empty address count as no.
UserEmail == BOOLEAN

\* UserEmail, best-effort, and the activity's answer.
LookUpEmail ==
  /\ at = "email"
  /\ \E found \in UserEmail : Answers(created, found)
  /\ UNCHANGED <<name, auth0Vars, docOrg>>

\* The worker crashes or the minute is over: no clean-up is made any more.
Crash ==
  /\ at \in Calls
  /\ AttemptFails
  /\ UNCHANGED <<name, auth0Vars, docOrg>>

Next ==
  \/ ReadJourney
  \/ UserOwnsOrg
  \/ CreateOrg
  \/ AddMember
  \/ AddRole
  \/ DeleteOrg
  \/ NoteOrg
  \/ LookUpEmail
  \/ Crash

Spec == Init /\ [][Next]_vars

-----------------------------------------------------------------------------
(***************************************************************************)
(* Properties.                                                             *)
(***************************************************************************)

\* Whatever calls fail and wherever the attempts stop, the user is a member of
\* one organisation at most (httporgcreator.go:119-126), although every create
\* call makes a new one.
OneMembership == \A o1, o2 \in members : o1 = o2

\* The organisation the document names is never a partial one: it exists, and
\* the user belongs to it as its owner; no clean-up of another attempt
\* (httporgcreator.go:149-152) has taken it away.
NotedOrgIsWhole == docOrg # None => docOrg \in exists \cap members \cap owners

\* What the workflow is told is what the document says: the executor threads
\* the id it was answered, and a later run reads the document.
AnswerIsNoted == at = "answered" => answer.orgId = docOrg /\ docOrg # None

\* An attempt that failed after the membership was made, and before the note,
\* leaves the user with an organisation nobody knows.
Rejected ==
  at \in {"read", "owns", "failed"} /\ members # {} /\ docOrg = None

\* No later attempt gets past userOwnsOrg then, none cleans up, and the
\* activity can only fail (httporgcreator.go:119-126, activities.go:106-117).
RejectedForGood == [][Rejected => Rejected']_vars

\* Every create call makes an organisation of its own and a crashed attempt
\* cleans nothing up, yet there is one per attempt at most
\* (httporgcreator.go:128-154, onboarding_workflow.go:63-71).
OrgsAreBounded == IsFiniteSet(exists) /\ Cardinality(exists) <= MaxAttempts

\* The attempt has passed its checks, so the user had no organisation and the
\* document named none when it began.
Creating == at \in {"create", "member", "role", "delete", "note", "email"}

W == INSTANCE OnboardingWorkflow WITH
       Steps <- << [UserDriven("ORGANISATION_CREATED") EXCEPT
                      !.action = "CreateOrganisation"] >>,
       VerticalNames <- {},
       MaxRuns <- 1,
       MaxBuffered <- 0,
       run <- IF at = "failed" THEN "failed" ELSE "running",
       runs <- 1,
       signals <- [n \in {"ORGANISATION_CREATED"} |-> << >>],
       pos <- 1,
       phase <- CASE at = "answered" -> "record"
                  [] at = "failed"   -> "idle"
                  [] at \in Calls    -> "action",
       attempt <- IF at \in Ended THEN 0 ELSE attempt,
       journey <- [status |-> "in_progress", orgId |-> answer.orgId,
                   currentStep |-> "ORGANISATION_CREATED",
                   verticalName |-> None, steps |-> << >>],
       ctx <- [orgId |-> answer.orgId, displayName |-> name,
               email |-> answer.email],
       doc <- [status |-> "in_progress",
               orgId |-> IF Creating THEN None ELSE docOrg,
               currentStep |-> "ORGANISATION_CREATED",
               verticalName |-> None, steps |-> << >>],
       orgs <- IF Creating THEN {} ELSE members,
       records <- [o \in OrgIds \cup {None} |->
                     [completed |-> FALSE, resources |-> {}]],
       provisioned <- [o \in OrgIds \cup {None} |-> {}]

\* The calls of an attempt, wherever it stops, amount to one CreateOrganisation
\* step of the workflow's model (activities.go:103-126).
ImplementsActivity == [][W!CreateOrganisation]_(W!vars)
=============================================================================
