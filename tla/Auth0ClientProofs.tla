-------------------------- MODULE Auth0ClientProofs --------------------------
(***************************************************************************)
(* The CreateOrganisation activity call by call, for every number of       *)
(* attempts and whatever calls fail: what OrgCreation promises of the      *)
(* user's organisation and Auth0Client of the token, and that an attempt   *)
(* is one step of the workflow's model.                                    *)
(***************************************************************************)
EXTENDS Auth0Client, ManagementTokenProofs, FiniteSetTheorems

\* What an attempt has done so far, by the call that comes next.  An attempt
\* that gets past its checks found no membership and no noted organisation, so
\* what it adds is the first, and what it deletes is its own.
OrgProgress ==
  /\ owners \subseteq members
  /\ members \subseteq exists
  /\ at \in Calls \ {"read", "email"} => docOrg = None
  /\ at \in {"create", "member"} => members = {}
  /\ at \in {"member", "role", "delete", "note", "email"} =>
       created # None /\ members \subseteq {created}
  /\ at = "member" => created \in exists
  /\ at = "role" => created \in members
  /\ at \in {"note", "email"} => created \in owners
  /\ at = "email" => docOrg = created

OrgCallsInv ==
  TypeOK /\ OrgProgress /\ OneMembership /\ NotedOrgIsWhole /\ AnswerIsNoted

LEMMA InitOrgCalls == Init => OrgCallsInv
BY OrgCreationAssumption
   DEF Init, OrgCallsInv, TypeOK, OrgProgress, OneMembership, NotedOrgIsWhole,
       AnswerIsNoted, Calls, Ended, Answer, NoAnswer

\* How an attempt ends, and how it goes on.
LEMMA FailsOK ==
  ASSUME TypeOK, AttemptFails
  PROVE  /\ at' \in {"read", "failed"}
         /\ attempt' \in 0..(MaxAttempts - 1)
         /\ created' = None
         /\ answer' = answer
BY OrgCreationAssumption DEF TypeOK, AttemptFails

LEMMA NextOrgCalls ==
  ASSUME OrgCallsInv, [Next]_vars
  PROVE  OrgCallsInv'
<1>. USE OrgCreationAssumption
     DEF OrgCallsInv, TypeOK, OrgProgress, OneMembership, NotedOrgIsWhole,
         AnswerIsNoted, Calls, Ended, auth0Vars
<1>1. CASE ReadJourney
  <2>1. CASE docOrg # None /\ Answers(docOrg, FALSE)
    BY <1>1, <2>1 DEF ReadJourney, Answers, Answer
  <2>2. CASE docOrg = None /\ Goes("owns")
    BY <1>1, <2>2 DEF ReadJourney, Goes
  <2>3. CASE AttemptFails
    BY <1>1, <2>3, FailsOK DEF ReadJourney
  <2>. QED  BY <1>1, <2>1, <2>2, <2>3 DEF ReadJourney
<1>2. CASE UserOwnsOrg
  BY <1>2, FailsOK DEF UserOwnsOrg, userOwnsOrg, Goes
<1>3. CASE CreateOrg
  BY <1>3, FailsOK DEF CreateOrg
<1>4. CASE AddMember
  BY <1>4 DEF AddMember, Goes
<1>5. CASE AddRole
  BY <1>5 DEF AddRole, Goes
<1>6. CASE DeleteOrg
  BY <1>6, FailsOK DEF DeleteOrg, deleteOrg, Deleted
<1>7. CASE NoteOrg
  BY <1>7, FailsOK DEF NoteOrg, Goes
<1>8. CASE LookUpEmail
  BY <1>8 DEF LookUpEmail, Answers, Answer, UserEmail
<1>9. CASE Crash
  BY <1>9, FailsOK DEF Crash
<1>10. CASE UNCHANGED vars
  BY <1>10 DEF vars
<1>. QED
  BY <1>1, <1>2, <1>3, <1>4, <1>5, <1>6, <1>7, <1>8, <1>9, <1>10 DEF Next

LEMMA OrgCallsInvariant == Spec => []OrgCallsInv
BY InitOrgCalls, NextOrgCalls, PTL DEF Spec

-----------------------------------------------------------------------------
\* A step of the client is a step of the activity and one of the token.
LEMMA ClientStep ==
  ASSUME [ClientNext]_clientVars
  PROVE  [Next]_vars /\ [TokenNext]_tokenVars
<1>1. ASSUME \/ BeginAttempt \/ GetToken \/ ClientTick
             \/ \E c \in Others : OtherStep(c)
      PROVE  UNCHANGED vars /\ TokenNext
  BY <1>1, ClientAssumption
     DEF BeginAttempt, GetToken, ClientTick, OtherStep, Others, TokenNext
<1>2. ASSUME \/ ReadFirst \/ CallWithToken \/ NoteAndAskAgain
             \/ LookUpWithToken \/ TimeOut \/ WorkerCrash
      PROVE  Next /\ [TokenNext]_tokenVars
  <2>1. Next
    BY <1>2 DEF ReadFirst, CallWithToken, NoteAndAskAgain, LookUpWithToken,
                TimeOut, WorkerCrash, Next
  <2>2. UNCHANGED tokenVars \/ End(Self) \/ Again(Self) \/ Restart
    BY <1>2 DEF ReadFirst, CallWithToken, NoteAndAskAgain, LookUpWithToken,
                TimeOut, WorkerCrash, AttemptOrEnd
  <2>. QED  BY <2>1, <2>2, ClientAssumption DEF TokenNext
<1>3. CASE TokenFails
  <2>1. [TokenNext]_tokenVars
    BY <1>3, ClientAssumption DEF TokenFails, TokenNext
  <2>2. CASE at = "owns" /\ AttemptFails
    BY <1>3, <2>1, <2>2 DEF TokenFails, UserOwnsOrg, Next
  <2>3. CASE at = "email" /\ Answers(created, FALSE)
    BY <1>3, <2>1, <2>3 DEF TokenFails, LookUpEmail, UserEmail, Next
  <2>. QED  BY <1>3, <2>2, <2>3 DEF TokenFails
<1>4. CASE UNCHANGED clientVars
  BY <1>4 DEF clientVars
<1>. QED  BY <1>1, <1>2, <1>3, <1>4 DEF ClientNext, SelfStep

LEMMA ClientInvariants == ClientSpec => []OrgCallsInv /\ []TokenInv
<1>1. ClientSpec => Spec
  BY ClientStep, PTL DEF ClientSpec, ClientInit, Spec
<1>2. ClientSpec => TokenSpec
  BY ClientStep, PTL DEF ClientSpec, ClientInit, TokenSpec
<1>. QED  BY <1>1, <1>2, OrgCallsInvariant, TokenCorrect, PTL

\* The calls of the creation are made with a token in hand.
CallsInv == at \in {"create", "member", "role", "delete"} => At(Self, "calling")

LEMMA NextCalls ==
  ASSUME CallsInv, TokenInv, [ClientNext]_clientVars
  PROVE  CallsInv'
<1>. USE DEF CallsInv
<1>1. CASE BeginAttempt \/ GetToken
  BY <1>1 DEF BeginAttempt, GetToken, vars
<1>2. CASE ReadFirst \/ NoteAndAskAgain \/ LookUpWithToken
  BY <1>2 DEF ReadFirst, NoteAndAskAgain, LookUpWithToken, ReadJourney,
              NoteOrg, LookUpEmail, Answers, AttemptFails, Goes
<1>3. CASE TokenFails \/ TimeOut \/ WorkerCrash
  BY <1>3 DEF TokenFails, TimeOut, WorkerCrash, Crash, AttemptFails, Answers
<1>4. CASE CallWithToken
  <2>1. CASE at' \in {"read"} \cup Ended
    BY <2>1 DEF Ended
  <2>2. CASE at' \notin {"read"} \cup Ended
    BY <1>4, <2>2 DEF CallWithToken, AttemptOrEnd, tokenVars, At
  <2>. QED  BY <2>1, <2>2
<1>5. ASSUME NEW c \in Others, OtherStep(c)
      PROVE  CallsInv'
  <2>1. caller'[Self] = caller[Self] /\ at' = at
    BY <1>5, ClientAssumption
       DEF OtherStep, Others, Begin, End, EnsureToken, TakeCached, Fetch,
           Issue, Store, Again, Moves, TokenInv, TokenTypeOK, vars
  <2>. QED  BY <2>1 DEF At
<1>6. CASE ClientTick
  <2>1. caller'[Self].at = caller[Self].at /\ at' = at
    BY <1>6, ClientAssumption DEF ClientTick, Tick, vars
  <2>. QED  BY <2>1 DEF At
<1>7. CASE UNCHANGED clientVars
  BY <1>7 DEF clientVars, vars, tokenVars, At
<1>. QED
  BY <1>1, <1>2, <1>3, <1>4, <1>5, <1>6, <1>7 DEF ClientNext, SelfStep

-----------------------------------------------------------------------------
\* The activity is type-correct (activities.go:103-126).
THEOREM OrgTypeCorrect == ClientSpec => []TypeOK
BY ClientInvariants, PTL DEF OrgCallsInv

\* Whatever calls fail, and with any number of attempts, the user is a member
\* of one organisation at most (httporgcreator.go:119-126).
THEOREM OneMembershipCorrect == ClientSpec => []OneMembership
BY ClientInvariants, PTL DEF OrgCallsInv

\* The organisation the document names exists and is owned by the user; no
\* clean-up takes it away (httporgcreator.go:148-154).
THEOREM NotedOrgCorrect == ClientSpec => []NotedOrgIsWhole
BY ClientInvariants, PTL DEF OrgCallsInv

\* What the executor is answered is what a later run will read
\* (activities.go:103-117).
THEOREM AnswerCorrect == ClientSpec => []AnswerIsNoted
BY ClientInvariants, PTL DEF OrgCallsInv

\* Of all attempts in the process, this activity's and those for other users,
\* one at a time fetches a token, and none while the cache has one to give
\* (httporgcreator.go:219-241).
THEOREM FetchesAreNeeded == ClientSpec => []NoNeedlessFetch
BY ClientInvariants, PTL DEF TokenInv

\* Once an attempt has left a membership that no document names, every later
\* one is rejected and the activity never answers: the retries are in vain
\* (httporgcreator.go:119-126, activities.go:106-117).
THEOREM RejectedForGoodCorrect ==
  ClientSpec => RejectedForGood /\ [](Rejected => [](at # "answered"))
<1>1. ASSUME OrgCallsInv, Rejected, [Next]_vars PROVE Rejected'
  <2>1. CASE ReadJourney
    BY <1>1, <2>1 DEF ReadJourney, Rejected, Goes, AttemptFails, auth0Vars
  <2>2. CASE UserOwnsOrg
    BY <1>1, <2>2
       DEF UserOwnsOrg, userOwnsOrg, Rejected, AttemptFails, auth0Vars
  <2>3. CASE Crash
    BY <1>1, <2>3 DEF Crash, Rejected, AttemptFails, auth0Vars
  <2>4. CASE UNCHANGED vars
    BY <1>1, <2>4 DEF vars, auth0Vars, Rejected
  <2>. QED
    BY <1>1, <2>1, <2>2, <2>3, <2>4
       DEF Next, Rejected, CreateOrg, AddMember, AddRole, DeleteOrg, NoteOrg,
           LookUpEmail
<1>2. Rejected => at # "answered"
  BY DEF Rejected
<1>3. ClientSpec => Spec
  BY ClientStep, PTL DEF ClientSpec, ClientInit, Spec
<1>. QED
  BY <1>1, <1>2, <1>3, OrgCallsInvariant, PTL DEF Spec, RejectedForGood

\* An attempt that has made its organisation is ahead of the count of failures
\* by that one.
MadeOne == {"member", "role", "delete", "note", "email", "answered", "failed"}

OrgsInv ==
  /\ IsFiniteSet(exists)
  /\ Cardinality(exists) <= attempt + 1
  /\ at \notin MadeOne => Cardinality(exists) <= attempt

LEMMA NextOrgs ==
  ASSUME OrgsInv, OrgCallsInv, OrgCallsInv', [Next]_vars
  PROVE  OrgsInv'
<1>0. /\ IsFiniteSet(exists) /\ Cardinality(exists) \in Nat
      /\ attempt \in Nat /\ attempt' \in Nat
  BY OrgCreationAssumption, FS_CardinalityType DEF OrgsInv, OrgCallsInv, TypeOK
\* Whatever an attempt has made, its failure makes room for it.
<1>1. ASSUME AttemptFails, IsFiniteSet(exists'), Cardinality(exists') \in Nat,
             Cardinality(exists') <= attempt + 1
      PROVE  OrgsInv'
  <2>1. CASE attempt' = attempt + 1 /\ at' = "read"
    BY <1>0, <1>1, <2>1 DEF OrgsInv
  <2>2. CASE attempt' = attempt /\ at' = "failed"
    BY <1>0, <1>1, <2>2 DEF OrgsInv, MadeOne
  <2>. QED  BY <1>1, <2>1, <2>2 DEF AttemptFails
<1>2. Cardinality(exists) <= attempt + 1
  BY DEF OrgsInv
<1>3. CASE exists' = exists /\ AttemptFails
  BY <1>0, <1>1, <1>2, <1>3
<1>4. ASSUME exists' = exists, attempt' = attempt,
             at \in MadeOne => at' \in MadeOne
      PROVE  OrgsInv'
  BY <1>0, <1>4 DEF OrgsInv
<1>5. CASE ReadJourney \/ UserOwnsOrg \/ AddMember \/ AddRole \/ NoteOrg
           \/ LookUpEmail \/ Crash \/ UNCHANGED vars
  BY <1>3, <1>4, <1>5
     DEF ReadJourney, UserOwnsOrg, AddMember, AddRole, NoteOrg, LookUpEmail,
         Crash, Goes, Answers, auth0Vars, vars, MadeOne
<1>6. CASE CreateOrg
  <2>1. CASE exists' = exists /\ AttemptFails
    BY <1>3, <2>1
  <2>2. ASSUME NEW o \in OrgIds \ exists, exists' = exists \cup {o},
               (at' = "member" /\ attempt' = attempt) \/ AttemptFails
        PROVE  OrgsInv'
    <3>1. IsFiniteSet(exists') /\ Cardinality(exists') = Cardinality(exists) + 1
      BY <1>0, <2>2, FS_AddElement
    <3>2. Cardinality(exists) <= attempt
      BY <1>6 DEF OrgsInv, CreateOrg, MadeOne
    <3>3. CASE AttemptFails
      BY <1>0, <1>1, <3>1, <3>2, <3>3
    <3>4. CASE at' = "member" /\ attempt' = attempt
      BY <1>0, <3>1, <3>2, <3>4 DEF OrgsInv, MadeOne
    <3>. QED  BY <2>2, <3>3, <3>4
  <2>. QED  BY <1>6, <2>1, <2>2 DEF CreateOrg
<1>7. CASE DeleteOrg
  <2>1. /\ AttemptFails
        /\ exists' \in {exists, exists \ {created}}
    BY <1>7 DEF DeleteOrg, deleteOrg, Deleted, auth0Vars
  <2>2. IsFiniteSet(exists') /\ Cardinality(exists') <= Cardinality(exists)
    <3>1. exists' \subseteq exists
      BY <2>1
    <3>. QED  BY <1>0, <3>1, FS_Subset
  <2>3. Cardinality(exists') \in Nat
    BY <2>2, FS_CardinalityType
  <2>4. Cardinality(exists') <= attempt + 1
    BY <1>0, <1>2, <2>2, <2>3
  <2>. QED  BY <1>1, <2>1, <2>2, <2>3, <2>4
<1>. QED  BY <1>5, <1>6, <1>7 DEF Next

\* The attempts of one activity leave one organisation each at Auth0 at most,
\* whatever fails, crashes or is not cleaned up (httporgcreator.go:128-154).
THEOREM OrgsBounded == ClientSpec => []OrgsAreBounded
<1>1. Init => OrgsInv
  BY FS_EmptySet DEF Init, OrgsInv, MadeOne
<1>2. ASSUME OrgsInv, OrgCallsInv PROVE OrgsAreBounded
  <2>1. Cardinality(exists) \in Nat /\ attempt \in 0..(MaxAttempts - 1)
        /\ MaxAttempts \in Nat
    BY <1>2, OrgCreationAssumption, FS_CardinalityType
       DEF OrgsInv, OrgCallsInv, TypeOK
  <2>. QED  BY <1>2, <2>1 DEF OrgsInv, OrgsAreBounded
<1>3. ClientSpec => Spec
  BY ClientStep, PTL DEF ClientSpec, ClientInit, Spec
<1>4. OrgsInv /\ OrgCallsInv /\ OrgCallsInv' /\ [Next]_vars => OrgsInv'
  BY NextOrgs
<1>. QED
  BY <1>1, <1>2, <1>3, <1>4, OrgCallsInvariant, PTL DEF Spec

\* The calls of every attempt in the process are made under a token that Auth0
\* honours until the attempt's deadline, whatever the others do with the token
\* they share (httporgcreator.go:219-241).
THEOREM AuthorisedCalls == ClientSpec => []CallsAreAuthorised
<1>1. ClientInit => CallsInv
  BY DEF ClientInit, Init, CallsInv
<1>2. CallsInv /\ TokenInv => CallsAreAuthorised
  <2>. SUFFICES ASSUME CallsInv, TokenInv, NEW c \in Callers, At(c, "calling"),
                       caller[c].left > 0
                PROVE  caller[c].life > 0
    BY DEF CallsAreAuthorised, CallsInv
  <2>1. caller[c].life >= caller[c].left
    BY DEF TokenInv, TokenOutlivesAttempt
  <2>2. caller[c].left \in Nat /\ caller[c].life \in Nat
    BY TokenAssumption DEF TokenInv, TokenTypeOK, Caller
  <2>. QED  BY <2>1, <2>2
<1>. QED
  BY <1>1, <1>2, NextCalls, ClientInvariants, PTL DEF ClientSpec

-----------------------------------------------------------------------------
(***************************************************************************)
(* The activity implements the workflow's CreateOrganisation.              *)
(***************************************************************************)

\* Auth0 is asked for nothing under a name that displayNameRe does not match,
\* and nothing is answered before the attempt's end.
NameInv ==
  /\ at \in Calls \ {"read"} => validDisplayName
  /\ at \in Calls => answer = NoAnswer

LEMMA NextName ==
  ASSUME NameInv, TypeOK, [Next]_vars
  PROVE  NameInv'
BY DEF NameInv, validDisplayName, TypeOK, Calls, Ended, Next, ReadJourney,
       UserOwnsOrg, CreateOrg, AddMember, AddRole, DeleteOrg, NoteOrg,
       LookUpEmail, Crash, AttemptFails, Answers, Goes, vars

OrgStep == [UserDriven("ORGANISATION_CREATED") EXCEPT
              !.action = "CreateOrganisation"]

LEMMA EntryFacts ==
  ASSUME NEW n, NEW none, NEW mark, NEW a
  PROVE  LET record == [name |-> n, action |-> none, signal |-> none,
                        marksComplete |-> mark]
             entry  == [[record EXCEPT !.signal = n] EXCEPT !.action = a]
         IN  entry.signal = n /\ entry.action = a
OBVIOUS

LEMMA OrgStepFacts ==
  /\ OrgStep.signal = "ORGANISATION_CREATED"
  /\ OrgStep.action = "CreateOrganisation"
BY EntryFacts DEF OrgStep, UserDriven, RecordOnly

\* One channel, in which nothing waits.
LEMMA NoMessages == W!NoSignals = [n \in {"ORGANISATION_CREATED"} |-> << >>]
<1>1. DOMAIN <<OrgStep>> = {1} /\ <<OrgStep>>[1] = OrgStep
  OBVIOUS
<1>2. W!Channels = {<<OrgStep>>[i].signal : i \in DOMAIN <<OrgStep>>} \ {""}
  BY DEF W!Channels, W!None, OrgStep
<1>3. W!Channels = {"ORGANISATION_CREATED"}
  BY <1>1, <1>2, OrgStepFacts
<1>. QED  BY <1>3 DEF W!NoSignals

LEMMA FailMaps ==
  ASSUME TypeOK, at \in Calls, AttemptFails
  PROVE  W!AttemptFailed
BY NoMessages, OrgCreationAssumption
   DEF TypeOK, AttemptFails, Calls, Ended, W!AttemptFailed, W!Close

LEMMA AnswerMaps ==
  ASSUME NameInv, at \in Calls, NEW o, NEW found \in BOOLEAN, Answers(o, found),
         UNCHANGED name
  PROVE  W!AttemptSucceeded("record") /\ W!MergeOrg(o, found)
<1>. DEFINE c == [orgId |-> answer.orgId, displayName |-> name,
                  email |-> answer.email]
            d == [orgId |-> o, displayName |-> name, email |-> answer.email]
            merged == c.email \/ found
<1>1. W!AttemptSucceeded("record")
  BY DEF Answers, Calls, Ended, W!AttemptSucceeded
<1>2. answer.email = FALSE /\ answer'.orgId = o /\ answer'.email = found
  BY DEF Answers, NameInv, NoAnswer
<1>3. merged = found
  <2>1. c.email = answer.email
    OBVIOUS
  <2>. QED  BY <1>2, <2>1
<1>4. c' = [c EXCEPT !.orgId = o, !.email = merged]
  <2>1. c' = [orgId |-> o, displayName |-> name, email |-> found]
    BY <1>2
  <2>2. [c EXCEPT !.orgId = o] = d
    OBVIOUS
  <2>3. [d EXCEPT !.email = found]
          = [orgId |-> o, displayName |-> name, email |-> found]
    OBVIOUS
  <2>4. [c EXCEPT !.orgId = o, !.email = found]
          = [[c EXCEPT !.orgId = o] EXCEPT !.email = found]
    OBVIOUS
  <2>. HIDE DEF c, d, merged
  <2>. QED  BY <1>3, <2>1, <2>2, <2>3, <2>4
<1>5. W!MergeOrg(o, found)
  BY <1>2, <1>4 DEF W!MergeOrg
<1>. QED  BY <1>1, <1>5

\* What the workflow sees of an attempt is what it leaves behind.
LEMMA RejectedMaps ==
  ASSUME TypeOK, NameInv, at \in Calls, AttemptFails, UNCHANGED name,
         Creating => docOrg' = None /\ members' = {},
         ~Creating => UNCHANGED <<docOrg, members>>
  PROVE  W!CreateOrganisation
<1>1. W!AttemptFailed
  BY FailMaps
<1>2. at' \in {"read", "failed"} /\ answer' = answer
  BY FailsOK
<1>3. W!NothingMerged
  BY <1>2 DEF W!NothingMerged
<1>4. ~Creating'
  BY <1>2 DEF Creating
<1>5. W!CreateOrganisationRejected \/ W!ReuseOrganisation
  BY <1>1, <1>3, <1>4
     DEF W!CreateOrganisationRejected, W!ReuseOrganisation, W!None, None
<1>6. W!Step.action = "CreateOrganisation"
  BY OrgStepFacts DEF W!Step, OrgStep
<1>. QED
  BY <1>5, <1>6 DEF W!CreateOrganisation, Calls, Ended

LEMMA NotedMaps ==
  ASSUME ~Creating', NEW o \in OrgIds, docOrg' = o
  PROVE  W!SetOrgID(o)
<1>. DEFINE Doc(org) == [status |-> "in_progress", orgId |-> org,
                         currentStep |-> "ORGANISATION_CREATED",
                         verticalName |-> None, steps |-> << >>]
            old == Doc(IF Creating THEN None ELSE docOrg)
            status == IF old.status = "absent" THEN "in_progress"
                      ELSE old.status
<1>1. old.status = "in_progress"
  OBVIOUS
<1>2. status = "in_progress"
  BY <1>1
<1>3. [old EXCEPT !.orgId = o] = Doc(o)
  OBVIOUS
<1>4. [Doc(o) EXCEPT !.status = "in_progress"] = Doc(o)
  OBVIOUS
<1>5. [old EXCEPT !.orgId = o, !.status = "in_progress"]
        = [[old EXCEPT !.orgId = o] EXCEPT !.status = "in_progress"]
  OBVIOUS
<1>6. docOrg' = o => old' = Doc(o)
  OBVIOUS
<1>7. docOrg' = o => old' = [old EXCEPT !.orgId = o, !.status = status]
  <2>. HIDE DEF Doc, old, status
  <2>. QED  BY <1>2, <1>3, <1>4, <1>5, <1>6
<1>. QED  BY <1>7 DEF W!SetOrgID

LEMMA CreatedMaps ==
  ASSUME TypeOK, NameInv, Creating, AttemptFails, UNCHANGED name,
         NEW o \in OrgIds, members' = {o}, docOrg' \in {None, o}
  PROVE  W!CreateOrganisation
<1>0. at \in Calls /\ at # "read"
  BY DEF Creating, Calls
<1>1. W!AttemptFailed
  BY <1>0, FailMaps
<1>2. at' \in {"read", "failed"} /\ answer' = answer /\ ~Creating'
  BY FailsOK DEF Creating
<1>3. W!NothingMerged
  BY <1>2 DEF W!NothingMerged
<1>4. W!CanCreateOrg
  BY <1>0 DEF W!CanCreateOrg, NameInv, validDisplayName, Calls
<1>5. docOrg' = o => W!SetOrgID(o)
  BY <1>2, NotedMaps
<1>6. W!CreateNewOrganisation
  BY <1>1, <1>2, <1>3, <1>4, <1>5
     DEF W!CreateNewOrganisation, W!None, None
<1>7. W!Step.action = "CreateOrganisation"
  BY OrgStepFacts DEF W!Step, OrgStep
<1>. QED
  BY <1>0, <1>6, <1>7 DEF W!CreateOrganisation, Calls, Ended

LEMMA AnsweredMaps ==
  ASSUME TypeOK, NameInv, at = "email", UNCHANGED name,
         NEW o \in OrgIds, members' = {o}, docOrg' = o,
         NEW found \in BOOLEAN, Answers(o, found)
  PROVE  W!CreateOrganisation
<1>1. W!AttemptSucceeded("record") /\ W!MergeOrg(o, found)
  BY AnswerMaps DEF Calls
<1>2. ~Creating'
  BY DEF Creating, Answers
<1>3. W!SetOrgID(o)
  BY <1>2, NotedMaps
<1>4. W!CanCreateOrg
  BY DEF W!CanCreateOrg, NameInv, validDisplayName, Calls, Creating
<1>5. W!CreateNewOrganisation
  BY <1>1, <1>2, <1>3, <1>4
     DEF W!CreateNewOrganisation, W!None, None, Creating
<1>6. W!Step.action = "CreateOrganisation"
  BY OrgStepFacts DEF W!Step, OrgStep
<1>. QED
  BY <1>5, <1>6 DEF W!CreateOrganisation, Calls, Ended

LEMMA ActivityStep ==
  ASSUME OrgCallsInv, NameInv, [Next]_vars
  PROVE  [W!CreateOrganisation]_(W!vars)
\* Within an attempt the workflow sees nothing.
<1>1. ASSUME at \in Calls, at' \in Calls, UNCHANGED <<attempt, name, answer>>,
             Creating => Creating',
             ~Creating /\ Creating' => docOrg = None /\ members = {},
             ~Creating' => UNCHANGED <<docOrg, members>>
      PROVE  UNCHANGED W!vars
  BY <1>1
     DEF W!vars, W!temporalVars, W!executorVars, W!storeVars, W!externalVars,
         Calls, Ended
<1>2. CASE ReadJourney
  <2>1. at = "read" /\ UNCHANGED <<name, docOrg, members>> /\ ~Creating
    BY <1>2 DEF ReadJourney, auth0Vars, Creating
  <2>2. CASE docOrg # None /\ Answers(docOrg, FALSE)
    <3>1. W!AttemptSucceeded("record") /\ W!MergeOrg(docOrg, FALSE)
      BY <2>1, <2>2, AnswerMaps DEF Calls
    <3>2. ~Creating'
      BY <2>2 DEF Answers, Creating
    <3>3. W!ReuseOrganisation
      BY <2>1, <2>2, <3>1, <3>2 DEF W!ReuseOrganisation, W!None, None
    <3>4. W!Step.action = "CreateOrganisation"
      BY OrgStepFacts DEF W!Step, OrgStep
    <3>. QED
      BY <2>1, <3>3, <3>4 DEF W!CreateOrganisation, Calls, Ended
  <2>3. CASE Goes("owns")
    BY <1>1, <2>1, <2>3 DEF Goes, Calls, Creating
  <2>4. CASE AttemptFails
    BY <2>1, <2>4, RejectedMaps DEF OrgCallsInv, Calls
  <2>. QED  BY <1>2, <2>2, <2>3, <2>4 DEF ReadJourney
<1>3. CASE UserOwnsOrg
  <2>1. at = "owns" /\ UNCHANGED <<name, docOrg, members>> /\ ~Creating
        /\ docOrg = None
    BY <1>3 DEF UserOwnsOrg, auth0Vars, Creating, OrgCallsInv, OrgProgress, Calls
  <2>2. CASE ~userOwnsOrg /\ Goes("create")
    BY <1>1, <2>1, <2>2 DEF Goes, Calls, Creating, userOwnsOrg
  <2>3. CASE AttemptFails
    BY <2>1, <2>3, RejectedMaps DEF OrgCallsInv, Calls
  <2>. QED  BY <1>3, <2>2, <2>3 DEF UserOwnsOrg
\* An attempt that ends while it creates leaves an organisation or none.
<1>4. ASSUME Creating, AttemptFails, UNCHANGED name,
             \/ members' = {} /\ docOrg' = None
             \/ members' = {created} /\ docOrg' \in {None, created}
                /\ created \in OrgIds
      PROVE  W!CreateOrganisation
  BY <1>4, RejectedMaps, CreatedMaps DEF OrgCallsInv, Creating, Calls
<1>5. CASE CreateOrg
  <2>1. Creating /\ at = "create" /\ members' = {} /\ docOrg' = None
        /\ UNCHANGED name
    BY <1>5 DEF CreateOrg, Creating, OrgCallsInv, OrgProgress, Calls
  <2>2. CASE AttemptFails
    BY <1>4, <2>1, <2>2
  <2>3. CASE at' = "member" /\ UNCHANGED <<attempt, answer>>
    BY <1>1, <2>1, <2>3 DEF Calls, Creating
  <2>. QED  BY <1>5, <2>2, <2>3 DEF CreateOrg
<1>6. CASE AddMember \/ AddRole
  BY <1>1, <1>6 DEF AddMember, AddRole, Goes, Calls, Creating
<1>7. CASE DeleteOrg
  <2>1. Creating /\ AttemptFails /\ UNCHANGED <<name, docOrg>> /\ docOrg = None
        /\ created \in OrgIds /\ members \subseteq {created}
    BY <1>7
       DEF DeleteOrg, Creating, OrgCallsInv, OrgProgress, Calls, TypeOK
  <2>2. members' \subseteq {created}
    BY <1>7, <2>1 DEF DeleteOrg, deleteOrg, Deleted, auth0Vars
  <2>3. members' = {} \/ members' = {created}
    BY <2>2
  <2>. QED  BY <1>4, <2>1, <2>3
<1>8. CASE NoteOrg
  <2>1. /\ Creating /\ at = "note" /\ UNCHANGED <<name, members>>
        /\ docOrg = None /\ created \in OrgIds /\ members = {created}
    BY <1>8
       DEF NoteOrg, auth0Vars, Creating, OrgCallsInv, OrgProgress, Calls, TypeOK
  <2>2. CASE Goes("email")
    BY <1>1, <2>1, <2>2 DEF Goes, Calls, Creating
  <2>3. CASE docOrg' \in {docOrg, created} /\ AttemptFails
    BY <1>4, <2>1, <2>3
  <2>. QED  BY <1>8, <2>2, <2>3 DEF NoteOrg
<1>9. CASE LookUpEmail
  <2>1. /\ Creating /\ at = "email" /\ UNCHANGED <<name, members, docOrg>>
        /\ docOrg = created /\ created \in OrgIds /\ members = {created}
    BY <1>9
       DEF LookUpEmail, auth0Vars, Creating, OrgCallsInv, OrgProgress, Calls,
           TypeOK
  <2>2. PICK found \in BOOLEAN : Answers(created, found)
    BY <1>9 DEF LookUpEmail, UserEmail
  <2>. QED
    BY <2>1, <2>2, AnsweredMaps DEF OrgCallsInv
<1>10. CASE Crash
  <2>1. AttemptFails /\ at \in Calls /\ UNCHANGED <<name, docOrg, members>>
    BY <1>10 DEF Crash, auth0Vars
  <2>2. CASE ~Creating
    BY <2>1, <2>2, RejectedMaps DEF OrgCallsInv
  <2>3. CASE Creating
    <3>1. CASE at \in {"note", "email"}
      <4>1. members = {created} /\ created \in OrgIds
            /\ docOrg \in {None, created}
        BY <2>3, <3>1
           DEF OrgCallsInv, OrgProgress, Creating, Calls, TypeOK
      <4>. QED  BY <1>4, <2>1, <2>3, <4>1
    <3>2. CASE at \notin {"note", "email"}
      <4>1. docOrg = None
        BY <2>1, <2>3, <3>2 DEF OrgCallsInv, OrgProgress, Creating, Calls
      <4>2. CASE members = {}
        BY <1>4, <2>1, <2>3, <4>1, <4>2
      <4>3. CASE members # {}
        <5>1. at \in {"member", "role", "delete"}
          BY <2>3, <3>2, <4>3 DEF OrgCallsInv, OrgProgress, Creating
        <5>2. created \in OrgIds /\ members = {created}
          BY <4>3, <5>1 DEF OrgCallsInv, OrgProgress, TypeOK
        <5>. QED  BY <1>4, <2>1, <2>3, <4>1, <5>2
      <4>. QED  BY <4>2, <4>3
    <3>. QED  BY <3>1, <3>2
  <2>. QED  BY <2>2, <2>3
<1>11. CASE UNCHANGED vars
  BY <1>11
     DEF vars, auth0Vars, W!vars, W!temporalVars, W!executorVars, W!storeVars,
         W!externalVars, Creating
<1>. QED
  BY <1>2, <1>3, <1>5, <1>6, <1>7, <1>8, <1>9, <1>10, <1>11 DEF Next
\* Every attempt, wherever it stops and whatever the token does, is for the
\* workflow one CreateOrganisation step or none (activities.go:101-149).
THEOREM ActivityRefinement == ClientSpec => ImplementsActivity
<1>1. Init => NameInv
  BY DEF Init, NameInv, Calls, Ended
<1>2. OrgCallsInv => TypeOK
  BY DEF OrgCallsInv
<1>3. ClientSpec => Spec
  BY ClientStep, PTL DEF ClientSpec, ClientInit, Spec
<1>4. Spec => []NameInv
  BY <1>1, <1>2, NextName, OrgCallsInvariant, PTL DEF Spec
<1>. QED
  BY <1>3, <1>4, ActivityStep, OrgCallsInvariant, PTL
     DEF Spec, ImplementsActivity
=============================================================================
