---------------------------- MODULE Auth0Client ----------------------------
(***************************************************************************)
(* The CreateOrganisation activity with the token its calls need: an       *)
(* attempt of OrgCreation is one of the callers of ManagementToken, next   *)
(* to the attempts for other users that the same worker process runs.      *)
(* The attempt asks for a token before its first call to Auth0, uses it    *)
(* for the clean-up, too, and asks again to look the address up.           *)
(***************************************************************************)
EXTENDS OrgCreation, ManagementToken

Self == "self"

\* The attempts for other users.
Others == Callers \ {Self}

ASSUME ClientAssumption == Self \in Callers

clientVars == <<vars, tokenVars>>

ClientInit == Init /\ TokenInit

\* What a step of the attempt leaves of it: nothing, or the token it has.
AttemptOrEnd ==
  IF at' \in {"read"} \cup Ended THEN End(Self) ELSE UNCHANGED tokenVars

\* Temporal has the worker begin an attempt.
BeginAttempt ==
  /\ at = "read"
  /\ Begin(Self)
  /\ UNCHANGED vars

\* The document is read, without a token.
ReadFirst ==
  /\ ~At(Self, "idle")
  /\ ReadJourney
  /\ AttemptOrEnd

\* ensureToken, at the start of CreateOrganisation and of UserEmail.
GetToken ==
  /\ at \in {"owns", "email"}
  /\ EnsureToken(Self)
  /\ UNCHANGED vars

\* The calls that carry the token.
CallWithToken ==
  /\ At(Self, "calling")
  /\ UserOwnsOrg \/ CreateOrg \/ AddMember \/ AddRole \/ DeleteOrg
  /\ AttemptOrEnd

NoteAndAskAgain ==
  /\ NoteOrg
  /\ IF at' = "email" THEN Again(Self) ELSE End(Self)

LookUpWithToken ==
  /\ At(Self, "calling")
  /\ LookUpEmail
  /\ End(Self)

\* The token cannot be had: the creation fails, the look-up does not.
TokenFails ==
  /\ At(Self, "fetching") \/ At(Self, "issued")
  /\ \/ at = "owns" /\ AttemptFails
     \/ at = "email" /\ Answers(created, FALSE)
  /\ End(Self)
  /\ UNCHANGED <<name, auth0Vars, docOrg>>

\* The attempt's minute is over.
TimeOut ==
  /\ ~At(Self, "idle")
  /\ Crash
  /\ End(Self)

\* The process dies with all attempts in it.
WorkerCrash ==
  /\ ~At(Self, "idle")
  /\ Crash
  /\ Restart

SelfStep ==
  \/ BeginAttempt
  \/ ReadFirst
  \/ GetToken
  \/ CallWithToken
  \/ NoteAndAskAgain
  \/ LookUpWithToken
  \/ TokenFails
  \/ TimeOut

OtherStep(c) ==
  /\ Begin(c) \/ End(c) \/ EnsureToken(c) \/ Again(c)
  /\ UNCHANGED vars

ClientTick == Tick /\ UNCHANGED vars

ClientNext ==
  \/ SelfStep
  \/ WorkerCrash
  \/ \E c \in Others : OtherStep(c)
  \/ ClientTick

ClientSpec == ClientInit /\ [][ClientNext]_clientVars

\* The attempts go on and time does.
ClientFairSpec ==
  /\ ClientSpec
  /\ WF_clientVars(SelfStep)
  /\ \A c \in Others : WF_clientVars(End(c) /\ UNCHANGED vars)
  /\ WF_clientVars(ClientTick)

-----------------------------------------------------------------------------
(***************************************************************************)
(* Properties.                                                             *)
(***************************************************************************)

\* Every call to Auth0 is made under a token that Auth0 still honours: whoever
\* has a token in hand has one that is good until its deadline, be it for the
\* user's organisations or the address, and the creation and the clean-up keep
\* the one the attempt began with (httporgcreator.go:113-117, 150, 203-207).
CallsAreAuthorised ==
  /\ \A c \in Callers :
       At(c, "calling") /\ caller[c].left > 0 => caller[c].life > 0
  /\ at \in {"create", "member", "role", "delete"} => At(Self, "calling")

\* Whoever fetches a token gives the mutex back, with the token, with an error
\* or at its deadline, so no attempt waits for one that is over: the user's and
\* all others share the mutex (httporgcreator.go:221-241).
MutexIsFreed == holder # {} ~> holder = {}

\* The activity ends, answered or failed, whatever the others do with the
\* token they share.
ActivityEnds == <>(at \in Ended)
=============================================================================
