---------------------------- MODULE StepCatalog ----------------------------
(***************************************************************************)
(* The step catalog (internal/workflow/catalog.go): the ordered, immutable *)
(* step list a journey is pinned to, and the look-ups made in it.          *)
(***************************************************************************)
EXTENDS Integers, Sequences

\* The empty string of the Go code: no action, no signal, no organisation.
None == ""

Resources == {"kong", "aws", "svix", "lago"}

\* The catalog action that provisions each resource.
ProvisionAction ==
  [kong |-> "ProvisionKong", aws  |-> "ProvisionAWS",
   svix |-> "ProvisionSvix", lago |-> "ProvisionLago"]

RegisteredActions ==
  {"CreateOrganisation", "CompleteProvisioning"}
    \cup {ProvisionAction[r] : r \in Resources}

StepDef == [name : STRING, action : STRING, signal : STRING,
            marksComplete : BOOLEAN]

\* The three shapes a catalog entry takes.
RecordOnly(n)  == [name |-> n, action |-> None, signal |-> None,
                   marksComplete |-> FALSE]
System(n, a)   == [RecordOnly(n) EXCEPT !.action = a]
UserDriven(n)  == [RecordOnly(n) EXCEPT !.signal = n]

\* Mutant: completion is declared one step early, ahead of a user-driven step.
EarlyCompletionCatalog ==
  << RecordOnly("USER_SIGNED_UP"),
     [UserDriven("ORGANISATION_CREATED") EXCEPT
        !.action = "CreateOrganisation"],
     System("PROVISION_KONG", "ProvisionKong"),
     [UserDriven("ONBOARDING_COMPLETED") EXCEPT !.marksComplete = TRUE],
     UserDriven("VERTICAL_SELECTED") >>

\* Version 1, the only version shipped.
stepCatalog ==
  << RecordOnly("USER_SIGNED_UP"),
     UserDriven("EMAIL_VERIFIED"),
     [UserDriven("ORGANISATION_CREATED") EXCEPT
        !.action = "CreateOrganisation"],
     System("PROVISION_KONG", "ProvisionKong"),
     System("PROVISION_AWS", "ProvisionAWS"),
     UserDriven("VERTICAL_SELECTED"),
     [UserDriven("ONBOARDING_COMPLETED") EXCEPT !.marksComplete = TRUE],
     System("PROVISION_SVIX", "ProvisionSvix"),
     System("PROVISION_LAGO", "ProvisionLago"),
     System("RESOURCES_PROVISIONED", "CompleteProvisioning") >>

StepNames(steps) == {steps[i].name : i \in DOMAIN steps}

StepInCatalog(steps, name) == name \in StepNames(steps)

\* Start-up validation: every action named by the catalog has a handler.
ValidateActions(steps) ==
  \A i \in DOMAIN steps :
    steps[i].action # None => steps[i].action \in RegisteredActions

\* The journey reads as completed once a step that marks it so is among the
\* first n.
MarkedComplete(steps, n) == \E i \in 1..n : steps[i].marksComplete
=============================================================================
