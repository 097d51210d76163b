---------------------------- MODULE MCDeployment ----------------------------
EXTENDS Deployment

\* Version 1 with the steps the user sees first and last.
V1 == << RecordOnly("USER_SIGNED_UP"),
         [UserDriven("ONBOARDING_COMPLETED") EXCEPT !.marksComplete = TRUE] >>

\* A later version, with a step in between.
V2 == << RecordOnly("USER_SIGNED_UP"),
         UserDriven("VERTICAL_SELECTED"),
         [UserDriven("ONBOARDING_COMPLETED") EXCEPT !.marksComplete = TRUE] >>

\* One with an action nobody registered.
V3 == << RecordOnly("USER_SIGNED_UP"),
         [System("SCORE_COMPUTED", "ComputeScore") EXCEPT
            !.marksComplete = TRUE] >>

MCCatalog == [old    |-> <<V1>>,
              new    |-> <<V1, V2>>,
              broken |-> <<V1, V2, V3>>]
=============================================================================
