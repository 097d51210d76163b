------------------------ MODULE MCOnboardingService ------------------------
EXTENDS OnboardingService

MCSteps == stepCatalog

Input(d, v) == [displayName |-> d, verticalName |-> v]

\* The bodies of a frontend: nothing, a vertical, or a name, along with a
\* vertical that is not in the cache.
MCInputs == {NoPayload, Input("Acme", "retired"), Input(None, "agency")}
=============================================================================
