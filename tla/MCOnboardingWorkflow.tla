------------------------ MODULE MCOnboardingWorkflow ------------------------
EXTENDS OnboardingWorkflow

\* The catalog that is shipped.
MCSteps == stepCatalog
=============================================================================
