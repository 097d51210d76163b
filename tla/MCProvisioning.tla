--------------------------- MODULE MCProvisioning ---------------------------
EXTENDS Provisioning

MCEnvironments == <<"Dev", "Prod">>
=============================================================================
