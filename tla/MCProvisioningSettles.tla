------------------------ MODULE MCProvisioningSettles ------------------------
\* Instances of ProvisioningSettles for TLC.
EXTENDS ProvisioningSettles

OneProject == [e \in Env |-> CHOOSE p \in Project : TRUE]
=============================================================================
