-------------------------- MODULE MCRegistryHistory --------------------------
EXTENDS MCRegistry, RegistryHistory
=============================================================================
