------------------------------ MODULE MCSetup ------------------------------
EXTENDS Setup
AllModules == modules \ {"montage"}
=============================================================================
