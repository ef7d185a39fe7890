------------------------------ MODULE MCRegistry ------------------------------
EXTENDS Registry

=============================================================================
