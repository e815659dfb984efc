-------------------------- MODULE MCStateRepository -------------------------
EXTENDS StateRepository
=============================================================================
