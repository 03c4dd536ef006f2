------------------------ MODULE MCParallelHelperPool ------------------------
EXTENDS ParallelHelperPool
=============================================================================
