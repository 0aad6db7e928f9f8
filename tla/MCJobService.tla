---------------------------- MODULE MCJobService ----------------------------
EXTENDS JobService
=============================================================================
