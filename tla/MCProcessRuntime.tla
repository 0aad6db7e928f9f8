-------------------------- MODULE MCProcessRuntime --------------------------
EXTENDS ProcessRuntime
=============================================================================
