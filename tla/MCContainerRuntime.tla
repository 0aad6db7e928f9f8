------------------------- MODULE MCContainerRuntime -------------------------
EXTENDS ContainerRuntime
=============================================================================
