--------------------------- MODULE MCChoreography ---------------------------
EXTENDS Choreography, TLC

\* A bucket of two items feeds f, and f feeds g, which may be tried again.
MCNodes == {"k", "f", "g"}
MCEdges == {<<"k", "f">>, <<"f", "g">>}
MCItems == ("k" :> 0) @@ ("f" :> 2) @@ ("g" :> 1)
MCRetries == [n \in MCNodes |-> IF n = "g" THEN 1 ELSE 0]
=============================================================================
