---------------------------- MODULE MCDataStore ----------------------------
EXTENDS DataStore

\* One content of two regular chunks, and one of two short ones.
MCContents == {"long", "short"}
MCLengths  == [c \in MCContents |-> IF c = "long" THEN <<2, 1>> ELSE <<1, 1>>]
=============================================================================
