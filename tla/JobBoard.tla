------------------------------ MODULE JobBoard ------------------------------
(***************************************************************************)
(* What an endpoint promises about the result of a job: a submitted job is *)
(* pending until it is settled, and a settled result changes only for a    *)
(* job that somebody asked to cancel.  Both runtimes implement it, each    *)
(* through the result that its on_complete callback stored last.           *)
(***************************************************************************)
EXTENDS Naturals

CONSTANTS Jobs,
          Outcomes      \* what a job may end in

VARIABLES result,       \* what a poll of the job returns
          asked         \* jobs somebody asked to cancel

boardVars == <<result, asked>>

BoardInit ==
  /\ result = [j \in Jobs |-> "unknown"]
  /\ asked = {}

Submit(j) ==
  /\ result[j] = "unknown"
  /\ result' = [result EXCEPT ![j] = "pending"]
  /\ UNCHANGED asked

Ask(j) ==
  /\ asked' = asked \cup {j}
  /\ UNCHANGED result

\* The jobs J end: several may lose their worker in one step, a submission that
\* the runtime refuses ends at once, and the cancellation and the job's own end
\* may both be recorded, in any order.
End(J, mayChange) ==
  /\ \A j \in J : result[j] \in {"unknown", "pending"} \/ j \in mayChange
  /\ \E f \in [J -> Outcomes] :
       result' = [j \in Jobs |-> IF j \in J THEN f[j] ELSE result[j]]

Settle(J) == End(J, asked) /\ UNCHANGED asked

Cancel(j, J) == End(J, asked \cup {j}) /\ asked' = asked \cup {j}

BoardNext ==
  \/ \E j \in Jobs : Submit(j) \/ Ask(j)
  \/ \E J \in SUBSET Jobs : Settle(J)
  \/ \E j \in Jobs, J \in SUBSET Jobs : Cancel(j, J)

BoardSpec == BoardInit /\ [][BoardNext]_boardVars
=============================================================================
