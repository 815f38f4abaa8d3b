---------------------------- MODULE BatchContract ----------------------------
(***************************************************************************)
(* What every batch verifier of the package promises its caller            *)
(* (ed25519/backend.go, interfaces backend and rawBatchBackend): one call  *)
(* at a time, it returns for every item the verdict of that item alone, or *)
(* it fails and then no verdict is true, except where a verifier leaves    *)
(* the slice of a call it refuses as it was.                               *)
(***************************************************************************)
CONSTANTS
  Batches,       \* the batches callers pass
  Correct(_),    \* the verdicts of a batch, item by item
  Failed(_)      \* what a failed call leaves in the slice of its caller

VARIABLES phase, request, verdicts

contractVars == <<phase, request, verdicts>>

NoVerdicts == [i \in {} |-> FALSE]

Init == phase = "idle" /\ request = NoVerdicts /\ verdicts = NoVerdicts

Call ==
  /\ phase = "idle" /\ phase' = "called"
  /\ request' \in Batches
  /\ verdicts' = NoVerdicts

Return ==
  /\ phase = "called" /\ phase' = "returned"
  /\ verdicts' = Correct(request)
  /\ UNCHANGED request

Fail ==
  /\ phase = "called" /\ phase' = "failed"
  /\ verdicts' = Failed(request)
  /\ UNCHANGED request

Consume ==
  /\ phase \in {"returned", "failed"} /\ phase' = "idle"
  /\ request' = NoVerdicts /\ verdicts' = NoVerdicts

Next == Call \/ Return \/ Fail \/ Consume

Spec == Init /\ [][Next]_contractVars
=============================================================================
